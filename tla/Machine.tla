------------------------------ MODULE Machine ------------------------------
(***************************************************************************)
(* The bytecode interpreter (Vm::step and what it calls in vm.rs, and      *)
(* binary_op in value.rs) on one coroutine: what an instruction does to    *)
(* the stack, the frames, the try stack, the globals and the heap.         *)
(*                                                                         *)
(* A value is <<"int", n>>, <<"float", n>>, <<"bool", b>>, <<"null">>,     *)
(* <<"str", s>>, <<"type", name>>, <<"fn", chunk, cells>>,                 *)
(* <<"native", name>> or <<"ref", address>>, an array or object of the     *)
(* heap.  An instruction is <<operation, operand ...>>; jumps are          *)
(* relative, as in the code.  A chunk is [code, arity, locals].  A float   *)
(* is whole, its quotients are rounded down, and none is by zero.          *)
(***************************************************************************)
EXTENDS Integers, Sequences, FiniteSets, SequencesExt, TLC
LOCAL INSTANCE Bitwise

\* FoldLeft of SequencesExt, in a form that a model checker evaluates at once:
\* a part of the sequence is done before the next one is begun.
Fold(Op(_, _), base, seq) ==
    LET RECURSIVE Part(_, _, _)
        Part(from, to, acc) ==
            IF from > to THEN acc
            ELSE IF from = to THEN Op(acc, seq[from])
            ELSE LET mid == (from + to) \div 2
                 IN CHOOSE r \in {Part(mid + 1, to, half) : half \in {Part(from, mid, acc)}} : TRUE
    IN Part(1, Len(seq), base)

\* The function g: @@ makes the model checker evaluate it once, here.
Table(g) == g @@ <<>>

Null == <<"null">>
Num(n) == <<"int", n>>
Bool(b) == <<"bool", b>>
Str(s) == <<"str", s>>
Error(e) == <<"error", e>>
NoFields == [name \in {} |-> Null]

Numeric(v) == v[1] \in {"int", "float"}
IsCallee(v) == v[1] \in {"fn", "native"}

\* Integer operations take integers and booleans.
AsInt(v) == IF v[1] = "bool" THEN (IF v[2] THEN 1 ELSE 0) ELSE v[2]
Convertible(v) == v[1] \in {"int", "float", "bool"}

\* as_string, of a value that is no number or text its kind.
Text(v) ==
    CASE v[1] = "str" -> v[2]
      [] v[1] = "int" -> ToString(v[2])
      [] v[1] = "float" -> ToString(v[2]) \o ".0"
      [] v[1] = "bool" -> IF v[2] THEN "true" ELSE "false"
      [] OTHER -> v[1]

\* Quotients go towards zero, remainders have the sign of the dividend.
Quotient(a, b) == IF (a < 0) = (b < 0) THEN a \div b ELSE -((-a) \div b)
Remainder(a, b) == a - b * Quotient(a, b)
\* The bits of integers in two's complement; these fit in 16.
Width == 16
Bits(n) == n % 2^Width
Signed(n) == IF n < 2^(Width - 1) THEN n ELSE n - 2^Width

\* binary_op, of the operators that take integers (and floats, as integers)
IntegerOp(op, a, b) ==
    CASE op = "Mod" -> IF b = 0 THEN Error("division by zero") ELSE Num(Remainder(a, b))
      [] op = "BitAnd" -> Num(Signed(Bits(a) & Bits(b)))
      [] op = "BitOr"  -> Num(Signed(Bits(a) | Bits(b)))
      [] op = "BitXor" -> Num(Signed(Bits(a) ^^ Bits(b)))
      [] op = "Shl" -> Num(a * 2^b)
      [] op = "Shr" -> Num(a \div 2^b)
IntegerOps == {"Mod", "BitAnd", "BitOr", "BitXor", "Shl", "Shr"}
BinaryOp(op, l, r) ==
    LET kind == IF "float" \in {l[1], r[1]} THEN "float" ELSE "int"
        a == AsInt(l)
        b == AsInt(r)
        same == IF Numeric(l) /\ Numeric(r) THEN a = b ELSE l = r
        unfit == \/ ~(Convertible(l) /\ Convertible(r))
                 \/ kind = "float" /\ "bool" \in {l[1], r[1]} /\ op \notin IntegerOps
    IN CASE op = "Eq" -> Bool(same)
         [] op = "Ne" -> Bool(~same)
         [] op = "NullCoalesce" -> IF l = Null THEN r ELSE l
         [] op = "Add" /\ "str" \in {l[1], r[1]} -> Str(Text(l) \o Text(r))
         [] OTHER ->
            IF unfit THEN Error("type") ELSE
            CASE op = "Add" -> <<kind, a + b>>
              [] op = "Sub" -> <<kind, a - b>>
              [] op = "Mul" -> <<kind, a * b>>
              [] op = "Div" -> IF kind = "float" THEN <<kind, a \div b>>
                               ELSE IF b = 0 THEN Error("division by zero") ELSE Num(Quotient(a, b))
              [] op = "Lt"  -> Bool(a < b)
              [] op = "Le"  -> Bool(a <= b)
              [] op = "Gt"  -> Bool(a > b)
              [] op = "Ge"  -> Bool(a >= b)
              [] op \in IntegerOps -> IntegerOp(op, a, b)
Binary == IntegerOps \cup {"Add", "Sub", "Mul", "Div", "Eq", "Ne", "Lt", "Le", "Gt", "Ge",
                           "NullCoalesce", "And", "Or"}

-----------------------------------------------------------------------------
(* A machine: stack, frames, handlers, globals, heap, what was printed,    *)
(* how it ended ("" while it runs) and the result or the uncaught error.   *)

Frame(m) == Last(m.frames)
Top(m) == Last(m.stack)
Under(m, k) == m.stack[Len(m.stack) - k]
Push(m, v) == [m EXCEPT !.stack = Append(@, v)]
Pop(m, k) == [m EXCEPT !.stack = SubSeq(@, 1, Len(@) - k)]
Replace(m, k, v) == Push(Pop(m, k), v)
Skip(m, d) == [m EXCEPT !.frames[Len(m.frames)].ip = @ + d]
\* An address of the heap and the heap with a new entry.
Alloc(m, x) == [m EXCEPT !.heap = Append(@, x)]
Truncate(s, n) == SubSeq(s, 1, IF n < Len(s) THEN n ELSE Len(s))
Padded(s, n) == s \o [i \in 1..(n - Len(s)) |-> Null]

Truthy(m, v) ==
    CASE v[1] = "bool" -> v[2]
      [] Numeric(v) -> v[2] # 0
      [] v[1] = "null" -> FALSE
      [] v[1] = "str" -> v[2] # ""
      [] v[1] = "ref" -> m.heap[v[2]] # <<"array", <<>> >>
      [] OTHER -> TRUE

\* The arm of run_coroutine for an error: to the innermost handler, with the
\* frames and the stack as they were when it was set, or out of the run.
Raise(m, e) ==
    IF m.tries = <<>> THEN [m EXCEPT !.ended = "uncaught", !.result = Str(e)]
    ELSE LET h == Last(m.tries)
             kept == Truncate(m.frames, h.frames)
         IN [m EXCEPT !.tries = Front(@),
                      !.frames = [kept EXCEPT ![Len(kept)] =
                                     [@ EXCEPT !.chunk = h.chunk, !.ip = h.ip]],
                      !.stack = Append(Truncate(@, h.stack), Str(e))]

\* Op::Return, and the end of a chunk without one.
Return(m, v) ==
    LET base == Frame(m).base
        out == [m EXCEPT !.frames = Front(@), !.stack = Truncate(@, base)]
    IN IF out.frames = <<>> THEN [out EXCEPT !.ended = "done", !.result = v] ELSE Push(out, v)

\* A value that is set beyond the stack extends it.
SetLocal(m, slot) ==
    LET i == Frame(m).base + slot + 1
    IN [m EXCEPT !.stack = [Padded(@, i) EXCEPT ![i] = Top(m)]]
GetLocal(m, slot) ==
    LET i == Frame(m).base + slot + 1
    IN IF i <= Len(m.stack) THEN m.stack[i] ELSE Null
\* IncLocal and DecLocal change integers and nothing else.
AddLocal(m, slot, d) ==
    LET i == Frame(m).base + slot + 1
    IN IF i <= Len(m.stack) /\ m.stack[i][1] = "int"
       THEN [m EXCEPT !.stack[i][2] = @ + d] ELSE m

\* call_value: a receiver below the function changes places with it.
Called(m, n) ==
    LET l == Len(m.stack)
    IN IF n >= 1 /\ l > n /\ ~IsCallee(m.stack[l - n]) /\ IsCallee(m.stack[l - n + 1])
       THEN [m EXCEPT !.stack = [@ EXCEPT ![l - n] = m.stack[l - n + 1],
                                          ![l - n + 1] = m.stack[l - n]]]
       ELSE m
Identity(m, v) == IF v[1] = "ref" THEN m.heap[v[2]][2]["id"] ELSE Null
Call(P, m0, n) ==
    LET m == Called(m0, n)
        at == Len(m.stack) - n
        f == m.stack[at]
        below == SubSeq(m.stack, 1, at - 1) \o SubSeq(m.stack, at + 1, Len(m.stack))
    IN CASE f[1] = "native" ->          \* the only one: a Dispose that prints its object
               LET self == IF n = 0 THEN Null ELSE m.stack[at + 1]
               IN Push([Pop(m, n + 1) EXCEPT !.out = Append(@, <<"disposed", Identity(m, self)>>)],
                       Null)
         [] f[1] = "fn" ->
               [m EXCEPT !.stack = Padded(below, at - 1 + P[f[2]].locals),
                         !.frames = Append(@, [chunk |-> f[2], ip |-> 1, base |-> at - 1,
                                               cells |-> f[3]])]
         [] OTHER -> Raise(m, "type")

\* MakeClosure: captured locals are copied into cells of their own, captured
\* upvalues are the cells of the frame.
MakeClosure(m, captures) ==
    LET Cell(k) == IF captures[k].local
                   THEN Len(m.heap) + Cardinality({j \in 1..k : captures[j].local})
                   ELSE Frame(m).cells[captures[k].index + 1]
        copied == SelectSeq(captures, LAMBDA c : c.local)
    IN Replace([m EXCEPT !.heap = @ \o [j \in 1..Len(copied) |-> GetLocal(m, copied[j].index)]],
               1, <<"fn", Top(m)[2], [k \in 1..Len(captures) |-> Cell(k)]>>)

\* get_property, get_index and set_index: objects are functions from names,
\* arrays sequences.
IsArray(m, v) == v[1] = "ref" /\ m.heap[v[2]][1] = "array"
Items(m, v) == m.heap[v[2]][2]
GetProperty(m, v, name) ==
    IF v[1] # "ref" THEN Raise(m, "property")
    ELSE IF IsArray(m, v) /\ name = "Length" THEN Push(m, Num(Len(Items(m, v))))
    ELSE IF name = "Dispose" THEN Push(m, <<"native", name>>)
    ELSE IF ~IsArray(m, v) /\ name \in DOMAIN Items(m, v) THEN Push(m, Items(m, v)[name])
    ELSE Raise(m, "property")
GetIndex(m, v, i) ==
    IF ~IsArray(m, v) THEN Raise(m, "type")
    ELSE IF i[1] = "int" /\ i[2] \in 0..(Len(Items(m, v)) - 1) THEN Push(m, Items(m, v)[i[2] + 1])
    ELSE Raise(m, "index")
SetIndex(m, v, i, x) ==
    IF IsArray(m, v)
    THEN Push([m EXCEPT !.heap[v[2]][2] = [Padded(@, i[2] + 1) EXCEPT ![i[2] + 1] = x]], x)
    ELSE Raise(m, "type")

-----------------------------------------------------------------------------
\* Vm::step for the instruction i, the instruction pointer being past it.
Arithmetic(m, op) ==
    LET r == CASE op = "And" -> Bool(Truthy(m, Under(m, 1)) /\ Truthy(m, Top(m)))
               [] op = "Or" -> Bool(Truthy(m, Under(m, 1)) \/ Truthy(m, Top(m)))
               [] OTHER -> BinaryOp(op, Under(m, 1), Top(m))
    IN IF r[1] = "error" THEN Raise(Pop(m, 2), r[2]) ELSE Replace(m, 2, r)

StackOp(m, i) ==
    CASE i[1] = "Constant" -> Push(m, i[2])
      [] i[1] = "Pop" -> Pop(m, 1)
      [] i[1] = "Dup" -> Push(m, Top(m))
      [] i[1] = "GetLocal" -> Push(m, GetLocal(m, i[2]))
      [] i[1] = "SetLocal" -> SetLocal(m, i[2])
      [] i[1] = "IncLocal" -> AddLocal(m, i[2], 1)
      [] i[1] = "DecLocal" -> AddLocal(m, i[2], -1)
      [] i[1] = "GetGlobal" -> Push(m, IF i[2] \in DOMAIN m.globals THEN m.globals[i[2]] ELSE Null)
      [] i[1] = "SetGlobal" -> [m EXCEPT !.globals = (i[2] :> Top(m)) @@ @]
      [] i[1] = "DefineGlobal" -> [Pop(m, 1) EXCEPT !.globals = (i[2] :> Top(m)) @@ @]
      [] i[1] = "GetUpvalue" -> Push(m, m.heap[Frame(m).cells[i[2] + 1]])
      [] i[1] = "SetUpvalue" -> [m EXCEPT !.heap[Frame(m).cells[i[2] + 1]] = Top(m)]

\* value_is_instance; objects are all of one class, "object" is any value.
IsInstance(m, v, type) ==
    CASE type \in {"null", "bool", "int", "float", "str"} -> v[1] = type
      [] type = "array" -> IsArray(m, v)
      [] type = "function" -> IsCallee(v)
      [] type = "object" -> v # Null
      [] OTHER -> v[1] = "ref" /\ ~IsArray(m, v)
DataOp(m, i) ==
    CASE i[1] \in {"Neg", "BitNot"} ->
            IF ~Convertible(Top(m)) THEN Raise(Pop(m, 1), "type")
            ELSE Replace(m, 1, IF i[1] = "BitNot" THEN Num(-AsInt(Top(m)) - 1)
                               ELSE IF Top(m)[1] = "float" THEN <<"float", -Top(m)[2]>>
                               ELSE Num(-AsInt(Top(m))))
      [] i[1] = "ToString" -> Replace(m, 1, Str(Text(Top(m))))
      [] i[1] = "IsInstance" -> Replace(m, 2, Bool(IsInstance(m, Under(m, 1), Top(m)[2])))
      [] i[1] = "Not" -> Replace(m, 1, Bool(~Truthy(m, Top(m))))
      [] i[1] = "IsNull" -> Replace(m, 1, Bool(Top(m) = Null))
      [] i[1] = "GetProperty" -> GetProperty(Pop(m, 2), Under(m, 1), Top(m)[2])
      [] i[1] = "SetProperty" ->
            LET o == Under(m, 2) IN
            IF o[1] # "ref" \/ IsArray(m, o) THEN Raise(m, "type")
            ELSE Replace([m EXCEPT !.heap[o[2]][2] = (Top(m)[2] :> Under(m, 1)) @@ @], 3, Under(m, 1))
      [] i[1] = "GetIndex" -> GetIndex(Pop(m, 2), Under(m, 1), Top(m))
      [] i[1] = "SetIndex" -> SetIndex(Pop(m, 3), Under(m, 2), Under(m, 1), Top(m))
      [] i[1] = "StringStartsWith" -> Replace(m, 2, Bool(Under(m, 1) = Top(m)))
      [] i[1] = "NewArray" ->
            Push(Alloc(Pop(m, i[2]), <<"array", SubSeq(m.stack, Len(m.stack) - i[2] + 1, Len(m.stack))>>),
                 <<"ref", Len(m.heap) + 1>>)
      [] i[1] = "NewObject" -> Push(Alloc(m, <<"object", NoFields>>), <<"ref", Len(m.heap) + 1>>)
      [] i[1] = "MakeClosure" -> MakeClosure(m, i[2])
      [] i[1] = "Print" -> Replace([m EXCEPT !.out = Append(@, Top(m))], 1, Null)

ControlOp(P, m, i) ==
    CASE i[1] = "Jump" -> Skip(m, i[2])
      [] i[1] = "Loop" -> Skip(m, -i[2])
      [] i[1] = "JumpIfFalse" -> IF Truthy(m, Top(m)) THEN m ELSE Skip(m, i[2])
      [] i[1] = "JumpIfTrue" -> IF Truthy(m, Top(m)) THEN Skip(m, i[2]) ELSE m
      [] i[1] = "Call" -> Call(P, m, i[2])
      [] i[1] = "Return" -> Return(Pop(m, 1), Top(m))
      [] i[1] = "Await" -> m              \* of a value that is no task: the value
      [] i[1] = "Halt" -> [m EXCEPT !.ended = "done", !.result = Null]
      [] i[1] = "Throw" -> Raise(Pop(m, 1), Top(m)[2])
      [] i[1] = "TryBegin" ->
            [m EXCEPT !.tries = Append(@, [chunk |-> Frame(m).chunk, ip |-> Frame(m).ip + i[2],
                                           stack |-> Len(m.stack), frames |-> Len(m.frames)])]
      [] i[1] = "TryEnd" -> [m EXCEPT !.tries = IF @ = <<>> THEN @ ELSE Front(@)]

StackOps == {"Constant", "Pop", "Dup", "GetLocal", "SetLocal", "IncLocal", "DecLocal",
             "GetGlobal", "SetGlobal", "DefineGlobal", "GetUpvalue", "SetUpvalue"}
DataOps == {"Neg", "Not", "BitNot", "ToString", "IsInstance", "IsNull", "GetProperty",
            "SetProperty", "GetIndex", "SetIndex", "StringStartsWith", "NewArray", "NewObject", "MakeClosure", "Print"}
Needs(i) ==                     \* operands an instruction takes from the stack
    CASE i[1] \in Binary \cup {"GetProperty", "GetIndex", "StringStartsWith", "IsInstance"} -> 2
      [] i[1] \in {"SetProperty", "SetIndex"} -> 3
      [] i[1] \in {"Pop", "Dup", "SetLocal", "SetGlobal", "DefineGlobal", "SetUpvalue", "Neg", "Not",
                   "BitNot", "ToString", "IsNull", "MakeClosure", "Print", "JumpIfFalse", "JumpIfTrue",
                   "Return", "Throw", "Await"} -> 1
      [] i[1] = "NewArray" -> i[2]
      [] i[1] = "Call" -> i[2] + 1
      [] OTHER -> 0

StepOf(P, m) ==
    LET code == P[Frame(m).chunk].code
    IN IF Frame(m).ip > Len(code) THEN Return(m, Null)
       ELSE LET i == code[Frame(m).ip]
                n == Skip(m, 1)
            IN CASE Needs(i) > Len(m.stack) -> Raise(n, "underflow")
                 [] i[1] \in Binary -> Arithmetic(n, i[1])
                 [] i[1] \in StackOps -> StackOp(n, i)
                 [] i[1] \in DataOps -> DataOp(n, i)
                 [] OTHER -> ControlOp(P, n, i)

RECURSIVE Run(_, _, _)
\* At most 2^n instructions.
Run(P, m, n) ==
    IF m.ended # "" THEN m
    ELSE IF n = 0 THEN StepOf(P, m)
    ELSE LET half == Run(P, m, n - 1) IN Run(P, half, n - 1)

\* A run starts with the script, whose locals the VM makes room for.
ScriptLocals == 8
Boot(P, chunk) ==
    [stack |-> [i \in 1..(IF P[chunk].locals > ScriptLocals THEN P[chunk].locals ELSE ScriptLocals) |-> Null],
     frames |-> <<[chunk |-> chunk, ip |-> 1, base |-> 0, cells |-> <<>>]>>,
     tries |-> <<>>, globals |-> <<>>, heap |-> <<>>, out |-> <<>>,
     ended |-> "", result |-> Null]
=============================================================================
