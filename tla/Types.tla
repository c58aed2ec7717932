------------------------------- MODULE Types -------------------------------
(***************************************************************************)
(* The types of the checker (types.rs).  A type is <<its name>> when it is *)
(* basic, or <<"named", n>>, <<"generic", n, arguments>>,                  *)
(* <<"array", element, dimensions>>, <<"nullable", t>>, <<"ptr", t>>,      *)
(* <<"func", parameters, result>> or <<"param", n>>.  A reference to a     *)
(* type, as it is written, is [name, args, dims, opt]; no dims, no array.  *)
(***************************************************************************)
EXTENDS Naturals, Sequences, FiniteSets

Void == <<"void">>
BoolTy == <<"bool">>
IntTy == <<"int">>
CharTy == <<"char">>
StringTy == <<"string">>
Dyn == <<"dyn">>
NullTy == <<"null">>
Bad == <<"error">>
NoType == <<>>

IntegerNames == {"byte", "sbyte", "short", "ushort", "int", "uint", "long", "ulong"}
Floats == {"float", "double", "decimal"}
IsNumeric(t) == t[1] \in IntegerNames \cup Floats \cup {"dyn", "error"}
IsIntegral(t) == t[1] \in IntegerNames \cup {"dyn", "error"}
IsBoolLike(t) == t[1] \in {"bool", "dyn", "error"}
Category(t) ==
    CASE t[1] \in IntegerNames \cup Floats \cup {"void", "bool", "char"} -> "value"
      [] t[1] \in {"string", "named", "generic", "array", "func"} -> "reference"
      [] t[1] \in {"nullable", "null"} -> "nullable"
      [] OTHER -> t[1]                                     \* ptr, dyn, param, error
Nullish == {"reference", "nullable", "ptr", "dyn", "error"}

Unwrapped(t) == IF t[1] = "nullable" THEN t[2] ELSE t
MakeNullable(t) == IF t[1] \in {"nullable", "dyn", "null", "error"} THEN t ELSE <<"nullable", t>>

\* numeric_rank; 0 is none.
Rank(t) ==
    CASE t[1] \in {"byte", "sbyte"} -> 1
      [] t[1] \in {"short", "ushort"} -> 2
      [] t[1] \in {"int", "uint"} -> 3
      [] t[1] \in {"long", "ulong"} -> 4
      [] t[1] = "float" -> 5
      [] t[1] = "double" -> 6
      [] t[1] = "decimal" -> 7
      [] t[1] \in {"dyn", "error"} -> 100
      [] OTHER -> 0
Promoted(a, b) ==
    IF Dyn \in {a, b} THEN Dyn
    ELSE IF Bad \in {a, b} THEN Bad
    ELSE IF 0 \in {Rank(a), Rank(b)} THEN NoType
    ELSE IF Rank(a) >= Rank(b) THEN a ELSE b

\* is_assignable_to
RECURSIVE AssignableTo(_, _)
AllAssignable(as, bs) == Len(as) = Len(bs) /\ \A i \in DOMAIN as : AssignableTo(as[i], bs[i])
AssignableTo(from, to) ==
    \/ from = to
    \/ from[1] \in {"dyn", "error"} \/ to[1] \in {"dyn", "error"}
    \/ from = NullTy /\ Category(to) \in Nullish
    \/ from # NullTy /\ to[1] = "nullable" /\ AssignableTo(from, to[2])
    \/ /\ from[1] = "nullable" /\ to[1] = "nullable"
       /\ AssignableTo(from[2], to[2])
    \/ Rank(from) # 0 /\ Rank(from) <= Rank(to)
    \/ /\ from[1] = to[1]
       /\ \/ from[1] = "array" /\ from[3] = to[3] /\ AssignableTo(from[2], to[2])
          \/ from[1] = "generic" /\ from[2] = to[2] /\ AllAssignable(from[3], to[3])
          \/ from[1] = "ptr" /\ AssignableTo(from[2], to[2])
          \/ from[1] = "func" /\ AllAssignable(to[2], from[2]) /\ AssignableTo(from[3], to[3])

\* unify: the type of two branches.
Unified(a, b) ==
    LET p == Promoted(a, b)
    IN CASE a = b \/ b = Bad -> a
         [] a = Bad /\ b # Bad -> b
         [] Bad \notin {a, b} /\ a # b ->
            CASE Dyn \in {a, b} -> Dyn
              [] a = NullTy -> MakeNullable(b)
              [] b = NullTy -> MakeNullable(a)
              [] OTHER ->
                 IF p # NoType THEN p
                 ELSE IF AssignableTo(a, b) THEN b
                 ELSE IF AssignableTo(b, a) THEN a ELSE Dyn

\* ty_from_ref
RECURSIVE TypeOf(_)
TypeOf(r) ==
    LET args == [i \in DOMAIN r.args |-> TypeOf(r.args[i])]
        base == CASE r.name \in IntegerNames \cup Floats \cup {"void", "bool", "char", "string"} -> <<r.name>>
                  [] r.name \in {"dyn", "var"} -> Dyn
                  [] r.name = "ptr" -> <<"ptr", IF args = <<>> THEN Void ELSE args[1]>>
                  [] OTHER -> IF args = <<>> THEN <<"named", r.name>> ELSE <<"generic", r.name, args>>
        whole == IF r.dims = 0 THEN base ELSE <<"array", base, r.dims>>
    IN IF r.opt THEN MakeNullable(whole) ELSE whole

\* substitute: by, a function of names, for the parameters it has.
RECURSIVE Substituted(_, _)
Substituted(t, by) ==
    LET Each(ts) == [i \in DOMAIN ts |-> Substituted(ts[i], by)]
    IN CASE t[1] = "param" -> IF t[2] \in DOMAIN by THEN by[t[2]] ELSE t
         [] t[1] = "generic" -> <<"generic", t[2], Each(t[3])>>
         [] t[1] = "array" -> <<"array", Substituted(t[2], by), t[3]>>
         [] t[1] \in {"nullable", "ptr"} -> <<t[1], Substituted(t[2], by)>>
         [] t[1] = "func" -> <<"func", Each(t[2]), Substituted(t[3], by)>>
         [] OTHER -> t
=============================================================================
