------------------------------ MODULE MCParser ------------------------------
(***************************************************************************)
(* Texts and the trees they are written for.  A phrase is [x, v, p, odd]:  *)
(* its tokens, its tree, the precedence of an expression (an operand of a  *)
(* lower one is put in parentheses), and the constructs in it that the     *)
(* parser is known to take for something else.  Each operator here is a    *)
(* production of the language, whatever the parser does with its text.     *)
(***************************************************************************)
EXTENDS Naturals, Sequences, TLC

PaIdents == {"a", "b", "f", "x", "T", "U", "when"}
PaLiterals == [k \in {"1", "2", "1.5", "\"a\"", "\"a.b\"", "@\"a.b\"", "'a'"} |->
                 CASE k \in {"1", "2"} -> "int" [] k = "1.5" -> "float" [] k = "'a'" -> "char"
                   [] k \in {"\"a\"", "\"a.b\""} -> "string" [] k = "@\"a.b\"" -> "raw"]
PaLetters == {"a", "b", "c", "d", "e", "f", "g", "h", "i", "j", "k", "l", "m", "n", "o", "p", "q", "r", "s", "t",
              "u", "v", "w", "x", "y", "z", "T", "U"}
PaDigits == {"0", "1", "2", "5"}
PaSpaces == {" ", "\n"}

K(words) == [x |-> words, v |-> <<>>, p |-> 0, odd |-> {}]
RECURSIVE Text(_)
Text(parts) == IF parts = <<>> THEN <<>> ELSE Head(parts).x \o Text(Tail(parts))
Odds(parts) == UNION {parts[i].odd : i \in DOMAIN parts}
Phrase(parts, v, p) == [x |-> Text(parts), v |-> v, p |-> p, odd |-> Odds(parts)]
But(e, what, when) == IF when THEN [e EXCEPT !.odd = @ \cup {what}] ELSE e
Listed(phrases) == <<"list">> \o [i \in DOMAIN phrases |-> phrases[i].v]
RECURSIVE Commas(_)
Commas(phrases) ==
    IF Len(phrases) <= 1 THEN phrases ELSE <<Head(phrases), K(<<",">>)>> \o Commas(Tail(phrases))

\* The characters of the tokens, with a space between every two, or only
\* between words and between operators.
Wordy == PaLetters \cup PaDigits
Apart == {"+", "-", "*", "/", "%", "!", "=", "<", ">", "&", "|", "^", "~", "?", "."}
Chars(w) == [i \in 1..Len(w) |-> SubSeq(w, i, i)]
Space(tight, l, r) ==
    LET last == SubSeq(l, Len(l), Len(l))
        first == SubSeq(r, 1, 1)
    IN \/ ~tight \/ l = "@"
       \/ last \in Wordy /\ first \in Wordy
       \/ last \in Apart /\ first \in Apart /\ ~(l = ">" /\ r = ">")
\* Two closing brackets are then one token.
OneToken(x, tight) == tight /\ \E i \in 1..(Len(x) - 1) : x[i] = ">" /\ x[i + 1] = ">"
RECURSIVE Source(_, _)
Source(x, tight) ==
    IF Len(x) <= 1 THEN Chars(x[1])
    ELSE Chars(x[1]) \o (IF Space(tight, x[1], x[2]) THEN <<" ">> ELSE <<>>) \o Source(Tail(x), tight)
-----------------------------------------------------------------------------
\* Types.
Type(name, args, dims, nullable) ==
    Phrase(<<K(<<name>>)>> \o (IF args = <<>> THEN <<>> ELSE <<K(<<"<">>)>> \o Commas(args) \o <<K(<<">">>)>>)
           \o (IF dims = 0 THEN <<>> ELSE <<K(<<"[">>), K([i \in 1..(dims - 1) |-> ","]), K(<<"]">>)>>)
           \o (IF nullable THEN <<K(<<"?">>)>> ELSE <<>>),
           <<"type", <<>>, <<name>>, IF args = <<>> THEN <<>> ELSE Listed(args),
             IF dims = 0 THEN <<>> ELSE <<dims>>, IF nullable THEN <<"?">> ELSE <<>> >>, 0)
IntType == Type("int", <<>>, 0, FALSE)
Types == {IntType, Type("T", <<>>, 0, FALSE), Type("T", <<IntType>>, 0, TRUE), Type("int", <<>>, 2, FALSE),
          Type("T", <<Type("U", <<IntType, IntType>>, 1, FALSE)>>, 0, FALSE),
          Type("T", <<Type("U", <<IntType>>, 0, FALSE)>>, 1, TRUE)}

-----------------------------------------------------------------------------
\* Expressions, by precedence: assignment, ?:, eleven levels of operators,
\* unary, postfix.
Lowest == 0
Conditional == 10
Level(op) == CASE op = "??" -> 20 [] op = "||" -> 30 [] op = "&&" -> 40 [] op = "|" -> 50 [] op = "^" -> 60
               [] op = "&" -> 70 [] op \in {"==", "!="} -> 80 [] op \in {"<", ">", "<=", ">="} -> 90
               [] op \in {"<<", ">>"} -> 100 [] op \in {"+", "-"} -> 110 [] op \in {"*", "/", "%"} -> 120
Testing == 85
Prefix == 130
Highest == 140

NameOf(w) == Phrase(<<K(<<w>>)>>, <<"name", <<w>> >>, Highest)
LitOf(w) == Phrase(<<K(<<w>>)>>, <<"lit", <<w>> >>, Highest)
WordOf(w) == Phrase(<<K(<<w>>)>>, <<"word", <<w>> >>, Highest)
Group(e) == Phrase(<<K(<<"(">>), e, K(<<")">>)>>, <<"group", e.v>>, Highest)
At(e, p) == IF e.p >= p THEN e ELSE Group(e)

First(e) == Head(e.x)
Ends(e, words) == Len(e.x) >= Len(words) /\ SubSeq(e.x, Len(e.x) - Len(words) + 1, Len(e.x)) = words
\* A ? is one of expr? unless one of these follows it.
Arm(k) == k \in PaIdents \cup {"1", "2", "1.5", "\"a\"", "'a'", "(", "-", "!", "~"}
\* A name in parentheses (not those of arguments) before one of these is
\* the type of a cast.
Cast0(e, k) ==
    LET n == Len(e.x) - 3
    IN /\ k \in {"-", "("}
       /\ \E w \in PaIdents : Ends(e, <<"(", w, ")">>)
       /\ n > 0 => e.x[n] \notin PaIdents \cup {"int", "typeof", ")", "]"} /\ ~(e.x[n] = ">" /\ e.x[n - 1] = "int")

Binary(op, l0, r0) ==
    LET l == At(l0, Level(op)) r == At(r0, Level(op) + 10)
    IN But(But(Phrase(<<l, K(<<op>>), r>>, <<"binary", <<op>>, l.v, r.v>>, Level(op)),
               "cast or group", Cast0(l, op)),
           "expr? or ternary", Ends(l, <<"?">>) /\ Arm(op))
Test(word, l0, type) ==
    LET l == At(l0, 90) IN Phrase(<<l, K(<<word>>), type>>, <<word, l.v, type.v>>, Testing)
Ternary(c0, a, b0) ==
    LET c == At(c0, 20) b == At(b0, Conditional)
    IN But(But(Phrase(<<c, K(<<"?">>), a, K(<<":">>), b>>, <<"ternary", c.v, a.v, b.v>>, Conditional),
               "expr? or ternary", ~Arm(First(a))),
           "nullable type or ternary", \E w \in {"is", "as"} : c.v[1] = w)
Assign(op, to0, e) ==
    LET to == At(to0, Conditional) IN Phrase(<<to, K(<<op>>), e>>, <<"assign", <<op>>, to.v, e.v>>, Lowest)
Unary(op, e0) ==
    LET e == At(e0, Prefix) IN Phrase(<<K(<<op>>), e>>, <<"unary", <<op>>, e.v>>, Prefix)
CastTo(e0) ==
    LET e == At(e0, Prefix)
    IN But(Phrase(<<K(<<"(", "int", ")">>), e>>, <<"cast", IntType.v, e.v>>, Prefix),
           "no cast", First(e) \notin PaIdents \cup DOMAIN PaLiterals \cup {"(", "null", "this", "-", "!"})
After(tag, e0, parts, v) ==
    LET e == At(e0, Highest)
    IN But(But(Phrase(<<e>> \o parts, tag \o <<e.v>> \o v, Highest), "cast or group", Cast0(e, Head(Text(parts)))),
           "expr? or ternary", Ends(e, <<"?">>) /\ Arm(Head(Text(parts))))
Args(args) == <<K(<<"(">>)>> \o Commas(args) \o <<K(<<")">>)>>
\* An argument has two parts: its name, if any, and the expression.
ArgsTree(args) ==
    IF args = <<>> THEN <<>>
    ELSE <<"list">> \o [i \in 1..(2 * Len(args)) |-> IF i % 2 = 0 THEN args[i \div 2].v ELSE <<>>]
Call(e, args) == After(<<"call", <<>> >>, e, Args(args), <<ArgsTree(args)>>)
CallNamed(e, name, arg) ==
    After(<<"call", <<>> >>, e, <<K(<<"(", name, ":">>), arg, K(<<")">>)>>, << <<"list", <<name>>, arg.v>> >>)
CallWith(e, type, args) ==
    After(<<"call", <<"list", type.v>> >>, e, <<K(<<"<">>), type, K(<<">">>)>> \o Args(args), <<ArgsTree(args)>>)
Index(e, i) == After(<<"index">>, e, <<K(<<"[">>), i, K(<<"]">>)>>, << <<"list", i.v>> >>)
Member(op, e) == After(<<"member", <<op>> >>, e, <<K(<<op, "x">>)>>, << <<"x">> >>)
PostfixOp(op, e) == After(<<"postfix", <<op>> >>, e, <<K(<<op>>)>>, <<>>)
Try1(e) == After(<<"try?">>, e, <<K(<<"?">>)>>, <<>>)
Array(es) == Phrase(<<K(<<"[">>)>> \o Commas(es) \o <<K(<<"]">>)>>,
                    <<"array", IF es = <<>> THEN <<>> ELSE Listed(es)>>, Highest)
New1(type, args) ==
    Phrase(<<K(<<"new">>), type>> \o Args(args), <<"new", type.v, <<"some", ArgsTree(args)>>, <<>> >>, Highest)
NewWith(type, e) ==
    Phrase(<<K(<<"new">>), type, K(<<"{", "x", "=">>), e, K(<<"}">>)>>,
           <<"new", type.v, <<>>, <<"some", <<"list", <<"x">>, e.v>> >> >>, Highest)
NewOfAll(type, es) ==
    But(Phrase(<<K(<<"new">>), type, K(<<"{">>)>> \o Commas(es) \o <<K(<<",", "}">>)>>,
           <<"new", type.v, <<>>, <<"some", Listed(es)>> >>, Highest),
        "items or fields", First(es[1]) \in PaIdents /\ Len(es[1].x) > 1 /\ es[1].x[2] = "=")
LambdaOf(e) ==
    Phrase(<<K(<<"(", "a", ",", "b", ")", "=>">>), e>>, <<"lambda", <<"list", <<"a">>, <<"b">> >>, e.v>>, Lowest)
TypedLambda(type, e) ==
    Phrase(<<K(<<"(", "a", ":">>), type, K(<<")", "=>">>), e>>,
           <<"lambda", <<"list", <<"param", <<>>, <<>>, <<"a">>, type.v, <<>> >> >>, e.v>>, Lowest)
OfType(word, type) == Phrase(<<K(<<word, "(">>), type, K(<<")">>)>>, <<word, type.v>>, Highest)

Atoms == {NameOf("a"), LitOf("1"), WordOf("this"), Group(NameOf("a"))}
Ops == {"??", "||", "&&", "|", "^", "&", "==", "<", ">", "<<", ">>", "+", "-", "*"}
\* The expressions made of two, and of one.
Two(l, r) ==
    {Binary(op, l, r) : op \in Ops}
    \cup {Ternary(l, r, NameOf("b")), Ternary(NameOf("b"), l, r), Assign("=", l, r), Assign(">>=", l, r), Index(l, r),
          Call(l, <<r>>), Call(NameOf("f"), <<l, r>>), Array(<<l, r>>)}
One(e) ==
    {Unary(op, e) : op \in {"-", "!", "++", "*", "&", "await"}} \cup {PostfixOp(op, e) : op \in {"++", "--"}}
    \cup {Member(op, e) : op \in {".", "?.", "->"}} \cup {Test(word, e, t) : word \in {"is", "as"}, t \in {IntType}}
    \cup {CastTo(e), Try1(e), CallWith(e, IntType, <<e>>), CallNamed(NameOf("f"), "a", e), LambdaOf(e),
          TypedLambda(IntType, e), New1(IntType, <<e>>), NewWith(Type("T", <<IntType>>, 0, FALSE), e),
          NewOfAll(Type("T", <<>>, 1, FALSE), <<e>>)}
Zero == Atoms \cup {LitOf(k) : k \in {"\"a\"", "'a'"}} \cup {Call(NameOf("f"), <<>>), Array(<<>>)} \cup {OfType("typeof", t) : t \in Types}
Simple == One(NameOf("a")) \cup Two(NameOf("a"), LitOf("1"))
ExprsOver(e) == One(e) \cup Two(e, NameOf("b")) \cup Two(LitOf("2"), e)
               \cup (IF e.v[1] = "binary" THEN {} ELSE UNION {Two(e, o) : o \in {Unary("-", NameOf("b")), Group(NameOf("b"))}})

-----------------------------------------------------------------------------
\* Statements.
Block(ss) == Phrase(<<K(<<"{">>)>> \o ss \o <<K(<<"}">>)>>, <<"block", Listed(ss)>>, 0)
Ident2(e) == Len(e.x) >= 2 /\ First(e) \in PaIdents /\ e.x[2] \in {"<", "?"}
Expression(e) ==
    But(Phrase(<<e, K(<<";">>)>>, <<"expression", e.v>>, 0), "type or expression",
        \* a name and a ? or what < and > enclose, then a name
        First(e) \in PaIdents /\ \E i \in 2..(Len(e.x) - 1) : e.x[i] \in {"?", ">"} /\ e.x[i + 1] \in PaIdents)
DeclOf(type, e) ==
    Phrase(<<type, K(<<"x", "=">>), e, K(<<";">>)>>, <<"decl", <<"typed">>, type.v, <<"x">>, <<"some", e.v>> >>, 0)
VarOf(word, e) ==
    Phrase(<<K(<<word, "x", "=">>), e, K(<<";">>)>>, <<"decl", <<word>>, <<>>, <<"x">>, <<"some", e.v>> >>, 0)
OwnedOf(word, type, e) ==
    Phrase(<<K(<<word>>), type, K(<<"x", "=">>), e, K(<<";">>)>>,
           <<"decl", <<word>>, type.v, <<"x">>, <<"some", e.v>> >>, 0)
Of(word, e) == Phrase(<<K(<<word>>), e, K(<<";">>)>>, <<word, e.v>>, 0)
IfOf(e, b, else) ==
    Phrase(<<K(<<"if", "(">>), e, K(<<")">>), b>> \o (IF else = <<>> THEN <<>> ELSE <<K(<<"else">>)>> \o else),
           <<"if", e.v, b.v, IF else = <<>> THEN <<>> ELSE else[1].v>>, 0)
WhileOf(e, b) == Phrase(<<K(<<"while", "(">>), e, K(<<")">>), b>>, <<"while", e.v, b.v>>, 0)
DoOf(e, b) == Phrase(<<K(<<"do">>), b, K(<<"while", "(">>), e, K(<<")", ";">>)>>, <<"do", b.v, e.v>>, 0)
ForOf(type, e, b) ==
    Phrase(<<K(<<"for", "(">>), type, K(<<"x", "=">>), e, K(<<";">>), e, K(<<";", "x", "++", ")">>), b>>,
           <<"for", <<"declinfor", <<"typed">>, type.v, <<"x">>, <<"some", e.v>> >>, e.v,
             <<"postfix", <<"++">>, <<"name", <<"x">> >> >>, b.v>>, 0)
ForNone(b) == Phrase(<<K(<<"for", "(", ";", ";", ")">>), b>>, <<"for", <<>>, <<>>, <<>>, b.v>>, 0)
ForeachOf(e, b) ==
    Phrase(<<K(<<"foreach", "(", "var", "x", "in">>), e, K(<<")">>), b>>, <<"foreach", <<"x">>, <<>>, e.v, b.v>>, 0)
\* A pattern is a value, or a range of two.
Pattern(e0) == LET e == At(e0, Prefix) IN Phrase(<<e>>, <<"pattern", e.v, <<>> >>, 0)
RangeOf(lo0, hi) ==
    LET lo == At(lo0, Prefix) IN Phrase(<<lo, K(<<"..">>), hi>>, <<"pattern", lo.v, <<"some", hi.v>> >>, 0)
RECURSIVE Bars(_)
Bars(ps) == IF Len(ps) <= 1 THEN ps
            ELSE <<But(Head(ps), "range or pattern", Head(ps).v[3] # <<>>), K(<<"|">>)>> \o Bars(Tail(ps))
CaseOf(ps, ss) ==
    Phrase(<<K(<<"case">>)>> \o Bars(ps) \o <<K(<<":">>)>> \o ss, <<"case", Listed(ps), <<>>, <<>>, Listed(ss)>>, 0)
GuardOf(name, e, ss) ==
    Phrase(<<K(<<"case", name, "when">>), e, K(<<":">>)>> \o ss, <<"case", <<"list">>, <<name>>, e.v, Listed(ss)>>, 0)
DefaultOf(ss) == Phrase(<<K(<<"default", ":">>)>> \o ss, <<"default", Listed(ss)>>, 0)
SwitchOf(e, cs) ==
    Phrase(<<K(<<"switch", "(">>), e, K(<<")", "{">>)>> \o cs \o <<K(<<"}">>)>>, <<"switch", e.v, Listed(cs)>>, 0)
MatchOf(e) ==
    Phrase(<<K(<<"match", "(">>), e, K(<<")", "{", "T", "(", "a", ")", "=>">>), e, K(<<",", "U", "=>">>), e, K(<<"}">>)>>,
           <<"match", e.v, <<"list", <<"T">>, <<"some", <<"a">> >>, e.v, <<"U">>, <<>>, e.v>> >>, 0)
TryOf(type, b) ==
    Phrase(<<K(<<"try">>), b, K(<<"catch", "(", "a", ":">>), type, K(<<")">>), b, K(<<"catch", "(">>), type, K(<<")">>), b,
             K(<<"catch", "(", "b", ")">>), b, K(<<"catch">>), b, K(<<"finally">>), b>>,
           <<"try", b.v, <<"list", <<"a">>, type.v, b.v>>
             \o (IF type.x = <<"T">> THEN << <<"T">>, <<>> >> ELSE <<type.v, <<>> >>)
             \o <<b.v, <<"b">>, <<>>, b.v, <<>>, <<>>, b.v>>, <<"some", b.v>> >>, 0)
\* A named exception of a type.
CatchOf(type, b) ==
    But(Phrase(<<K(<<"try">>), b, K(<<"catch", "(">>), type, K(<<"a", ")">>), b>>,
               <<"try", b.v, <<"list", type.v, <<"a">>, b.v>>, <<>> >>, 0),
        "keyword type of a catch", First(type) = "int")
UsingOf(e, b) ==
    Phrase(<<K(<<"using", "(", "var", "x", "=">>), e, K(<<")">>), b>>, <<"using", <<"var">>, <<>>, <<"x">>, e.v, b.v>>, 0)

StatementsOver(e) ==
    LET b == Block(<<Expression(NameOf("b"))>>)
        s == Of("return", e)
        brk == Phrase(<<K(<<"break", ";">>)>>, <<"break">>, 0)
    IN {Expression(e), VarOf("var", e), VarOf("dyn", e), OwnedOf("owned", Type("T", <<>>, 0, FALSE), e), s, Of("throw", e),
        IfOf(e, b, <<>>), IfOf(e, b, <<IfOf(e, b, <<b>>)>>), WhileOf(e, b), DoOf(e, b), ForOf(IntType, e, b), ForeachOf(e, b),
        SwitchOf(e, <<CaseOf(<<Pattern(e), Pattern(LitOf("2")), RangeOf(LitOf("1"), e)>>, <<s, brk>>),
                      GuardOf("a", e, <<s>>), DefaultOf(<<brk>>)>>),
        SwitchOf(e, <<CaseOf(<<RangeOf(LitOf("1"), LitOf("5")), Pattern(e)>>, <<s>>)>>),
        MatchOf(e), UsingOf(e, b)}
StatementsOf(type) ==
    LET b == Block(<<DeclOf(type, LitOf("1")), DeclOf(type, NameOf("a"))>>)
    IN {b, TryOf(type, b), CatchOf(type, b), ForNone(b), ForOf(type, NameOf("a"), b), OwnedOf("stack", type, NameOf("a")),
        DeclOf(type, LambdaOf(NameOf("a"))), Expression(CallWith(NameOf("f"), type, <<NameOf("a")>>)),
        DeclOf(type, New1(type, <<>>)), VarOf("var", Test("as", NameOf("a"), type))}

-----------------------------------------------------------------------------
\* Declarations.
ParamOf(mods, type, default) ==
    Phrase(<<K(mods), K(<<"a", ":">>), type>> \o (IF default = <<>> THEN <<>> ELSE <<K(<<"=">>)>> \o default),
           <<"param", IF "params" \in {mods[i] : i \in DOMAIN mods} THEN <<"params">> ELSE <<>>,
             IF "this" \in {mods[i] : i \in DOMAIN mods} THEN <<"this">> ELSE <<>>, <<"a">>, type.v,
             IF default = <<>> THEN <<>> ELSE <<"some", default[1].v>> >>, 0)
ParamC(type) == Phrase(<<type, K(<<"b">>)>>, <<"param", <<>>, <<>>, type.v, <<"b">>, <<>> >>, 0)
ParamsTree(ps) == IF ps = <<>> THEN <<>> ELSE Listed(ps)
SwitchedOn(words, all) == [i \in DOMAIN all |-> IF all[i] \in words THEN <<all[i]>> ELSE <<>>]
Wheres(type) ==
    Phrase(<<K(<<"where", "T", ":", "new", "(", ")", ",">>), type, K(<<",", "U", ":">>), type>>,
           <<"list", <<"T">>, <<"new">>, <<"list", type.v>>, <<"U">>, type.v, <<"list">> >>, 0)
NoWhere == K(<<>>)
Function(access, flags, type, tps, ps, where, body) ==
    Phrase(<<K(access), K(SelectSeq(<<"abstract", "async", "unsafe", "static", "virtual", "override">>, LAMBDA w : w \in flags)),
             type, K(<<"f">>), K(IF tps THEN <<"<", "T", ",", "U", ">">> ELSE <<>>), K(<<"(">>)>> \o Commas(ps)
           \o <<K(<<")">>), where, body>>,
           <<"function", access>> \o SwitchedOn(flags, <<"abstract", "async", "unsafe", "static", "virtual", "override">>)
           \o <<type.v, <<"f">>, IF tps THEN <<"list", <<"T">>, <<"U">> >> ELSE <<>>, ParamsTree(ps), where.v, body.v>>, 0)
MethodFlags == <<"static", "virtual", "override", "abstract", "async", "unsafe", "const">>
MemberPhrase(access, flags, parts, v) ==
    Phrase(<<K(access), K(SelectSeq(MethodFlags, LAMBDA w : w \in flags))>> \o parts,
           <<"member", <<"list">>, access>> \o (IF v[1][1] \in {"destructor", "constructor"} THEN <<>>
                                      ELSE SwitchedOn(flags, MethodFlags)) \o v, 0)
Arrow(e) == Phrase(<<K(<<"=>">>), e, K(<<";">>)>>, e.v, 0)
NoBody == K(<<";">>)
MembersOver(type, e) ==
    LET b == Block(<<Of("return", e)>>)
        body == Phrase(<<K(<<"{", "get">>), b, K(<<"set", ";", "}">>)>>, <<"list", <<"get">>, b.v, <<"set">>, <<>> >>, 0)
    IN << MemberPhrase(<<"private">>, {"static", "const"}, <<type, K(<<"a", "=">>), e, K(<<";">>)>>,
                       <<type.v, <<"a">>, <<"some", e.v>> >>),
          MemberPhrase(<<>>, {}, <<type, K(<<"a", ";">>)>>, <<type.v, <<"a">>, <<>> >>),
          MemberPhrase(<<>>, {"virtual", "async"},
                       <<type, K(<<"f", "(">>), ParamC(type), K(<<")">>), Arrow(e)>>,
                       <<type.v, <<"f">>, <<>>, <<"list", ParamC(type).v>>, <<>>, e.v>>),
          MemberPhrase(<<>>, {"abstract"}, <<type, K(<<"f", "<", "T", ">", "(", ")">>), Wheres(type), NoBody>>,
                       <<type.v, <<"f">>, <<"list", <<"T">> >>, <<>>, Wheres(type).v, <<>> >>),
          MemberPhrase(<<"export">>, {}, <<K(<<"new", "(">>), ParamOf(<<>>, type, <<e>>), K(<<")", ":", "base", "(">>), e, K(<<")">>), b>>,
                       << <<"constructor", <<"list", ParamOf(<<>>, type, <<e>>).v>>, <<"some", <<"list", e.v>> >>, b.v>> >>),
          MemberPhrase(<<>>, {}, <<K(<<"~", "new", "(", ")">>), b>>, << <<"destructor", b.v>> >>),
          MemberPhrase(<<>>, {"static"}, <<K(<<"property", "a", ":">>), type, body>>,
                       << <<"property", <<"a">>, type.v, body.v>> >>),
          MemberPhrase(<<>>, {}, <<type, K(<<"this", "[">>), ParamOf(<<>>, type, <<>>), K(<<"]">>), body>>,
                       <<type.v, <<"this">>, <<"list", ParamOf(<<>>, type, <<>>).v>>, body.v>>),
          MemberPhrase(<<>>, {}, <<K(<<"T", "operator", "+", "(">>), ParamC(type), K(<<")">>), b>>,
                       << <<"operator", Type("T", <<>>, 0, FALSE).v, <<"+">>, <<"list", ParamC(type).v>>, b.v>> >>) >>
ItemOf(d) == Phrase(<<d>>, <<"item", <<"list">>, d.v>>, 0)
Attributed(e, d) ==
    Phrase(<<K(<<"[", "a", ":">>), e, K(<<"]", "[", "export", "]">>), d>>,
           <<"item", <<"list", <<"a">>, <<"some", e.v>>, <<"export">>, <<>> >>, d.v>>, 0)
ImportOf(words, at, path, segments, alias) ==
    ItemOf(Phrase(<<K(<<"import">> \o words \o (IF alias = <<>> THEN <<>> ELSE <<"as">> \o alias) \o <<";">>)>>,
                  <<"import", at, path, segments, alias>>, 0))
ClassOf(type, e) ==
    LET ms == MembersOver(type, e)
    IN Phrase(<<K(<<"export", "abstract", "class", "T", "<", "U", ">", ":">>), type, K(<<",", "T">>), Wheres(type), K(<<"{">>)>>
              \o ms \o <<K(<<"}">>)>>,
              <<"class", <<"export">>, <<"abstract">>, <<"T">>, <<"list", <<"U">> >>,
                <<"some", <<"list", type.v, Type("T", <<>>, 0, FALSE).v>> >>, Wheres(type).v, Listed(ms)>>, 0)
StructOf(word, type, e) ==
    LET m == MembersOver(type, e)[2]
    IN Phrase(<<K(<<word, "T", "{">>), m, K(<<"}">>)>>,
              <<word, <<>>, <<>>, <<"T">> >> \o (IF word = "union" THEN <<>> ELSE << <<>> >>) \o <<Listed(<<m>>)>>, 0)
ItemsOver(type, e) ==
    LET d == Phrase(<<K(<<"const">>), type, K(<<"a", "=">>), e, K(<<";">>)>>, <<"const", type.v, <<"a">>, e.v>>, 0)
        b == Block(<<Expression(e)>>)
    IN {ItemOf(d), Attributed(e, d), ItemOf(ClassOf(type, e)),
        ItemOf(Function(<<>>, {}, type, FALSE, <<>>, NoWhere, b)),
        ItemOf(Function(<<"export">>, {"async", "static"}, type, TRUE,
                        <<ParamOf(<<"this">>, type, <<>>), ParamC(type), ParamOf(<<"params">>, type, <<e>>)>>, Wheres(type), Arrow(e))),
        ItemOf(Function(<<>>, {"abstract"}, type, FALSE, <<ParamC(type)>>, NoWhere, NoBody)),
        ItemOf(Phrase(<<K(<<"namespace", "a", ".", "b", "{">>), ItemOf(d), ItemOf(d), K(<<"}">>)>>,
                      <<"namespace", <<"list", <<"a">>, <<"b">> >>, <<"list", ItemOf(d).v, ItemOf(d).v>> >>, 0)),
        ItemOf(Phrase(<<K(<<"module", "a", "{", "b", "=">>), e, K(<<";", "}">>)>>,
                      <<"module", <<"a">>, <<"list", <<"b">>, e.v>> >>, 0)),
        ItemOf(Phrase(<<K(<<"module", "\"a\"", "{", "}">>)>>, <<"module", <<"\"a\"">>, <<"list">> >>, 0)),
        ImportOf(<<"a", ".", "string">>, <<>>, <<"a">>, <<"list", <<"string">> >>, <<"b">>),
        ImportOf(<<"\"a.b\"">>, <<>>, <<"\"a.b\"">>, <<"list">>, <<>>),
        ImportOf(<<"@", "\"a\"">>, <<"@">>, <<"\"a\"">>, <<"list">>, <<"b">>),
        ImportOf(<<"@\"a.b\"">>, <<>>, <<"@\"a.b\"">>, <<"list">>, <<"b">>),
        ImportOf(<<"@", "a", ":", "/", "string">>, <<"@">>,
                 <<"list", <<"a">>, <<":">>, <<"/">>, <<"string">> >>, <<>>, <<>>),
        But(ImportOf(<<"@", "a">>, <<"@">>, <<"list", <<"a">> >>, <<>>, <<"b">>), "alias of a bare path", TRUE),
        ItemOf(Phrase(<<K(<<"import", "a", "=", "b", ".", "x", ";">>)>>,
                      <<"import", <<>>, <<"a">>, <<"list">>, <<"list", <<"b">>, <<"x">> >> >>, 0)),
        ItemOf(Phrase(<<K(<<"import", "\"a\"", "=", "b", ";">>)>>,
                      <<"import", <<>>, <<"\"a\"">>, <<"list">>, <<"list", <<"b">> >> >>, 0))}
       \cup {ItemOf(StructOf(word, type, e)) : word \in {"struct", "union", "interface"}}
=============================================================================
