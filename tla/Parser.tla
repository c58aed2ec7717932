------------------------------- MODULE Parser -------------------------------
(***************************************************************************)
(* parser.rs: recursive descent over tokens.  Each function of the code is *)
(* a rule of Rules, a sequence of steps in the order of the function's     *)
(* body, and the guards of its branches are in Holds; the functions that   *)
(* loop over operators are operators here.  A parser t is [ts, i, out]:    *)
(* the tokens, the place of the current one (0 once an error was           *)
(* returned), and the parts of the node under construction.  A node is a   *)
(* tuple of its tag and its parts, and spans are left out; so are asm      *)
(* statements, interpolated strings, layout attributes and nameof.         *)
(***************************************************************************)
EXTENDS Naturals, Sequences, SequencesExt, TLC, Lexer

CONSTANTS Idents,    \* the words that are not keywords
          Literals   \* takes the lexeme of a literal to its kind

LOCAL M == INSTANCE Machine          \* for Fold

Eof == "eof"
Basic == {"void", "bool", "byte", "sbyte", "short", "ushort", "int", "uint", "long", "ulong",
          "float", "double", "decimal", "char", "string", "ptr", "dyn"}
IsIdent(k) == k \in Idents
KindOf(k) == IF k \in DOMAIN Literals THEN Literals[k] ELSE "none"

Peek(t, n) == IF t.i + n <= Len(t.ts) THEN t.ts[t.i + n] ELSE Eof
Current(t) == Peek(t, 0)
Failed(t) == t.i = 0
Fail(t) == [t EXCEPT !.i = 0]
Advance(t) == [t EXCEPT !.i = @ + 1]
Push(t, node) == IF Failed(t) THEN t ELSE [t EXCEPT !.out = Append(@, node)]
Expect(t, k) == IF Failed(t) \/ Current(t) # k THEN Fail(t) ELSE Advance(t)
\* The node of what r parsed, in t.
Node(t, tag, r) == [r EXCEPT !.out = Append(t.out, <<tag>> \o @)]
Inside(t) == [t EXCEPT !.out = <<>>]

-----------------------------------------------------------------------------
\* The lookaheads.  After(t, n): past the angle brackets that open at n, 0
\* if they do not close before the end or a token of stops, or are longer
\* than most.
RECURSIVE Closing(_, _, _, _, _)
Closing(t, n, depth, stops, most) ==
    CASE depth = 0 -> n
      [] n > most \/ Peek(t, n) \in stops \cup {Eof} -> 0
      [] Peek(t, n) = "<" -> Closing(t, n + 1, depth + 1, stops, most)
      [] Peek(t, n) = ">" -> Closing(t, n + 1, depth - 1, stops, most)
      [] OTHER -> Closing(t, n + 1, depth, stops, most)
Angles(t, n) == IF Peek(t, n) = "<" THEN Closing(t, n + 1, 1, {}, Len(t.ts)) ELSE n
RECURSIVE Squares(_, _)
Squares(t, n) ==
    LET ends == {k \in (n + 1)..(Len(t.ts) - t.i) : Peek(t, k) = "]"}
    IN IF Peek(t, n) # "[" THEN n
       ELSE IF ends = {} THEN 0
       ELSE Squares(t, (CHOOSE k \in ends : \A m \in ends : k <= m) + 1)

IsTypeStart(k) == IsIdent(k) \/ k \in Basic \cup {"var", "volatile"}
LooksLikeDeclaration(t) ==
    LET n == IF Current(t) = "volatile" THEN 1 ELSE 0
        args == Angles(t, n + 1)
        dims == Squares(t, args)
        last == IF Peek(t, dims) = "?" THEN dims + 1 ELSE dims
    IN /\ IsIdent(Peek(t, n)) \/ Peek(t, n) \in Basic
       /\ args # 0 /\ dims # 0 /\ IsIdent(Peek(t, last))
LooksLikeTypeArgsAlways(t) == Current(t) = "<" /\ Closing(t, 1, 1, {";", "{"}, 32) # 0    \* (mutant)
LooksLikeTypeArgs(t) ==
    LET n == Closing(t, 1, 1, {";", "{"}, 32)
    IN Current(t) = "<" /\ n # 0 /\ n <= 32 /\ Peek(t, n) = "("
LooksLikeLambda(t) ==
    \/ Current(t) = ")" /\ Peek(t, 1) \in {"=>", "{"}
    \/ /\ IsIdent(Current(t))
       /\ \/ Peek(t, 1) \in {":", ","}
          \/ Peek(t, 1) = ")" /\ Peek(t, 2) \in {"=>", "{"}
LooksLikeCast(t) ==
    LET n == Angles(t, 1)
    IN /\ IsIdent(Current(t)) \/ Current(t) \in Basic \ {"void", "sbyte", "short", "ushort", "uint", "ulong", "decimal"}
       /\ n # 0 /\ Peek(t, n) = ")"
       /\ \/ IsIdent(Peek(t, n + 1))
          \/ Peek(t, n + 1) \in {"(", "null", "this", "-", "!"}
          \/ KindOf(Peek(t, n + 1)) \in {"int", "uint", "float", "string", "raw", "char", "bool"}
\* A ? after an operand that is not followed by one of these is expr?.
StartsTernary(t) ==
    \/ IsIdent(Peek(t, 1))
    \/ Peek(t, 1) \in {"(", "-", "!", "~"}
    \/ KindOf(Peek(t, 1)) \in {"int", "string", "bool", "float", "char"}

Dotted(k) == \E i \in 1..Len(k) : SubSeq(k, i, i) = "."
\* Guards of steps.
Holds(t, g) ==
    CASE g[1] = "at" -> Current(t) \in g[2]
      [] g[1] = "ident" -> IsIdent(Current(t)) /\ (g[2] = {} \/ Peek(t, 1) \in g[2])
      [] g[1] = "type" -> IsTypeStart(Current(t))
      [] g[1] = "decl" -> LooksLikeDeclaration(t)
      [] g[1] = "typed decl" -> IsTypeStart(Current(t)) /\ LooksLikeDeclaration(t)
      [] g[1] = "operator" -> IsTypeStart(Current(t)) /\ Peek(t, 1) = "operator"
      [] g[1] = "indexer" -> Current(t) = "this" /\ Peek(t, 1) = "["
      [] g[1] = "attribute" ->
            Current(t) = "[" /\ (IsIdent(Peek(t, 1)) \/ Peek(t, 1) \in {"export", "private", "protected", "async", "unsafe"})
      [] g[1] = "literal" -> KindOf(Current(t)) \in g[2]
      [] g[1] = "prefixed" -> Last(t.out) = <<"@">>
      [] g[1] = "alias" -> Current(t) = "=" /\ Last(t.out) = <<"list">> /\ ~Dotted(t.out[Len(t.out) - 1][1])
      [] g[1] = "named" -> IsIdent(Current(t)) /\ Peek(t, 1) = ":" /\ Peek(t, 2) # ":"
      [] g[1] = "bound" -> Current(t) = "," /\ ~(IsIdent(Peek(t, 1)) /\ Peek(t, 2) = ":")

-----------------------------------------------------------------------------
\* Steps.  An optional part is <<>> when it is not there.
Tok(k) == <<"tok", k>>               \* expect
Skipped(k) == <<"skip", k>>          \* match_kind, whose result is not kept
Flag(k) == <<"flag", k>>
Word == <<"word">>                   \* the current token, whatever it is
Name == <<"name">>                   \* expect_ident
R(rule) == <<"rule", rule>>
None == <<"none">>
When(guard, then, else) == <<"when", guard, then, else>>
Is(set) == <<"at", set>>
Opt(k, steps) == When(Is({k}), << <<"some", <<Tok(k)>> \o steps>> >>, <<None>>)
Until(stops, steps) == <<"until", stops, steps>>     \* while not at one of stops, nor at the end
Repeat(guard, steps) == <<"repeat", guard, steps>>
Separated(sep, steps) == <<"separated", sep, steps>>
InParens(steps) == <<Tok("(")>> \o steps \o <<Tok(")")>>
Flags(words) == [k \in DOMAIN words |-> Flag(words[k])]
Access == When(Is({"export"}), <<Word>>, <<When(Is({"protected"}), <<Word>>, <<When(Is({"private"}), <<Word>>, <<None>>)>>)>>)
Params == When(Is({")", "]"}), <<None>>, <<Separated(",", <<R("param")>>)>>)
Default == Opt("=", <<R("expr")>>)
FunctionBody ==
    <<When(Is({"=>"}), <<Tok("=>"), R("expr"), Tok(";")>>,
           <<When(Is({"{"}), <<R("block")>>, <<Tok(";"), None>>)>>)>>
Signature == <<R("type params"), Tok("("), Params, Tok(")"), R("where")>>
PropertyBody ==
    <<Tok("{"), Until({"}"}, <<When(Is({"get", "set"}), <<Word>>, <<Tok("get")>>),
                               When(Is({";"}), <<Tok(";"), None>>, <<R("block")>>)>>), Tok("}")>>
Segment == When(Is({"string", "async", "unsafe", "int", "float", "double", "bool", "var", "dyn", "void"}), <<Word>>, <<Name>>)
Bound == When(Is({"new"}), <<Word, Tok("("), Tok(")")>>, <<R("type")>>)
MemberRest ==
    <<When(<<"type">>, <<R("type")>>, <<None>>),
      When(<<"indexer">>,
           <<Word, Tok("["), Params, Tok("]")>> \o PropertyBody,
           <<Name, When(Is({"(", "<"}), Signature \o FunctionBody, <<Default, Tok(";")>>)>>)>>
Members == <<Tok("{"), Until({"}"}, <<R("member")>>), Tok("}")>>
TypedOr(words) == When(Is(words), <<Word, None>>, << <<"push", <<"typed">> >>, R("type")>>)

Attributes == <<Repeat(<<"attribute">>, <<Tok("["), Word, Opt(":", <<R("expr")>>), Tok("]")>>)>>
ItemRules == [
    program |-> <<Until({}, <<R("item")>>)>>,
    attributes |-> Attributes,
    item |-> <<R("attributes"), <<"by word", "item">> >>,
    \* a path is a literal, after @ all tokens up to the semicolon, or names
    import |-> <<Tok("import"), Flag("@"),
                 When(<<"literal", {"raw", "string"}>>, <<Word, <<"push", <<"list">> >> >>,
                   <<When(<<"prefixed">>, <<Until({";"}, <<Word>>), None>>,
                          <<Name, Repeat(Is({"."}), <<Tok("."), Segment>>)>>)>>),
                 When(Is({"as"}), <<Tok("as"), Name>>,
                      <<When(<<"alias">>, <<Tok("="), Separated(".", <<Name>>)>>, <<None>>)>>), Tok(";")>>,
    namespace |-> <<Tok("namespace"), Separated(".", <<Name>>),
                    When(Is({"{"}), <<Tok("{"), Until({"}"}, <<R("item")>>), Tok("}")>>, <<Tok(";"), None>>)>>,
    module |-> <<Tok("module"), When(<<"literal", {"string"}>>, <<Word>>, <<Name>>), Tok("{"),
                 Until({"}"}, <<Name, Tok("="), R("expr"), Tok(";")>>), Tok("}")>>
  ]
TypeRules == [
    class |-> <<Access, Flag("abstract"), Tok("class"), Name, R("type params"),
                Opt(":", <<Separated(",", <<R("type")>>)>>), R("where")>> \o Members,
    struct |-> <<Access, Flag("abstract"), Tok("struct"), Name, R("type params")>> \o Members,
    union |-> <<Access, Flag("abstract"), Tok("union"), Name>> \o Members,
    interface |-> <<Access, Flag("abstract"), Tok("interface"), Name, R("type params")>> \o Members
  ]
MemberRules == [
    function |-> <<Access, Flag("abstract")>> \o Flags(<<"async", "unsafe", "static", "virtual", "override">>)
                 \o <<R("type"), Name>> \o Signature \o FunctionBody,
    member |-> <<R("attributes"), Access,
                 When(Is({"~"}), <<R("destructor")>>,
                   <<When(Is({"new"}), <<R("constructor")>>,
                       Flags(<<"static", "virtual", "override", "abstract", "async", "unsafe", "const">>)
                       \o <<When(Is({"property"}), <<R("property")>>,
                              <<When(<<"operator">>, <<R("operator")>>, MemberRest)>>)>>)>>)>>,
    const |-> <<Tok("const"), R("type"), Name, Tok("="), R("expr"), Tok(";")>>,
    param |-> Flags(<<"params", "this">>)
              \o <<When(<<"ident", {":"}>>, <<Name, Tok(":"), R("type")>>,
                        <<R("type"), When(<<"ident", {}>>, <<Name>>, << <<"push", <<"_">> >> >>)>>), Default>>,
    destructor |-> <<Tok("~"), Tok("new"), Tok("("), Tok(")"), R("block")>>,
    constructor |-> <<Tok("new"), Tok("("), Params, Tok(")"),
                      Opt(":", <<Tok("base"), Tok("("), When(Is({")"}), <<None>>, <<Separated(",", <<R("expr")>>)>>), Tok(")")>>),
                      R("block")>>,
    property |-> <<Tok("property"), Name, Tok(":"), R("type")>> \o PropertyBody,
    operator |-> <<R("type"), Tok("operator"), <<"operator">>, Tok("("), Params, Tok(")"), R("block")>>
  ]
StatementRules == [
    block |-> <<Tok("{"), Until({"}"}, <<R("statement")>>), Tok("}")>>,
    throw |-> <<Tok("throw"), R("expr"), Tok(";")>>,
    return |-> <<Tok("return"), When(Is({";"}), <<None>>, <<R("expr")>>), Tok(";")>>,
    break |-> <<Tok("break"), Tok(";")>>,
    continue |-> <<Tok("continue"), Tok(";")>>,
    unsafe |-> <<Tok("unsafe"), R("block")>>,
    decl |-> <<When(Is({"stack", "owned"}),
                    <<Word, Skipped("var"),
                      When(Is({"var"}), <<Tok("var"), None>>, <<When(<<"typed decl">>, <<R("type")>>, <<None>>)>>)>>,
                    <<TypedOr({"var", "dyn"})>>), Name, Default, Tok(";")>>,
    declinfor |-> <<TypedOr({"var", "dyn"}), Name, Default, Tok(";")>>,
    expression |-> <<R("expr"), Tok(";")>>
  ]
LoopRules == [
    if |-> <<Tok("if")>> \o InParens(<<R("expr")>>)
           \o <<R("block"), When(Is({"else"}), <<Tok("else"), When(Is({"if"}), <<R("if")>>, <<R("block")>>)>>, <<None>>)>>,
    while |-> <<Tok("while")>> \o InParens(<<R("expr")>>) \o <<R("block")>>,
    do |-> <<Tok("do"), R("block"), Tok("while")>> \o InParens(<<R("expr")>>) \o <<Tok(";")>>,
    for |-> <<Tok("for")>>
            \o InParens(<<When(Is({";"}), <<None, Tok(";")>>,
                               <<When(Is({"var"}), <<R("declinfor")>>,
                                      <<When(<<"decl">>, <<R("declinfor")>>, <<R("expr"), Tok(";")>>)>>)>>),
                          When(Is({";"}), <<None>>, <<R("expr")>>), Tok(";"),
                          When(Is({")"}), <<None>>, <<R("expr")>>)>>)
            \o <<R("block")>>,
    foreach |-> <<Tok("foreach")>>
                \o InParens(<<Skipped("var"), Name, Opt(",", <<Skipped("var"), Name>>), Tok("in"), R("expr")>>)
                \o <<R("block")>>
  ]
SwitchRules == [
    switch |-> <<Tok("switch")>> \o InParens(<<R("expr")>>)
               \o <<Tok("{"), Until({"}"}, <<R("arm")>>), Tok("}")>>,
    case |-> <<Tok("case"), Separated("|", <<R("pattern")>>), <<"bind">>,
               When(Is({"when"}), <<Tok("when"), R("expr")>>, <<None>>), Tok(":"),
               Until({"case", "default", "}"}, <<R("statement")>>)>>,
    default |-> <<Tok("default"), Tok(":"), Until({"case", "default", "}"}, <<R("statement")>>)>>,
    pattern |-> <<R("unary"), Opt("..", <<R("expr")>>)>>,
    match |-> <<Tok("match")>> \o InParens(<<R("expr")>>)
              \o <<Tok("{"), Until({"}"}, <<Name, Opt("(", <<Name, Tok(")")>>), Tok("=>"), R("expr"), Skipped(",")>>), Tok("}")>>
  ]
TryRules == [
    try |-> <<Tok("try"), R("block"),
              Repeat(Is({"catch"}),
                     <<Tok("catch"),
                       When(Is({"("}),
                            <<Tok("("),
                              When(Is({")"}), <<None, None>>,
                                <<When(<<"ident", {":"}>>, <<Name, Tok(":"), R("type")>>,
                                   <<When(<<"ident", {")"}>>, <<Name, None>>,
                                     <<When(<<"ident", {}>>,
                                            <<R("type"), When(<<"ident", {}>>, <<Name>>, <<None>>)>>,
                                            <<R("type"), None>>)>>)>>)>>), Tok(")")>>,
                            <<None, None>>),
                       R("block")>>),
              Opt("finally", <<R("block")>>)>>,
    using |-> <<Tok("using")>>
              \o InParens(<<When(Is({"var"}), <<Word, None>>, <<R("type")>>), Name, Tok("="), R("expr")>>)
              \o <<R("block")>>
  ]

Rules == ItemRules @@ TypeRules @@ MemberRules @@ StatementRules @@ LoopRules @@ SwitchRules @@ TryRules

\* The rules whose nodes have no tag of their own: what they choose.
TypeParams == <<When(Is({"<"}), <<Tok("<"), Separated(",", <<Name>>), Tok(">")>>, <<None>>)>>
Where == <<When(Is({"where"}),
             <<Tok("where"),
               Separated(",", <<Name, Tok(":"), Bound, Repeat(<<"bound">>, <<Tok(","), Bound>>)>>)>>, <<None>>)>>
StatementOf == [k \in {"if", "while", "do", "for", "foreach", "switch", "match", "try", "throw", "return",
                       "break", "continue", "using", "unsafe", "const"} |-> k]
ItemOf == [k \in {"import", "namespace", "module", "const"} |-> k]

RECURSIVE Steps(_, _), Step(_, _), Parse(_, _), BinaryAt(_, _), Postfix(_), Unary(_)

\* A loop: until its condition is false, or an error.
RECURSIVE Loop(_, _, _)
Loop(t, g, steps) ==
    IF Failed(t) \/ (IF g[1] = "until" THEN Current(t) \in g[2] \cup {Eof} ELSE ~Holds(t, g)) THEN t
    ELSE Loop(Steps(t, steps), g, steps)
RECURSIVE SeparatedBy(_, _, _)
SeparatedBy(t, sep, steps) ==
    LET one == Steps(t, steps)
    IN IF Failed(one) \/ Current(one) # sep THEN one ELSE SeparatedBy(Advance(one), sep, steps)

\* pattern_bind of a case: the only pattern, if it is a name and a guard
\* follows, or a name after the patterns.
Bind(t) ==
    LET patterns == Last(t.out)
        single == Len(patterns) = 2 /\ patterns[2][2][1] = "name" /\ patterns[2][3] = <<>>
    IN CASE single /\ Current(t) = "when" ->
               [t EXCEPT !.out = Front(@) \o << <<"list">>, <<patterns[2][2][2]>> >>]
         [] IsIdent(Current(t)) /\ Current(t) # "when" -> Push(Advance(t), <<Current(t)>>)
         [] OTHER -> Push(t, <<>>)

Step(t, s) ==
    LET k == Current(t) IN
    CASE s[1] = "tok" -> Expect(t, s[2])
      [] s[1] = "skip" -> IF k = s[2] THEN Advance(t) ELSE t
      [] s[1] = "flag" -> IF k = s[2] THEN Push(Advance(t), <<k>>) ELSE Push(t, <<>>)
      [] s[1] = "word" -> Push(Advance(t), <<k>>)
      [] s[1] = "name" -> IF IsIdent(k) THEN Push(Advance(t), <<k>>) ELSE Fail(t)
      [] s[1] = "none" -> Push(t, <<>>)
      [] s[1] = "push" -> Push(t, s[2])
      [] s[1] = "rule" -> Parse(t, s[2])
      [] s[1] = "some" -> Node(t, "some", Steps(Inside(t), s[2]))
      [] s[1] = "when" -> Steps(t, IF Holds(t, s[2]) THEN s[3] ELSE s[4])
      [] s[1] = "until" -> Node(t, "list", Loop(Inside(t), s, s[3]))
      [] s[1] = "repeat" -> Node(t, "list", Loop(Inside(t), s[2], s[3]))
      [] s[1] = "separated" -> Node(t, "list", SeparatedBy(Inside(t), s[2], s[3]))
      [] s[1] = "bind" -> Bind(t)
      [] s[1] = "operator" ->
            IF k \in {"+", "-", "*", "/", "%", "==", "!=", "<", ">", "<=", ">="} THEN Push(Advance(t), <<k>>) ELSE Fail(t)
      [] s[1] = "by word" -> IF k \in DOMAIN ItemOf THEN Parse(t, k) ELSE Parse(t, "declaration")
Steps(t, steps) == M!Fold(LAMBDA a, s : IF Failed(a) THEN a ELSE Step(a, s), t, steps)

-----------------------------------------------------------------------------
\* parse_type_ref.  The dimensions of the last brackets are kept.
RECURSIVE Dimensions(_, _)
Dimensions(t, dims) ==
    IF Current(t) # "[" THEN Push(t, dims)
    ELSE LET n == CHOOSE k \in 1..(Len(t.ts) + 1) : Peek(t, k) # "," /\ \A j \in 1..(k - 1) : Peek(t, j) = ","
         IN IF Peek(t, n) # "]" THEN Fail(t) ELSE Dimensions([t EXCEPT !.i = @ + n + 1], <<n>>)
TypeRef(t) ==
    LET start == Steps(Inside(t), <<Flag("volatile")>>)
        k == Current(start)
        args == Steps(Push(Advance(start), <<k>>),
                      <<When(Is({"<"}), <<Tok("<"), Separated(",", <<R("type")>>), Tok(">")>>, <<None>>)>>)
        dims == IF Failed(args) THEN args ELSE Dimensions(args, <<>>)
    IN IF ~(IsIdent(k) \/ k \in Basic \cup {"var"}) THEN Fail(t)
       ELSE Node(t, "type", Steps(dims, <<Flag("?")>>))

-----------------------------------------------------------------------------
\* Expressions.  One of these has one node in out.
Levels == << {"??"}, {"||"}, {"&&"}, {"|"}, {"^"}, {"&"}, {"==", "!="}, {"<=", ">=", "<", ">"},
             {"<<", ">>"}, {"+", "-"}, {"*", "/", "%"} >>
AssignOps == {"=", "+=", "-=", "*=", "/=", "%=", "&=", "|=", "^=", "<<=", ">>=", "??="}
Only(t) == Last(t.out)
\* The expression of t and what r parsed, in t.
Joined(t, tag, r) == [r EXCEPT !.out = Append(Front(t.out), tag \o <<Only(t)>> \o @)]

RECURSIVE Operands(_, _)
Operands(t, level) ==
    IF Failed(t) \/ Current(t) \notin Levels[level] THEN t
    ELSE Operands(Joined(t, <<"binary", <<Current(t)>> >>, BinaryAt(Inside(Advance(t)), level + 1)), level)
\* parse_null_coalesce (level 1) to parse_factor; is and as after comparisons.
BinaryAt(t, level) ==
    IF level > Len(Levels) THEN Unary(t)
    ELSE LET all == Operands(BinaryAt(t, level + 1), level)
         IN IF level = 8 /\ ~Failed(all) /\ Current(all) \in {"is", "as"}
            THEN Joined(all, <<Current(all)>>, TypeRef(Inside(Advance(all))))
            ELSE all
RECURSIVE Ternary(_)
Ternary(t) ==
    LET cond == BinaryAt(t, 1)
        then == Parse(Inside(Advance(cond)), "expr")
        else == Ternary(Expect(then, ":"))
    IN IF Failed(cond) \/ Current(cond) # "?" THEN cond
       ELSE IF Failed(then) \/ Current(then) # ":" THEN Fail(t)
       ELSE Joined(cond, <<"ternary">>, else)
RECURSIVE Assignment(_)
Assignment(t) ==
    LET to == Ternary(t)
    IN IF Failed(to) \/ Current(to) \notin AssignOps THEN to
       ELSE Joined(to, <<"assign", <<Current(to)>> >>, Assignment(Inside(Advance(to))))

UnaryOps == {"!", "-", "~", "++", "--", "*", "&", "await"}
Unary(t) ==
    IF Current(t) \in UnaryOps
    THEN LET e == Unary(Inside(Advance(t))) IN Node(t, "unary", [e EXCEPT !.out = << <<Current(t)>> >> \o @])
    ELSE Postfix(t)

Args == <<When(Is({")"}), <<None>>,
               <<Separated(",", <<When(<<"named">>, <<Name, Tok(":")>>, <<None>>), R("expr")>>)>>)>>
RECURSIVE AfterPrimary(_)
AfterPrimary(t) ==
    LET Then(tag, r) == AfterPrimary(Joined(t, tag, r))
        k == Current(t)
        next == Inside(Advance(t))
    IN CASE Failed(t) -> t
         [] k = "(" -> Then(<<"call", <<>> >>, Steps(next, Args \o <<Tok(")")>>))
         [] k = "<" /\ LooksLikeTypeArgs(t) ->
               LET types == Steps(next, <<Separated(",", <<R("type")>>), Tok(">"), Tok("(")>>)
                   args == Steps(Inside(types), Args \o <<Tok(")")>>)
               IN IF Failed(types) THEN Fail(t) ELSE Then(<<"call", Only(types)>>, args)
         [] k = "[" -> Then(<<"index">>, Steps(next, <<Separated(",", <<R("expr")>>), Tok("]")>>))
         [] k \in {".", "?.", "->"} -> Then(<<"member", <<k>> >>, Steps(next, <<Name>>))
         [] k \in {"++", "--"} -> Then(<<"postfix", <<k>> >>, next)
         [] k = "?" /\ ~StartsTernary(t) -> Then(<<"try?">>, next)
         [] OTHER -> t

\* parse_new: an object initializer, or a collection, which may end in a comma.
NewOf == <<Tok("new"), R("type"), Opt("(", Args \o <<Tok(")")>>),
           Opt("{", <<When(Is({"}"}), <<None>>,
                           <<When(<<"ident", {"="}>>, <<Separated(",", <<Name, Tok("="), R("expr")>>)>>,
                                  <<Separated(",", <<When(Is({"}"}), <<>>, <<R("expr")>>)>>)>>)>>), Tok("}")>>)>>
LambdaBody == When(Is({"=>"}), <<Tok("=>"), When(Is({"{"}), <<R("block")>>, <<R("expr")>>)>>, <<R("block")>>)
LambdaParam == When(<<"ident", {":"}>>, <<R("param")>>, <<When(<<"ident", {}>>, <<Name>>, <<R("param")>>)>>)
LambdaOf == <<When(Is({")"}), <<None>>, <<Separated(",", <<LambdaParam>>)>>), Tok(")"), LambdaBody>>

Primary(t) ==
    LET k == Current(t)
        next == Advance(t)
        Of(tag, from, steps) == Node(t, tag, Steps(Inside(from), steps))
    IN CASE KindOf(k) # "none" -> Push(next, <<"lit", <<k>> >>)
         [] k \in {"null", "this", "base"} -> Push(next, <<"word", <<k>> >>)
         [] IsIdent(k) \/ k \in Basic -> Push(next, <<"name", <<k>> >>)
         [] k = "new" -> Of("new", t, NewOf)
         [] k \in {"typeof", "sizeof"} -> Of(k, next, InParens(<<R("type")>>))
         [] k = "offsetof" -> Of(k, next, InParens(<<R("type"), Tok(","), Name>>))
         [] k = "[" -> Of("array", next, <<When(Is({"]"}), <<None>>, <<Separated(",", <<R("expr")>>)>>), Tok("]")>>)
         [] k = "(" /\ LooksLikeLambda(next) -> Of("lambda", next, LambdaOf)
         [] k = "(" /\ ~LooksLikeLambda(next) /\ IsTypeStart(Current(next)) /\ LooksLikeCast(next) ->
               Of("cast", next, <<R("type"), Tok(")"), R("unary")>>)
         [] k = "(" /\ ~LooksLikeLambda(next) /\ ~(IsTypeStart(Current(next)) /\ LooksLikeCast(next)) ->
               Of("group", next, <<R("expr"), Tok(")")>>)
         [] OTHER -> Fail(t)
Postfix(t) == AfterPrimary(Primary(t))

-----------------------------------------------------------------------------
\* Where the code tells what comes by its first token.
Statement(t) ==
    LET k == Current(t) IN
    CASE k = "{" -> "block"
      [] k \in DOMAIN StatementOf -> StatementOf[k]
      [] k \in {"var", "dyn", "stack", "owned"} \/ Holds(t, <<"typed decl">>) -> "decl"
      [] OTHER -> "expression"
Declaration(t) ==
    LET n == IF Current(t) \in {"export", "protected", "private"} THEN 1 ELSE 0
        k == Peek(t, IF Peek(t, n) = "abstract" THEN n + 1 ELSE n)
    IN IF k \in {"class", "struct", "union", "interface"} THEN k ELSE "function"
Parse(t, rule) ==
    CASE rule = "expr" -> Assignment(t)
      [] rule = "unary" -> Unary(t)
      [] rule = "type" -> TypeRef(t)
      [] rule = "type params" -> Steps(t, TypeParams)
      [] rule = "where" -> Steps(t, Where)
      [] rule = "attributes" -> Steps(t, Rules.attributes)
      [] rule = "statement" -> Parse(t, Statement(t))
      [] rule = "declaration" -> Parse(t, Declaration(t))
      [] rule = "arm" -> IF Current(t) \in {"case", "default"} THEN Parse(t, Current(t)) ELSE Fail(t)
      [] OTHER -> Node(t, rule, Steps(Inside(t), Rules[rule]))

\* What the parser makes of the tokens: <<"error">> if it stops before the end.
Parsed(ts, rule) ==
    LET t == Parse([ts |-> ts, i |-> 1, out |-> <<>>], rule)
    IN IF Failed(t) \/ Current(t) # Eof THEN <<"error">> ELSE Only(t)
=============================================================================
