------------------------------- MODULE Lexer -------------------------------
(***************************************************************************)
(* lexer.rs: the text of a program, a sequence of characters, cut into     *)
(* tokens, each of which is its lexeme, with the quotes of a literal.      *)
(* Interpolated strings are left out; a word is told from a keyword by the *)
(* parser's sets.                                                          *)
(***************************************************************************)
EXTENDS Naturals, Sequences

CONSTANTS Letters, Digits, Spaces    \* the characters of the alphabet

Alone == {"+", "-", "*", "/", "%", "!", "=", "<", ">", "&", "|", "^", "~", "?", ".", ",", ":",
          ";", "(", ")", "{", "}", "[", "]", "@"}
\* The match of next_token on a character and the one or two after it, in
\* its order; a dot is looked at again among the single characters.
Pairs == {"??", "?.", "=>", "->", "&&", "||", "==", "!=", "<<", ">>", "<=", ">=", "++", "--",
          "+=", "-=", "*=", "/=", "%=", "&=", "|=", "^=", ".."}
Triples == {"??=", "<<=", ">>=", "..="}
Bad == "bad"

\* cs is the text, i the place of the next character, [] past the end.
CharAt(cs, i) == IF i <= Len(cs) THEN cs[i] ELSE ""
RECURSIVE While(_, _, _)
While(cs, i, set) == IF CharAt(cs, i) \in set THEN While(cs, i + 1, set) ELSE i
RECURSIVE Lexeme(_, _, _)
Lexeme(cs, i, j) == IF i = j THEN "" ELSE cs[i] \o Lexeme(cs, i + 1, j)

\* skip_whitespace_and_comments; a block comment that does not end is bad.
RECURSIVE Skip(_, _)
Skip(cs, i) ==
    LET pair == CharAt(cs, i) \o CharAt(cs, i + 1)
        ends == {k \in (i + 2)..(Len(cs) - 1) : cs[k] = "*" /\ cs[k + 1] = "/"}
        lines == {k \in i..Len(cs) : cs[k] = "\n"}
        First(S) == CHOOSE k \in S : \A n \in S : k <= n
    IN CASE CharAt(cs, i) \in Spaces -> Skip(cs, i + 1)
         [] pair = "//" -> IF lines = {} THEN Len(cs) + 1 ELSE Skip(cs, First(lines))
         [] pair = "/*" -> IF ends = {} THEN 0 ELSE Skip(cs, First(ends) + 2)
         [] OTHER -> i

\* number: where it ends.  A dot belongs to it if a digit follows; an
\* exponent needs digits; a suffix is one letter (f and m only of a float).
NumberEnd(cs, i) ==
    LET Run == Digits \cup {"_"}
        whole == While(cs, i, Run)
        dot == CharAt(cs, whole) = "." /\ CharAt(cs, whole + 1) \in Digits
        part == IF dot THEN While(cs, whole + 1, Run) ELSE whole
        exp == CharAt(cs, part) \in {"e", "E"}
        sign == IF CharAt(cs, part + 1) \in {"+", "-"} THEN part + 2 ELSE part + 1
        end == IF exp THEN While(cs, sign, Digits) ELSE part
        suffix == IF dot \/ exp THEN {"f", "F", "m", "M"} ELSE {"u", "U", "l", "L"}
    IN IF exp /\ end = sign THEN 0 ELSE IF CharAt(cs, end) \in suffix THEN end + 1 ELSE end

\* string_literal, from past its first quote: a quote ends it, but for one
\* after a backslash, or two of them in a raw one.  0 if there is no end.
RECURSIVE QuoteEnd(_, _, _)
QuoteEnd(cs, i, raw) ==
    LET pair == CharAt(cs, i) \o CharAt(cs, i + 1)
    IN CASE CharAt(cs, i) = "" -> 0
         [] raw /\ pair = "\"\"" -> QuoteEnd(cs, i + 2, raw)
         [] ~raw /\ CharAt(cs, i) = "\\" -> QuoteEnd(cs, i + 2, raw)
         [] CharAt(cs, i) = "\"" /\ ~(raw /\ pair = "\"\"") -> i + 1
         [] OTHER -> QuoteEnd(cs, i + 1, raw)
\* char_literal
CharEnd(cs, i) ==
    LET end == IF CharAt(cs, i + 1) = "\\" THEN i + 3 ELSE i + 2
    IN IF CharAt(cs, end) = "'" THEN end + 1 ELSE 0

OperatorEnd(cs, i) ==
    LET one == CharAt(cs, i)
        two == one \o CharAt(cs, i + 1)
        three == two \o CharAt(cs, i + 2)
    IN CASE three \in Triples -> i + 3
         [] two \in Pairs -> i + 2
         [] one \in Alone -> i + 1
         [] OTHER -> 0

\* next_token: where the token at i ends, 0 if there is none.
TokenEnd(cs, i) ==
    CASE CharAt(cs, i) \in Letters \cup {"_"} -> While(cs, i, Letters \cup Digits \cup {"_"})
      [] CharAt(cs, i) \in Digits -> NumberEnd(cs, i)
      [] CharAt(cs, i) = "\"" -> QuoteEnd(cs, i + 1, FALSE)
      [] CharAt(cs, i) = "@" /\ CharAt(cs, i + 1) = "\"" -> QuoteEnd(cs, i + 2, TRUE)
      [] CharAt(cs, i) = "'" -> CharEnd(cs, i)
      [] OTHER -> OperatorEnd(cs, i)

\* tokenize, without the end of file.
RECURSIVE TokensFrom(_, _)
TokensFrom(cs, at) ==
    LET i == Skip(cs, at)
        j == TokenEnd(cs, i)
    IN IF i > Len(cs) THEN <<>>
       ELSE IF i = 0 \/ j = 0 THEN <<Bad>>
       ELSE <<Lexeme(cs, i, j)>> \o TokensFrom(cs, j)
Tokenize(cs) == TokensFrom(cs, 1)
=============================================================================
