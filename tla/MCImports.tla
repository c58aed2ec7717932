----------------------------- MODULE MCImports -----------------------------
(***************************************************************************)
(* File trees for Imports: a program, two files beside it, two in a        *)
(* directory below, one of the same name as one above, and a directory     *)
(* without files; with cycles, diamonds, imports of a whole directory and  *)
(* of a file by its path, and files and a directory that cannot be loaded. *)
(***************************************************************************)
EXTENDS Imports

ImMain == <<"src", "main">>
ImDirs == {"src", "sub", "empty"}
\* The import text "sub.a" names file a of src/sub; "a" a file beside.
ImJoin(dir, text) ==
    CASE text = "sub.a" -> IF dir = "src" THEN <<"sub", "a">> ELSE <<dir, "sub.a">>
      [] OTHER -> <<dir, text>>
\* The paths of @-imports: with .rt, and without.
ImExact(text) == IF text = "sub/a.rt" THEN <<"sub", "a">> ELSE <<text, "">>
ImWithRt(text) == IF text = "src/b" THEN <<"src", "b">> ELSE <<text, ".rt">>

ImNames == <<"a", "b", "c", "main">>
ImEarlier(x, y) == \E i, j \in DOMAIN ImNames : i < j /\ ImNames[i] = x /\ ImNames[j] = y

ByName(text) == [kind |-> "name", name |-> text]
AtPath(text) == [kind |-> "at", name |-> text]
Others == {<<>>, <<ByName("b")>>, <<ByName("sub.a")>>, <<ByName("main")>>, <<AtPath("sub")>>,
           <<AtPath("src/b")>>, <<[kind |-> "std", name |-> "io"]>>}

ImTrees ==
    {[p \in {ImMain, <<"src", "a">>, <<"src", "b">>, <<"sub", "a">>, <<"sub", "c">>} |->
        CASE p = ImMain -> m [] p = <<"src", "a">> -> a [] p = <<"src", "b">> -> b
          [] p = <<"sub", "a">> -> s [] OTHER -> <<>>] :
        m \in {<<ByName("a"), ByName("b")>>, <<ByName("b"), ByName("sub.a")>>, <<AtPath("sub"), ByName("a")>>,
               <<AtPath("sub/a.rt"), ByName("a")>>, <<AtPath("empty"), ByName("a")>>},
        a \in Others, b \in {<<>>, <<ByName("a")>>, <<ByName("zz")>>, <<AtPath("sub/a.rt")>>},
        s \in {<<>>, <<ByName("c")>>, <<AtPath("sub")>>, <<AtPath("sub/zz")>>}}
ImFaults == {{}, {<<"src", "b">>}, {<<"sub", "c">>}, {<<"sub", "">>}}
=============================================================================
