----------------------------- MODULE MCPackages -----------------------------
(***************************************************************************)
(* Repositories for Packages: two, of different or equal priority, which   *)
(* list up to two versions, newest first, or an archive of their own.      *)
(***************************************************************************)
EXTENDS Packages

PkShelved == <<>>                    \* nothing
PkVersions == {<<1>>, <<1, 1>>, <<2, 0>>}
Repo(id, priority, lists, version, versions, url) ==
    [id |-> id, priority |-> priority, lists |-> lists, version |-> version,
     versions |-> versions, url |-> url]
Listings == {<<>>, <<<<1, 1>>, <<1>>>>, <<<<2, 0>>, <<1>>>>}

PkConfigs ==
    {<<Repo(1, 0, TRUE, <<1>>, <<>>, <<>>), Repo(2, p, p = 0 \/ vs # <<>>, <<1, 1>>, vs, <<>>)>> :
        p \in {0, 5}, vs \in Listings}
    \cup {<<Repo(1, 3, TRUE, <<1>>, <<<<1, 1>>, <<1>>>>, <<>>), Repo(2, 3, TRUE, <<1>>, <<>>, u),
            Repo(3, p, TRUE, <<1, 1>>, <<>>, <<>>)>> :
        u \in {<<>>, <<1, 1>>}, p \in {0, 5}}
=============================================================================
