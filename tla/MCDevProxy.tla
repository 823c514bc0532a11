----------------------------- MODULE MCDevProxy -----------------------------
(* Every table of two routes over the patterns below, and every request on   *)
(* the paths below; a body of two chunks, of which the backend may read      *)
(* none, one or both.                                                        *)
EXTENDS DevProxy

MCPatterns == {<<"">>, <<"a">>, <<IntParam>>, <<PathParam>>,
               <<"a", PathParam>>, <<PathParam, "a">>, <<IntParam, PathParam, StrParam>>}
MCRoutes == {Route(m, p) : m \in {"GET", "POST", "HEAD"}, p \in MCPatterns}

MCApp(table) == [table |-> table, mounts |-> {<<"m">>}, files |-> {<<"f">>},
                 spa |-> FALSE, api |-> <<"api">>]
MCApps == {MCApp(<<r, s>>) : r, s \in MCRoutes}
            \cup {[MCApp(<<Route("POST", <<"a">>)>>) EXCEPT !.spa = TRUE]}

MCMethods == {"GET", "HEAD", "POST", "OPTIONS", "WEBSOCKET"}
MCPaths == {<<"">>, <<"a">>, <<"7">>, <<"a", "b">>, <<"b", "a">>, <<"7", "b", "a">>,
            <<"api", "a">>, <<"f">>, <<"m", "x">>, Reserved}
MCBackend == {<<"api">>, <<"__fastware">>}
=============================================================================
