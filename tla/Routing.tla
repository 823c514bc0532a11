------------------------------- MODULE Routing -------------------------------
(***************************************************************************)
(* fastware.routing and the dispatch of fastware.app as operators.  A path *)
(* is the sequence of its segments, as path.strip("/").split("/") gives    *)
(* it: "/" is <<"">>.  A pattern segment is a word, or one of the          *)
(* parameters below, whose names are left out.                             *)
(***************************************************************************)
EXTENDS Naturals, Sequences, SequencesExt, FiniteSetsExt

CONSTANT Digits     \* the words that int() accepts

StrParam  == "{s}"
IntParam  == "{i:int}"
PathParam == "{p:path}"

\* One segment of a pattern against one of a path: a literal, or a conversion
\* that succeeds.  A :path parameter has no converter, and calling it fails.
Fits(seg, word) == seg = word \/ seg = StrParam \/ (seg = IntParam /\ word \in Digits)

AllFit(pattern, path) ==
    Len(pattern) = Len(path) /\ \A i \in DOMAIN path : Fits(pattern[i], path[i])

\* Mutated form of MatchWithPathParam: the parameter may take nothing.
MatchWithPathParamEmpty(pattern, path, at) ==
    LET before == SubSeq(pattern, 1, at - 1)
        after  == SubSeq(pattern, at + 1, Len(pattern))
        start  == Len(path) - Len(after)
    IN  /\ Len(path) >= Len(before) + Len(after)
        /\ AllFit(before, SubSeq(path, 1, Len(before)))
        /\ AllFit(after, SubSeq(path, start + 1, Len(path)))

\* The first :path parameter takes what lies between the segments before it
\* and those after it, at least one segment.
MatchWithPathParam(pattern, path, at) ==
    LET before == SubSeq(pattern, 1, at - 1)
        after  == SubSeq(pattern, at + 1, Len(pattern))
        start  == Len(path) - Len(after)
    IN  /\ Len(path) > Len(before) + Len(after)
        /\ AllFit(before, SubSeq(path, 1, Len(before)))
        /\ AllFit(after, SubSeq(path, start + 1, Len(path)))

Matches(pattern, path) ==
    LET greedy == {i \in DOMAIN pattern : pattern[i] = PathParam}
    IN  IF greedy = {} THEN AllFit(pattern, path)
        ELSE MatchWithPathParam(pattern, path, Min(greedy))

-----------------------------------------------------------------------------
(* A table is the list of routes in the order of their registration.       *)

Route(method, pattern) == [method |-> method, pattern |-> pattern]

\* include_router: every route of the other router behind the prefix.
IncludeRouter(table, other, prefix) ==
    table \o [k \in DOMAIN other |-> Route(other[k].method, prefix \o other[k].pattern)]

\* The routes that serve a path for a method, and the first of them, 0 if none.
Candidates(table, method, path) ==
    {k \in DOMAIN table : table[k].method = method /\ Matches(table[k].pattern, path)}

First(table, method, path) ==
    LET ks == Candidates(table, method, path) IN IF ks = {} THEN 0 ELSE Min(ks)

\* HEAD is served by GET when no HEAD route matches.
MatchRoute(table, method, path) ==
    LET own == First(table, method, path)
    IN  IF own = 0 /\ method = "HEAD" THEN First(table, "GET", path) ELSE own

AllowedMethods(table, path) ==
    LET own == {table[k].method : k \in {n \in DOMAIN table : Matches(table[n].pattern, path)}}
    IN  IF "GET" \in own THEN own \cup {"HEAD"} ELSE own

-----------------------------------------------------------------------------
(* The dispatch of a request: the reserved paths, the mounts, the routes,  *)
(* then what is left for static files and the single-page fallback.        *)

Reserved == <<"__fastware", "version">>
GetOnly  == {<<"__fastware", "events">>, <<"__fastware", "client.js">>,
             <<"__fastware", "sw.js">>, <<"__fastware", "sw-register.js">>}

Under(prefix, path) == IsPrefix(prefix, path)

\* A file below the static directory; the fallback document, if it is a file.
Static(app, path)      == path \in app.files
Spa(app, method, path) == app.spa /\ method = "GET" /\ ~Under(app.api, path)

\* What answers: "reserved", "mount", "route", "405", "static", "spa" or "404".
Dispatch(app, method, path) ==
    IF path = Reserved \/ (method = "GET" /\ path \in GetOnly) THEN "reserved"
    ELSE IF \E p \in app.mounts : Under(p, path) THEN "mount"
    ELSE IF MatchRoute(app.table, method, path) # 0 THEN "route"
    ELSE IF AllowedMethods(app.table, path) # {} THEN "405"
    ELSE IF Static(app, path) THEN "static"
    ELSE IF Spa(app, method, path) THEN "spa"
    ELSE "404"

-----------------------------------------------------------------------------
(* What the operators promise.                                             *)

\* A pattern with a :path parameter means: one or more segments in its place.
Expansions(pattern, n) ==
    LET at == Min({i \in DOMAIN pattern : pattern[i] = PathParam})
    IN  {SubSeq(pattern, 1, at - 1) \o [i \in 1 .. k |-> StrParam]
            \o SubSeq(pattern, at + 1, Len(pattern)) : k \in 1 .. n}

MatchesAsSpecified(pattern, path) ==
    IF PathParam \notin Range(pattern) THEN AllFit(pattern, path)
    ELSE \E e \in Expansions(pattern, Len(path)) : AllFit(e, path)

\* An included route is found behind the prefix wherever the router it comes
\* from finds it.
IncludedIsReachable(other, prefix, method, path) ==
    MatchRoute(other, method, path) # 0 =>
        MatchRoute(IncludeRouter(<<>>, other, prefix), method, prefix \o path) # 0
=============================================================================
