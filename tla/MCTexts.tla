------------------------------ MODULE MCTexts -------------------------------
(***************************************************************************)
(* An instance of Texts for TLC: the letters that have a meaning to one of *)
(* the algorithms, and one or two that have none.                          *)
(***************************************************************************)
EXTENDS Texts, FiniteSets

Words(letters, n) == UNION { [1 .. k -> letters] : k \in 0 .. n }

\* Directives "a" and no-cache.
ArgLetters == {"a", Comma, Equals, Space, Quote, Backslash}
D(name, form, arg, fields, pairs) ==
    [name |-> name, form |-> form, arg |-> arg, fields |-> fields, pairs |-> pairs]

DirectiveNames == {<<"a">>, NoCache}

MCDirectives ==
    { D(name, "bare", <<>>, <<>>, FALSE) : name \in DirectiveNames }
    \cup { D(name, "token", <<"a">>, <<>>, FALSE) : name \in DirectiveNames }
    \cup { D(name, "quoted", arg, <<>>, pairs) :
             name \in DirectiveNames, arg \in Words(ArgLetters, 2), pairs \in BOOLEAN }
    \cup { D(NoCache, "fields", <<>>, fields, pairs) :
             fields \in {<<>>, <<<<"a">>>>, <<<<"a">>, <<"b">>>>}, pairs \in BOOLEAN }

MCSeparators == {<<Comma>>, <<Space, Comma, Comma, Space>>}

\* Mains 1, 2 and 3; 3 is a range with a wildcard, and 2 an alias of 1.
MCWildcards(main) == IF main = 3 THEN 1 ELSE 0
MCAlias(main) == IF main = 2 THEN 1 ELSE main

O(main, params, q) == [main |-> main, params |-> params, q |-> q]

MCOffers ==
    [main : {1, 2, 3}, params : {<<>>, <<1>>, <<2>>}, q : {500, MaxQ}]
    \cup { O(1, <<1, 2>>, MaxQ), O(1, <<2, 1>>, MaxQ), O(1, <<>>, 0), O(2, <<>>, Refused) }

\* The fields "A", "AB", of which "A" is the beginning, and "B" of a Vary.
A == <<"A">>
AB == <<"A", "B">>
B == <<"B">>

MCSelections ==
    UNION { [names : {names}, values : [{ names[i] : i \in DOMAIN names } ->
                                          Words({"A", "B", "x"}, 2)]]
            : names \in {<<A>>, <<AB>>, <<B>>, <<A, AB>>, <<A, B>>} }

LetterA == 97
LetterX == 120
MCPorts == {<<56, 48>>, <<52, 52, 51>>, <<56>>}
MCHost == [name |-> <<LetterA>>, ip6 |-> FALSE]
MCNames == {MCHost, [name |-> <<LetterX>>, ip6 |-> FALSE],
            [name |-> <<58, 58, 49>>, ip6 |-> TRUE],
            [name |-> <<58, 58, 49, 58, 56>>, ip6 |-> TRUE]}

Resource(scheme, host, port, segments, hasQuery, query) ==
    [scheme |-> scheme, name |-> host.name, ip6 |-> host.ip6, port |-> port,
     segments |-> segments, hasQuery |-> hasQuery, query |-> query]

Styles == [upper : BOOLEAN, port : BOOLEAN, bare : BOOLEAN,
           dots : {"none", "here", "up", "escaped"}, escapes : {"least", "lower", "upper"}]

\* Schemes, hosts and ports, with an empty path.
MCOrigins ==
    [resource : { Resource(scheme, host, port, << <<>> >>, FALSE, <<>>) :
                    scheme \in {"http", "https"}, host \in MCNames, port \in MCPorts },
     style : { s \in Styles : s.dots = "none" /\ s.escapes = "least" /\ s.bare = s.upper }]

\* Paths and queries of one host.
MCPaths ==
    { address \in
        [resource : { Resource("http", MCHost, <<56, 48>>, path, FALSE, <<>>) :
                        path \in { << <<>> >>, << <<LetterA>> >>, << <<LetterA>>, <<>> >>,
                                   << <<LetterA>>, <<LetterX>> >>, << <<LetterA, 47, LetterX>> >>,
                                   << <<37, 52, 49>> >>, << <<233>> >>, << <<195, 169>> >> } },
         style : { s \in Styles : ~ s.upper /\ ~ s.port }] :
      address.style.bare => address.resource.segments = << <<>> >> }

MCQueries ==
    [resource : { Resource("http", MCHost, <<56, 48>>, << <<LetterA>> >>, TRUE, query) :
                    query \in { <<>>, <<LetterA>>, <<37>>, <<38, LetterA>>,
                                <<Delimiter + 38, LetterA>>, <<233>>, <<195, 169>> } },
     style : { s \in Styles : ~ s.upper /\ ~ s.port /\ ~ s.bare /\ s.dots = "none" }]

MCAddresses == MCOrigins \cup MCPaths \cup MCQueries

\* Fields for one hop, and some that are for one when Connection lists them.
MCMessages ==
    { m \in [fields : SUBSET {"Connection", "Keep-Alive", "Content-Length", "Trace"},
             listed : SUBSET {"Trace"}] :
        "Connection" \notin m.fields => m.listed = {} }

MCMaxItems == [list |-> 2, offers |-> 3, vary |-> 2, url |-> 2, headers |-> 3]
=============================================================================
