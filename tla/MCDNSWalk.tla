------------------------------ MODULE MCDNSWalk ------------------------------
(* Rule lists for TLC. *)
EXTENDS DNSWalk

R(act, bind, race) ==
    [act |-> act, bind |-> bind, race |-> race, spec |-> FALSE, tag |-> "", server |-> "found"]
Evaluate(t) == [R("evaluate", {}, FALSE) EXCEPT !.tag = t]
Spec_(r) == [r EXCEPT !.spec = TRUE]
Server(r, s) == [r EXCEPT !.server = s]

Queries == {Evaluate("a"), Evaluate("b"), Evaluate(""), Spec_(Evaluate("b"))}

Others ==
    {R("respond", {"a"}, TRUE), R("respond", {"b"}, TRUE), R("respond", {""}, TRUE),
     R("respond", {"a"}, FALSE), R("respond", {}, FALSE),
     R("route", {"a"}, TRUE), Server(R("route", {"a", "b"}, TRUE), "skipped"),
     Spec_(R("route", {}, FALSE)), Server(R("route", {"b"}, FALSE), "missing"),
     R("reject", {"b"}, FALSE), R("predefined", {"b"}, TRUE),
     R("options", {}, FALSE), R("options", {"b"}, FALSE),
     Server(Evaluate(""), "missing"), Spec_(Evaluate(""))}

\* Valid lists that start with a query.  The tags are alike, and the first query
\* has nothing to be ahead of.
Lists(n) ==
    {l \in [1 .. n -> Queries \cup Others] : l[1] \in {Evaluate("a"), Evaluate("")} /\ Valid(l)}

\* Two queries, a race rule and another rule; a response and a predefined answer
\* for the second query are judged alike.
RaceLists ==
    {l \in [1 .. 4 -> Queries \cup Others] :
        l[1] = Evaluate("a") /\ l[2] = Evaluate("b")
        /\ l[3] \in Others /\ l[3].race /\ l[3] # R("respond", {"b"}, TRUE)
        /\ l[4] \in Others /\ Valid(l)}

\* The same with a race for the anonymous response, which the last rule may
\* replace while the race rule is armed.
AnonymousLists ==
    {l \in [1 .. 4 -> Queries \cup Others] :
        l[1] = Evaluate("a") /\ l[2] = Evaluate("")
        /\ l[3] = R("respond", {""}, TRUE) /\ l[4] \in Others /\ Valid(l)}

ShortLists == Lists(3) \cup RaceLists \cup AnonymousLists
=============================================================================
