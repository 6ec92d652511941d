----------------------------- MODULE MCKeySync ------------------------------
(* A small instance of KeySync: two American proxies and a German one, one   *)
(* to a page; a database left with a row whose name has the old form.       *)
EXTENDS KeySync

MCIds == {"a", "b", "d"}
MCCountries == {"US", "DE"}
MCWords == {"home", "my"}
MCGeo == [i \in MCIds |-> IF i = "d" THEN "DE" ELSE "US"]
MCRank == [i \in MCIds |-> IF i = "a" THEN 1 ELSE IF i = "b" THEN 2 ELSE 3]
OldForm == [a |-> [cc |-> "US", name |-> [head |-> "US", mid |-> "home", num |-> 1]]]
MCOldTables == {OldForm}
NewTables == {Empty}

\* A free name, and one of the generated form.
MyNode == {[head |-> "my", mid |-> "my", num |-> 0]}
HomeUS1 == {[head |-> "home", mid |-> "US", num |-> 1]}

\* With every proxy in the account at the start, no page lies past its end.
FullInit == Init /\ account = Ids
FullSpec == FullInit /\ [][Next]_vars

\* Two pages or three at the start: the proxy listed first may leave or join.
MCInit == Init /\ {"b", "d"} \subseteq account
MCSpec == MCInit /\ [][Next]_vars
MCFairSpec == MCSpec /\ Fairness

\* Three American proxies: a number below another can be free.
MCGeoUS == [i \in MCIds |-> "US"]
=============================================================================
