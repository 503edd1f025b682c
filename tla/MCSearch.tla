----------------------------- MODULE MCSearch -----------------------------
(* Forests of Alice and Bob, read by Bob.  Alice has a second key, which Bob's *)
(* other device holds as well; Carol is met in Alice's forest.                 *)
EXTENDS Search

CONSTANT Chosen  \* the scenarios of a run

MCKeys == {"alice", "team", "bob", "carol", "tablet"}

\* file -> directory or storage, and the part of a path it is kept for.
Places ==
    ("u_bob"   :> <<"users", "">>)      @@ ("u_alice" :> <<"users", "">>)
 @@ ("b_alice" :> <<"bridges", "">>)    @@ ("l_con"   :> <<"containers", "">>)
 @@ ("w_alice" :> <<"web", "">>)        @@ ("w_carol" :> <<"web", "">>)
 @@ ("acat"    :> <<"web", "">>)        @@ ("bcat"    :> <<"web", "">>)
 @@ ("a_x"     :> <<"a_tree", "/x">>)   @@ ("a_x_id"  :> <<"a_tree", "uuid">>)
 @@ ("a_y"     :> <<"a_tree", "/y">>)   @@ ("a_c_id"  :> <<"a_tree", "uuid">>)
 @@ ("a_c"     :> <<"a_tree", "/carol">>)
 @@ ("x_y"     :> <<"x_tree", "/y">>)   @@ ("b_x"     :> <<"b_tree", "/x">>)
MCFiles == DOMAIN Places
MCLoc == [f \in MCFiles |-> Places[f][1]]
MCName == [f \in MCFiles |-> Places[f][2]]
MCFileOrder == <<"u_alice", "u_bob", "b_alice", "l_con", "w_alice", "w_carol", "acat", "bcat",
                 "a_c", "a_c_id", "a_x", "a_x_id", "a_y", "b_x", "x_y">>

User(owner, keys, catalog) ==
    [type |-> "user", owner |-> owner, pubkeys |-> keys, catalog |-> catalog]
Con(owner, paths, access, loc) ==
    [type |-> "container", owner |-> owner, paths |-> paths, access |-> access,
     store |-> [readers |-> {Everybody}, access |-> None, loc |-> loc]]
Closed(con, access) == [con EXCEPT !.store.access = access]
Bridge(owner, paths, to, at, how) ==
    [type |-> "bridge", owner |-> owner, paths |-> paths, to |-> to, at |-> at, how |-> how]
Link(at) == [how |-> "link", at |-> at]
Url(at) == [how |-> "url", at |-> at]
Inline(con) == [how |-> "inline", body |-> con]

Alice == User("alice", {"team"}, <<Link("acat")>>)
AliceAlone == User("alice", {}, <<Link("acat")>>)
Bob == User("bob", {"team"}, <<Url("bcat")>>)
BobInline == User("bob", {"team"}, <<Inline(Con("bob", {"/"}, {Everybody}, "b_tree"))>>)
Carol == User("carol", {"tablet"}, <<>>)

AsAlice == [secret |-> {"alice"}, users |-> <<Alice, Bob>>]
AsTeam == [secret |-> {"team"}, users |-> <<Bob, Alice, Carol>>]
AsBob == [secret |-> {"bob"}, users |-> <<Bob, Alice>>]
AsCarol == [secret |-> {"carol"}, users |-> <<Carol>>]

Writes(file, by, body) == [do |-> "write", file |-> file, by |-> by, body |-> body]
Unsigned(file, by, body) == [do |-> "unsigned", file |-> file, by |-> by, body |-> body]
Removes(file) == [do |-> "remove", file |-> file]
Grants(file, by, access) == [do |-> "grant", file |-> file, by |-> by, access |-> access]

Request(op, parts) == [op |-> op, owner |-> "bob", hint |-> None, parts |-> parts]
Hinted(parts, hint) == [op |-> "load", owner |-> "alice", hint |-> hint, parts |-> parts]

Scenario(secret, before, after, requests) ==
    [secret |-> secret, public |-> secret, script |-> before \o after, before |-> Len(before),
     requests |-> requests]

BobAtHome ==
    << Writes("u_bob", AsBob, Bob),
       Writes("b_alice", AsBob, Bridge("bob", {"/alice"}, "alice", "w_alice", "url")) >>
AlicesForest ==
    << Writes("w_alice", AsAlice, Alice),
       Writes("acat", AsAlice, Con("alice", {"/acat"}, {Everybody}, "a_tree")),
       Writes("a_x", AsAlice, Con("alice", {"/x"}, {"bob"}, "x_tree")),
       Writes("a_x_id", AsAlice, Con("alice", {"/x"}, {"bob"}, "x_tree")) >>

\* Containers inside containers and a bridge in a catalog; what is private to Bob or
\* to the key Alice's device has; a container beside Alice's with the same path.
Forest ==
    Scenario({"bob"},
        BobAtHome \o AlicesForest \o
        << Writes("bcat", AsBob, Con("bob", {"/bcat"}, {Everybody}, "b_tree")),
           Writes("b_x", AsTeam, Con("bob", {"/x"}, {"bob"}, "data")),
           Writes("l_con", AsBob, Con("bob", {"/x", "/l"}, {"bob"}, "x_tree")),
           Writes("a_y", AsAlice, Closed(Con("alice", {"/y"}, {Everybody}, "data"), {"alice"})),
           Writes("x_y", AsTeam, Con("alice", {"/y"}, {"bob"}, "data")) >>,
        <<>>,
        { Request("load", <<"/alice", "/x">>), Request("load", <<"*", "/y">>),
          Request("load", <<"/alice", "/x", "/y">>), Request("file", <<"/x">>),
          Request("file", <<"/x", "/y">>) })

\* A third forest behind Alice's, met under a name and under "*", and entries in a user manifest.
Bridges ==
    Scenario({"bob"},
        << Writes("u_bob", AsBob, BobInline),
           Writes("b_alice", AsBob, Bridge("bob", {"/alice"}, "alice", "w_alice", "dict")) >>
        \o AlicesForest \o
        << Writes("w_carol", AsCarol, Carol),
           Writes("a_c", AsAlice, Bridge("alice", {"/carol"}, "carol", "w_carol", "relative")),
           Writes("a_c_id", AsTeam, Bridge("alice", {"/carol"}, "carol", "w_carol", "relative")),
           Unsigned("b_x", AsBob, Con("bob", {"/x"}, {Everybody}, "data")),
           Unsigned("x_y", AsAlice, Con("alice", {"/y"}, {Everybody}, "data")) >>,
        <<>>,
        { Request("load", <<"/alice", "/carol">>), Request("load", <<"/alice", "*">>),
          Request("load", <<"/alice", "/x", "/y">>),
          Request("load", <<"/alice", "/carol", "/x">>), Request("load", <<"*">>),
          Request("file", <<"/x">>) })

\* The forest of Alice by a hint only.
Hint ==
    Scenario({"bob"},
        << Writes("u_bob", AsBob, Bob) >> \o AlicesForest,
        <<>>,
        { Hinted(<<"/x">>, "w_alice"), Hinted(<<"*">>, "w_alice") })

\* Alice takes a key back, a container is written again by an author who cannot read its storage,
\* and catalogs change while they are read.
Changes ==
    Scenario({"bob"},
        BobAtHome \o AlicesForest \o
        << Writes("x_y", AsTeam, Con("alice", {"/y"}, {Everybody}, "data")),
           Writes("bcat", AsBob, Con("bob", {"/bcat"}, {Everybody}, "b_tree")),
           Writes("a_y", AsAlice, Closed(Con("alice", {"/y"}, {"bob"}, "data"), {"alice"})),
           Writes("w_alice", AsAlice, AliceAlone) >>,
        << Writes("b_x", AsBob, Con("bob", {"/x"}, {Everybody}, "data")),
           Removes("a_x"),
           Grants("a_y", AsTeam, {"bob", "carol"}),
           Removes("w_alice"),
           Writes("w_alice", AsAlice, Alice) >>,
        { Request("load", <<"/alice", "/x", "/y">>), Request("load", <<"/alice", "/y">>),
          Request("file", <<"/x">>) })

\* Alice is a local user and the catalog of her forest is asked with and without a hint.
HintLater ==
    Scenario({"bob"},
        << Writes("u_bob", AsBob, Bob) >> \o AlicesForest,
        <<>>,
        { Hinted(<<"/x">>, None), Hinted(<<"/x">>, "w_alice") })

\* A local container of Alice's, in her forest.
ForeignLocal ==
    Scenario({"bob"},
        BobAtHome \o AlicesForest \o
        << Writes("l_con", AsAlice, Con("alice", {"/l"}, {"bob"}, "x_tree")),
           Writes("x_y", AsAlice, Con("alice", {"/y"}, {"bob"}, "data")) >>,
        <<>>,
        { Request("load", <<"/alice", "/x", "/l", "/y">>), Request("load", <<"/alice", "/x", "/l">>),
          Request("load", <<"/alice", "/x", "/y">>) })

\* The catalog of one of the forests that are searched is missing.
MissingCatalog ==
    Scenario({"bob"},
        BobAtHome \o << Writes("w_alice", AsAlice, Alice),
           Writes("l_con", AsBob, Con("bob", {"/l"}, {"bob"}, "x_tree")) >>,
        <<>>,
        { Request("load", <<"*">>) })

MCModes == CASE Chosen = "all" -> {Forest, Bridges, Hint, Changes}
             [] Chosen = "forest" -> {Forest} [] Chosen = "bridges" -> {Bridges}
             [] Chosen = "hint" -> {Hint} [] Chosen = "changes" -> {Changes}
             [] Chosen = "hint_later" -> {HintLater} [] Chosen = "foreign_local" -> {ForeignLocal}
             [] Chosen = "missing_catalog" -> {MissingCatalog}
=============================================================================
