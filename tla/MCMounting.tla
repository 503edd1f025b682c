---------------------------- MODULE MCMounting ----------------------------
(***************************************************************************)
(* Instances of Mounting: the catalog h holds the manifests fa and fb of   *)
(* the containers a and b; the storage of a holds the manifest fk of its   *)
(* subcontainer k, and the storage of k the one of g.  Where subcontainers *)
(* are watched, fb may hold the one of c, which could have children, too.  *)
(***************************************************************************)
EXTENDS Mounting

St(id, par, prim) == [id |-> id, par |-> par, prim |-> prim, ref |-> None]
Man(con, sts) == [con |-> con, sts |-> sts]

MCContainers == {"h", "a", "b", "c", "k", "g"}
MCFiles == {"fa", "fb", "fk", "fg", "fc"}
MCWhere == [fa |-> "h", fb |-> "h", fk |-> "a", fg |-> "k", fc |-> "c"]
MCKey == [f \in MCFiles |-> f]
HomeSt == St("sh", 1, TRUE)

a1 == Man("a", <<St("s1", 1, FALSE)>>)
a2 == Man("a", <<St("s2", 1, FALSE), St("s1", 1, TRUE)>>)
a3 == Man("a", <<St("s2", 2, FALSE)>>)
b1 == Man("b", <<St("s1", 1, FALSE)>>)
(* A container that may have children, and has none.                            *)
c1 == Man("c", <<St("s1", 3, FALSE)>>)
(* A container whose storage shows another one's.                               *)
onK == Man("b", <<[St("s1", 1, FALSE) EXCEPT !.ref = "fk"]>>)
two == Man("b", <<St("s1", 1, TRUE), St("s2", 1, TRUE)>>)
k1 == Man("k", <<St("s1", 1, FALSE)>>)
k2 == Man("k", <<St("s1", 2, FALSE)>>)
g1 == Man("g", <<St("s1", 1, FALSE)>>)

Req(kd, names) == [kind |-> kd, names |-> names, remount |-> TRUE, subs |-> TRUE,
                   save |-> FALSE, cache |-> FALSE, con |-> "a",
                   source |-> None, target |-> None, once |-> FALSE]

AllKinds == {"pattern", "children", "wlpath", "outside", "off"}

\* Files change while they are watched; with commands a new subcontainer k comes
\* and the storages of a change.
Watched1 == [fa |-> {a1, a2, a3}, fb |-> {b1}, fk |-> {k1, k2}, fg |-> {g1}, fc |-> {}]
Watched0 == [fa |-> a1, fb |-> None, fk |-> None, fg |-> None, fc |-> None]

MCVersions ==
    [k \in AllKinds |->
        CASE k = "off" -> [fa |-> {a1, a2}, fb |-> {onK, two}, fk |-> {k1}, fg |-> {g1}, fc |-> {}]
          [] k = "children" -> [Watched1 EXCEPT !["fb"] = {c1}]
          [] OTHER -> Watched1]
MCFirst == [k \in AllKinds |-> CASE k = "off" -> [fa |-> a1, fb |-> onK, fk |-> k1, fg |-> g1, fc |-> None]
                               [] k = "children" -> [Watched0 EXCEPT !["fk"] = k1]
                               [] OTHER -> Watched0]
MCRemovable == [k \in AllKinds |-> CASE k = "off" -> {}
                                     [] k = "children" -> {"fa", "fb", "fk"}
                                     [] OTHER -> {"fb", "fk"}]

\* A second container comes as well.
TwoVersions == [MCVersions EXCEPT !["children"] = Watched1]

Commands ==
    {Req("mount", <<"catalog">>), Req("unmount", <<"catalog">>),
     Req("mount", <<"fa">>), [Req("mount", <<"fb", "fg", "fa">>) EXCEPT !.remount = FALSE, !.save = TRUE],
     [Req("mount", <<"fb">>) EXCEPT !.cache = TRUE],
     Req("unmount", <<"fa">>), [Req("unmount", <<"fb">>) EXCEPT !.save = TRUE, !.subs = FALSE],
     Req("path", << >>), Req("all", << >>), Req("delete-cache", <<"fb">>),
     Req("sync", <<"fa">>), [Req("sync", <<"fb">>) EXCEPT !.source = "s1"],
     [Req("sync", <<"fa">>) EXCEPT !.target = "s1", !.once = TRUE], Req("stop-sync", <<"fb">>),
     Req("modify", <<"fa">>), Req("stop", << >>), [Req("start", << >>) EXCEPT !.remount = FALSE]}

\* Beside mount-watch.
Beside ==
    {Req("stop", << >>), Req("mount", <<"fa">>), Req("unmount", <<"fa">>), Req("path", << >>),
     Req("modify", <<"fa">>)}

MCMaxRequests == [k \in Kinds |-> IF k = "off" THEN 2 ELSE 1]
MCMaxBeside == [k \in Kinds |-> IF k = "off" THEN 3 ELSE 1]

MCRequests == [k \in AllKinds |->
    CASE k = "off" -> Commands [] k = "pattern" -> Beside
      [] k = "children" -> {Req("unmount", <<"fa">>), Req("path", << >>)} [] OTHER -> {}]

\* A cache is deleted while it is mounted; and one belongs to the subcontainer k.
Forgotten == {[Req("mount", <<"fb">>) EXCEPT !.cache = TRUE], Req("delete-cache", <<"fb">>), Req("unmount", <<"fb">>)}
ForgottenRequests == [k \in AllKinds |-> Forgotten]
OfSubcontainers == {[Req("mount", <<"fk">>) EXCEPT !.cache = TRUE], Req("unmount", <<"fk">>),
                    Req("mount", <<"fa">>), Req("unmount", <<"fa">>)}
SubCacheRequests == [k \in AllKinds |-> OfSubcontainers]
ThreeRequests == [k \in Kinds |-> 3]
FourRequests == [k \in Kinds |-> 4]
=============================================================================
