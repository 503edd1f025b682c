----------------------------- MODULE MCCatalog -----------------------------
(* Instances of Catalog for TLC. *)
EXTENDS Catalog

CONSTANTS a, b, p, x, y, c1, c2, s1, s2, s3

\* The first catalog container has one storage with a file for every path, the
\* second one with a file for every container and a read-only one.
TwoEntries == <<c1, c2>>

StoragesOfTwo == [c \in Objects \union Remote |->
                    CASE c = c1 -> <<s1>> [] c = c2 -> <<s3, s2>> [] OTHER -> << >>]

Patterns == [s \in Storages |-> IF s = s3 THEN "flat" ELSE "tree"]
=============================================================================
