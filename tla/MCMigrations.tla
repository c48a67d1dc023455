---------------------------- MODULE MCMigrations ----------------------------
(***************************************************************************)
(* Instances of Migrations for TLC.                                        *)
(***************************************************************************)
EXTENDS Migrations

CONSTANTS d1, d2

TwoDocs == {d1, d2}

\* Any row an earlier schema admits; `parsed` came with pages from the start, and
\* a count was written with the chunks it counts.
AnyEra ==
    [r \in 1..(Head - 1) |-> {x \in Row : /\ x.status = "parsed" => x.pages
                                          /\ x.counted => x.chunks}]
=============================================================================
