---------------------------- MODULE MCMigration ----------------------------
(* The instances of Migration that TLC checks. *)
EXTENDS Migration, TLC

CONSTANTS A, B, C, f1, f2, m1, m2

\* A source that redis may hold: two ids for A, the second one in use.
RedisSource ==
    {[id |-> 1, name |-> A, files |-> {f1}], [id |-> 2, name |-> B, files |-> {f1, f2}],
     [id |-> 3, name |-> A, files |-> {f2}]}

\* A source of the SQL store, where names are unique and ids may have gaps.
SqlSource ==
    {[id |-> 1, name |-> A, files |-> {f1}], [id |-> 3, name |-> B, files |-> {f1, f2}]}

MCSource == {RedisSource, SqlSource}
=============================================================================
