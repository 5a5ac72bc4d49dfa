---------------------------- MODULE MCJoinPipeline ----------------------------
(* Instances of JoinPipeline for TLC. *)
EXTENDS JoinPipeline

\* Every join type over five probe rows - two full batches and a partial one -
\* with a duplicate key, a key only on the left and a key only on the right.
MixedQueries ==
    [left : {<<1, 2, 2, 1, 3>>}, right : {<<2, 4, 2>>}, joinType : JoinTypes,
     failAt : {0}]

\* A probe input that fails at the first, a middle or the last read, or never.
FailingQueries ==
    [left : {<<2, 1, 1, 2>>}, right : {<<1, 3>>}, joinType : {"INNER", "FULL"},
     failAt : {0, 1, 3, 4, 5}]

\* Empty and short inputs.
SmallQueries ==
    [left : {<<>>, <<1, 2>>}, right : {<<2>>}, joinType : {"RIGHT"},
     failAt : {0}]
    \cup [left : {<<1, 1, 2>>}, right : {<<1>>}, joinType : {"INNER"},
          failAt : {0, 4}]

OrderQueries == MixedQueries \cup FailingQueries \cup SmallQueries
===============================================================================
