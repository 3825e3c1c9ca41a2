---------------------------- MODULE MCStatements ----------------------------
(* A table of two columns with a primary key, a second index and a unique    *)
(* one on both columns                                                       *)
EXTENDS Statements

CONSTANT odd   \* a value of another type

MCRows == {<<1, 1>>, <<1, 2>>, <<2, 1>>, <<2, NULL>>, <<NULL, 1>>, <<1, odd>>}
MCMisfits == {<<1, odd>>}
MCIndexes == [pk     |-> [cols |-> <<1>>, unique |-> TRUE],
              second |-> [cols |-> <<2>>, unique |-> FALSE],
              both   |-> [cols |-> <<2, 1>>, unique |-> TRUE]]
MCConditions == {MCRows, {r \in MCRows : r[2] = 1}, {r \in MCRows : r[1] = 1}}

\* Settings that make keys clash, that swap the keys of two rows, and one with a
\* value that does not fit its column
MCSettings == {[r \in MCRows |-> IF r[1] = 1 THEN <<2, 1>> ELSE r],
               [r \in MCRows |-> IF r = <<1, 1>> THEN <<1, 2>> ELSE IF r = <<1, 2>> THEN <<1, 1>> ELSE r],
               [r \in MCRows |-> IF r = <<1, 2>> THEN <<1, odd>> ELSE r]}
=============================================================================
