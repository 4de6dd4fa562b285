------------------------------- MODULE MCVfs --------------------------------
\* Three nodes besides the root, and the shapes of path that the code tells apart.
EXTENDS Vfs, TLC

CONSTANTS n1, n2, n3

MCNames == {"", "..", "a", "b"}
MCPaths == { [abs |-> TRUE,  dirs |-> <<>>,          last |-> "a"],    \* /a
             [abs |-> TRUE,  dirs |-> <<"a">>,       last |-> "b"],    \* /a/b
             [abs |-> TRUE,  dirs |-> <<"a">>,       last |-> ""],     \* /a/
             [abs |-> TRUE,  dirs |-> <<"a", "..">>, last |-> "b"],    \* /a/../b
             [abs |-> FALSE, dirs |-> <<>>,          last |-> "b"],    \* b
             [abs |-> FALSE, dirs |-> <<>>,          last |-> ".."],   \* ..
             [abs |-> FALSE, dirs |-> <<"..">>,      last |-> "a"] }   \* ../a
MCTexts == { <<>>, <<1>>, <<2, 2, 2>> }
MCSymmetry == Permutations({n1, n2, n3})
=============================================================================
