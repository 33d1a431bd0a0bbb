----------------------- MODULE MCConnectionMigration -----------------------
EXTENDS ConnectionMigration

\* Up to three messages of any kind.
UpToThree == UNION {[1..n -> Kinds] : n \in 1..3}

\* The client begins with a message that moves the connection.
MovesFirst == {q \in UpToThree : q[1] \in {"start", "graph"}}
============================================================================
