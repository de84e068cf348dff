--------------------------- MODULE MCClientCache ---------------------------
EXTENDS ClientCache

\* The ways in which the two privileges may be granted at /access/groups: at
\* the path, above it with and without propagation, or only below it.
MCTrees ==
  LET Granted(priv) ==
        { {Grant(<<"access", "groups">>, priv, FALSE)},
          {Grant(<<>>, priv, TRUE), Grant(<<"access">>, priv, FALSE)},
          {Grant(<<"access">>, priv, FALSE)},
          {Grant(<<"access", "groups", "g">>, priv, TRUE)} }
  IN  {m \cup a : m \in Granted("User.Modify"), a \in Granted("Sys.Audit")} \cup {{}}
=============================================================================
