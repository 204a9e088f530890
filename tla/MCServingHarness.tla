-------------------------- MODULE MCServingHarness --------------------------
(* An instance of ServingHarness for TLC: a file beside a directory that   *)
(* may be absent, empty or hold a file, and a path outside the workspace.  *)
EXTENDS ServingHarness

MCPaths    == {"a", "d", "d/f", "../x"}
MCAbove    == [p \in MCPaths |-> IF p = "d/f" THEN {"d"} ELSE {}]
MCEscaping == {"../x"}
MCContents == {"v1", "v2"}

(* Every well-formed answer of one or two blocks, and malformed ones. *)
MCAnswers ==
    UNION {[1..n -> {[path |-> p, content |-> c, closed |-> TRUE] :
                         p \in MCPaths, c \in MCContents}] : n \in 1..2}
    \cup {<<>>, <<[path |-> NoPath, content |-> "v1", closed |-> TRUE]>>,
          <<[path |-> "a", content |-> "v1", closed |-> TRUE],
            [path |-> "d", content |-> "v1", closed |-> FALSE]>>}

(* Every well-formed tree of files that have been written whole. *)
MCTrees == {t \in [MCPaths -> {"none", "dir", "v1"}] :
                /\ t["d/f"] # "none" => t["d"] = "dir"
                /\ t["d/f"] # "dir" /\ t["a"] # "dir" /\ t["../x"] = "v1"}
=============================================================================
