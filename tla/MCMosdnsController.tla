------------------------- MODULE MCMosdnsController -------------------------
(***************************************************************************)
(* Small instances of MosdnsController.                                    *)
(***************************************************************************)
EXTENDS MosdnsController

CONSTANT d1

Post(mode, route) == [mode |-> mode, route |-> route, block |-> TRUE]

MCPosts == {Post("custom", "proxy"), Post("blacklist", "direct")}

MCDirectPosts == {Post("custom", "direct")}

Draft(f) == [file |-> f, text |-> {<<d1, "domain">>}]

MCDrafts == {Draft(f) : f \in {"custom-direct", "custom-block", "gfw"}}

MCSamples ==
    [f \in Custom |-> IF f = "custom-direct" THEN {<<d1, "domain">>} ELSE {}]

MCRequests == {<<"start", 1>>, <<"stop", 0>>, <<"stop", 1>>}

MCSymmetry == Permutations(Handlers)
=============================================================================
