--------------------------- MODULE MCPatchApproval ---------------------------
(* Patches for TLC: the unfixed content; one that is fit; one that passes    *)
(* the acceptance scenario but leaves the scope; and one whose worker        *)
(* committed a change of the protected tests, of which git shows nothing.    *)
EXTENDS PatchApproval, TLC

CONSTANTS good, wide, sly

MCStatus ==
    [p \in Patch |-> IF p = good THEN {"module"}
                     ELSE IF p = wide THEN {"module", "elsewhere"} ELSE {}]
MCDiff ==
    [p \in Patch |-> IF p = good THEN "fix" ELSE IF p = wide THEN "rewrite" ELSE ""]

CallSymmetry ==
    Permutations(Job) \cup Permutations(Verifier) \cup Permutations(Reviewer)
    \cup Permutations(Canceller)
==============================================================================
