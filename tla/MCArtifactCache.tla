--------------------------- MODULE MCArtifactCache ---------------------------
(* An instance of ArtifactCache for TLC: one artifact under its own digest,  *)
(* a signed manifest and an unsigned one; processes that share a cache with  *)
(* one that has no trust root, and with one whose trust root is unusable.    *)
EXTENDS ArtifactCache

MCPid == [p \in Procs |-> p]
MCLayers == [m \in Manifests |-> <<"model">>]
MCDeployments == {[p \in Procs |-> IF p = 1 THEN "key" ELSE "off"],
                  [p \in Procs |-> IF p = 1 THEN "key" ELSE "poisoned"]}
=============================================================================
