SPECIFICATION FairSpec
CONSTANTS
  Procs = {1, 2}
  Pid <- MCPid
  Blobs = {"model"}
  Manifests = {"signed", "unsigned"}
  Layers <- MCLayers
  Deployments <- MCDeployments
  Signed = {"signed"}
  Local = "model"
  Torn = "torn"
  None = "none"
  MaxFaults = 1
CHECK_DEADLOCK FALSE
INVARIANTS
  LoadedIsPinned
  OnlySignedArtifacts
PROPERTIES
  EveryResolveEnds
