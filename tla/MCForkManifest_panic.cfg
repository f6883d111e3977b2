SPECIFICATION Spec
CONSTANTS
  Keys = {"a", "b"}
  Values = {"1", "2"}
  Services <- MCServices
  Deployments <- MCDeployments
  Clusters <- MCClusters
  LabelOptions <- MCLabelOptions
  Images <- MCImages
  None = None
INVARIANT NeverPanics
CHECK_DEADLOCK FALSE
