SPECIFICATION Spec
CONSTANTS
  Keys = {"a", "b"}
  Values = {"1", "2"}
  Services <- MCServices
  Deployments <- MCDeployments
  Clusters <- MCClusters
  LabelOptions <- OddOptions
  Images <- MCImages
  None = None
INVARIANT OnlyDocumentedForms
CHECK_DEADLOCK FALSE
