SPECIFICATION ScoutSpec
CONSTANTS
  Shapes = {"A100", "H100", "other"}
  Threshold <- MCThreshold
  Clusters <- MCClusters
  CrossTests = 3
  MaxGlitches = 1
INVARIANTS SoundIsCleared FaultyIsReported
