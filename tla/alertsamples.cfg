CONSTANTS
  ConsecutiveSamples = 2
  Cooldown = 3
  MaxSamples = 6
  MaxFaults = 0
SPECIFICATION Spec
PROPERTIES AlertsFollowConsecutiveSamples
