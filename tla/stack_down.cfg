\* The three verbs of one stage, one after another; the rail may stop between them.
CONSTANTS
  Stage = "local"
  MaxVerbs = 3
  MaxVanished = 1
  StackAttempts = 2
SPECIFICATION StackSpec
CHECK_DEADLOCK FALSE
PROPERTIES VolumesSurviveDown
