SPECIFICATION PartsSpec
CONSTANTS
  InitialUnit <- MCUnit
  Remotes <- MCRemotes
  Targets = {"24.0"}
  Percents = {0, 40}
  OnPreset = "3"
  OffPreset = "swing"
  Boots <- MCBoots
  MaxChanges = 1
  MaxWrites = 1
  MaxRefused = 1
  MaxLost = 0
  Missing = Missing
  Settings <- MCSettings
  Temperatures = {"former", "narrow"}
  ThermostatLast = 20
  MaxEdits = 2
  MaxFailures = 1
  MaxStarts = 0
  MaxBoots = 1
PROPERTY TilesFollow
PROPERTY HomeFollows
INVARIANT SceneSafe
CHECK_DEADLOCK FALSE
