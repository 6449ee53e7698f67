CONSTANTS
  PoolSize = 3
  Bytes = {170, 128, 64, 96, 40, 16, 8, 0}
SPECIFICATION IoSpec
INVARIANTS KeyForEachCommand ResetLikePowerOn
PROPERTIES Ticks AlarmsEnd
