SPECIFICATION FairSpec
CONSTANTS
  App = {a1}
  Release = {1, 2}
  FailuresBeforeHeal = 2
  HealsBeforeAlarm = 2
  BackoffBase = 3
  BackoffMax = 5
  ProxyAlarmAfter = 2
  MaxElapsed = 2
  MaxHeals = 3
  MaxChanges = 2
  MaxFaults = 1
  MaxRestarts = 2
INVARIANTS
  ToldIsTrue
PROPERTIES
  HealsBackOff
  TroubleIsRaised
  AlarmsClose
