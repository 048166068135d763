CONSTANTS
  Instances <- OneInstance
  Stores <- OneStore
  Creds <- OneCred
  SyslogChoices = {TRUE, FALSE}
  Verbs <- AllVerbs
  MaxVersion = 2
  MaxFaults = 2
SPECIFICATION Spec
INVARIANT TypeOK
INVARIANT DeployedUnitIsWhole
INVARIANT RemovedStaysDown
PROPERTY DeployServesPlan
PROPERTY DeployLeaksNoFile
PROPERTY RemoveLeaksNoFile
