CONSTANTS
  Instances <- OneInstance
  Stores <- OneStore
  Creds <- NoCred
  SyslogChoices = {FALSE}
  Verbs <- DeployVerbs
  MaxVersion = 2
  MaxFaults = 2
SPECIFICATION FairSpec
PROPERTY RedeployRecovers
