CONSTANTS
  Instances <- PrefixInstances
  Stores <- OneStore
  Creds <- NoCred
  SyslogChoices = {FALSE}
  Verbs <- TwoVerbs
  MaxVersion = 1
  MaxFaults = 1
SPECIFICATION Spec
PROPERTY OthersKeepSecrets
