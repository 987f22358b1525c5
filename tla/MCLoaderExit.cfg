SPECIFICATION Spec
CONSTANTS
  Images <- Genuine
  HostSites = {"other"}
  AnyTag = AnyTag
  Nobody = Nobody
INVARIANT ExitClearsSecrets
