SPECIFICATION Spec
CONSTANTS
  root = root
  first = first
  second = second
  Names <- MCNames
  Root = root
  NoName = NoName
  Records <- MCRecords
  MAX_DNS_LOOKUPS = 1
  MAX_VOID_LOOKUPS = 1
  MAX_RECURSION_DEPTH = 1
  PublicSuffixes <- MCSuffixes
  NoValue = NoValue
  Audited <- MCAudited
  Domains <- MCDomains
  DkimKeys <- MCKeys
  DmarcRecords <- MCDmarcRecords
  MaxSelectors = 2
  MaxAddresses = 1
  Signatures <- MCSignatures
  Volumes <- MCVolumes
  SpamRates <- MCSpamRates
INVARIANTS
  LookupsAreExact
  DepthCutIsReported
  AskedOnce
  NoBlockerFromFailure
  ReadyMeansCompliant
PROPERTIES
  AuditEnds
