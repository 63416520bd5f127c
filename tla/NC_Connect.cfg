SPECIFICATION FairSpec
CONSTANTS
  Retries <- MCRetries
  Reconnects <- MCReconnects
  MaxFaults = 6
INVARIANTS
  TypeOK
  RetriesExactly
  SignatureMatchesToken
  NothingStaleSent
  NothingAskedTwice
PROPERTY
  Settles
