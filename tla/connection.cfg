\* Terminals with and without TLS, Query and TN3270E, and line-mode clients.
CONSTANTS
  Arrivals <- MCArrivals
  ScanLimit = 6
  AddressableCells = 5
  Keyed <- MCKeyed
  Byte <- MCByte
SPECIFICATION Spec
INVARIANTS
  TypeOK
  HandshakeIntact
  TlsAgreed
  RecordsWhole
  ModelHonest
  CommandsAnswered
PROPERTIES
  ThreadEnds
CHECK_DEADLOCK FALSE
