\* Two threads connect and reconnect over two authorizations, two check (one
\* thread does both), and one of those revokes; an access token lives one
\* unit of time, an authorization three.
SPECIFICATION Spec
CONSTANTS
  Connector = {t1, t2}
  Resolver = {t2, t3}
  Revoker = {t3}
  Account = {a1, a2}
  Transaction = {x1, x2}
  AuthorizationTTL = 3
  AccessTTL = 1
  ReconnectOmits = FALSE
  MaxTokens = 4
  MaxTime = 6
  Null = Null
  t1 = t1
  t2 = t2
  t3 = t3
SYMMETRY Symmetry
INVARIANTS
  TypeOK
  StoredTokenWorks
  NoTokenReuse
  OneExchangePerTransaction
PROPERTIES
  AccountNeverSwitches
  RevokedIsForever
