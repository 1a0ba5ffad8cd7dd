\* A reconnect that gets no refresh token overlaps a refresh.
SPECIFICATION Spec
CONSTANTS
  Connector = {t1}
  Resolver = {t2}
  Revoker = {}
  Account = {a1, a2}
  Transaction = {x1, x2}
  AuthorizationTTL = 2
  AccessTTL = 1
  ReconnectOmits = TRUE
  MaxTokens = 3
  MaxTime = 6
  Null = Null
  t1 = t1
  t2 = t2
SYMMETRY Symmetry
PROPERTIES
  OmittedTokenPreserved
