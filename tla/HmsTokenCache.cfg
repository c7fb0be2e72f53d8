SPECIFICATION FairSpec
CONSTANTS
  Sends = {s1, s2}
  Tokens = {t1, t2, t3}
  NoToken = NoToken
  MaxDrops = 1
INVARIANT AuthErrorsBounded
PROPERTY Recovers
