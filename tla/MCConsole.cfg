SPECIFICATION Spec
CONSTANTS
  Requests = {r1, r2}
  Emails = {e1, e2}
  Passwords = {p1, p2}
  NoPassword = NoPassword
  NoEmail = NoEmail
  Tokens = {t1, t2}
  NoToken = NoToken
SYMMETRY Symmetry
INVARIANTS TypeOK LogoutEndsSession
PROPERTIES SetupDrains EndedStaysEnded
