SPECIFICATION Spec
CONSTANTS
  c1 = c1
  c2 = c2
  t1 = t1
  Dashboards = {d1}
  Workers = {w1}
  Ops = {o1, o2}
  Creds = {c1, c2}
  Types = {"fcm", "expo"}
  TypeOf <- FcmAndExpo
  Texts = {t1, other}
  NoText = NoText
  Usable <- UsableByType
  Caching = {"fcm"}
  Testing = {"fcm"}
  MasterKeys = {m1, m2}
  MaxDek = 4
SYMMETRY Symmetry
INVARIANTS TypeOK RowsOpen PushUsesTheRowRead
