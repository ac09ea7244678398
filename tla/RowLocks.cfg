\* Four sessions on two investigations of one incident.
CONSTANTS
  i1 = i1  i2 = i2  n1 = n1  t1 = t1  t2 = t2  t3 = t3  t4 = t4
  Txn = {t1, t2, t3, t4}
  Inv = {i1, i2}
  Incident = {n1}
  IncidentOf <- OneIncident
SPECIFICATION Spec
INVARIANTS NoCircle
SYMMETRY Interchangeable
