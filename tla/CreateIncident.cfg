\* Three handlers, two keys, two payloads, room for both incidents.
CONSTANTS
  k1 = k1  k2 = k2  p1 = p1  p2 = p2
  n1 = n1  n2 = n2  n3 = n3  h1 = h1  h2 = h2  h3 = h3
  NULL = NULL
  Key = {k1, k2}
  Payload = {p1, p2}
  Incident = {n1, n2}
  Handler = {h1, h2, h3}
SPECIFICATION FairSpec
INVARIANTS OneIncidentPerKey AnswersTrue
PROPERTIES EveryCallEnds
