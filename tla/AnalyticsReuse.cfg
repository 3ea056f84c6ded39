\* Two workers whose tunnel dies once.
CONSTANTS
  w1 = w1  w2 = w2  w3 = w3  p1 = p1  p2 = p2
  k1 = k1  k2 = k2  k3 = k3  k4 = k4
  Worker = {w1, w2}
  Port = {p1, p2}
  Pool = {k1, k2, k3}
  MaxConnections = 2
  MaxFaults = 1
  Losses = FALSE
  None = None
SPECIFICATION Spec
PROPERTIES ReusedWhileAlive
