SPECIFICATION InboxSpec
CONSTANTS
  c1 = c1
  d1 = d1
  d2 = d2
  e1 = e1
  e2 = e2
  e3 = e3
  e4 = e4
  k1 = k1
  k3 = k3
  k4 = k4
  i1 = i1
  i2 = i2
  Daemons = {d1, d2}
  Clis = {c1}
  Nobody = Nobody
  NoEnvelope = NoEnvelope
  Envelopes = {e1, e2, e3, e4}
  Malformed = {e3}
  Unknown = {}
  Forbidden = {e2}
  OwnEnvelope <- MCOwnEnvelope
  KeyOf <- MCKeyOf
  ItemOf <- MCItemOf
  MaxMishaps = 1
CHECK_DEADLOCK FALSE
INVARIANTS
  OneReceiptPerKey
  NoLostCommand
  SuccessIsAdmitted
PROPERTIES
  KeepsPromise
  ReceiptsReachDisk
