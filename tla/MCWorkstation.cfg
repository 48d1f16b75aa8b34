SPECIFICATION Spec
CONSTANTS
  Lanes = {l1, l2}
  Unlocked = Unlocked
  Probe = Probe
  MaxTip = 2
  NoHead = NoHead
  Checkouts = {c1, c2}
  HandWired = HandWired
  NoCheckout = NoCheckout
  Runs = {r1}
  MaxSource = 3
  MaxEdits = 2
  MaxWrites = 2
  Attempts = 2
  Sentences <- MCSentences
  MaxMoves = 2
  MaxHead = 1
  MaxEvents = 2
  Deadline = 1
  TTL = 2
  MaxClock = 2
  MaxPacket = 1
  Dispatches = {1, 2}
  Openers = {p1, p2}
  Items = {i1, i2}
  MaxClaims = 2
  File = {f1, f2}
  MaxShifts = 3
  MaxId = 4
  MaxSecond = 2
  PageSize = 1
VIEW Seen
CHECK_DEADLOCK FALSE
INVARIANT TreeUnderLock
INVARIANT HandlersRecognised
INVARIANT InstalledIsWhole
INVARIANT CopyIsConsistent
INVARIANT PacketIsSound
INVARIANT PassIsOneHead
INVARIANT AnswersWhatWasAsked
INVARIANT OpenedIsComplete
INVARIANT VerdictIsEarned
INVARIANT PagesMissNothing
PROPERTY LostOnlyUnseen
PROPERTY OthersKept
