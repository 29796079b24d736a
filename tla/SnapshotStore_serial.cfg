CONSTANTS
  url = url
  low = low
  high = high
  Procs = {p1}
  Refs = {r1, r2}
  Names = {url}
  Values = {low, high}
  Sensitive <- UrlIsSensitive
  MaxKey = 2
  Absent = Absent
  Torn = Torn
  NoItem = NoItem
  NoCmd = NoCmd
  NoText = NoText
SYMMETRY MCSymmetry
SPECIFICATION Spec
INVARIANTS ShownWasAsked RevokedStaysHidden
PROPERTY CommandsAreAtomic
