CONSTANTS
  url = url
  low = low
  high = high
  Procs = {p1, p2}
  Refs = {r1}
  Names = {url}
  Values = {low, high}
  Sensitive <- UrlIsSensitive
  MaxKey = 1
  Absent = Absent
  Torn = Torn
  NoItem = NoItem
  NoCmd = NoCmd
  NoText = NoText
SYMMETRY MCSymmetry
SPECIFICATION Spec
INVARIANTS TypeOK 
