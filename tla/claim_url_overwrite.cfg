CONSTANTS
  a = a
  b = b
  c = c
  p = p
  q = q
  UrlJobs = {j1, j2}
  Items = {a, b, c}
  Papers = {p, q}
  IdOf <- IdOfItem
  Lists <- OneItem
  MaxOther = 0
  NoItem = NoItem
SPECIFICATION UrlSpec
PROPERTIES NoSilentOverwrite
CHECK_DEADLOCK FALSE
