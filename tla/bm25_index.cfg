CONSTANTS
  d1 = d1
  d2 = d2
  t1 = t1
  t2 = t2
  Docs = {d1, d2}
  Terms = {t1, t2}
  Texts <- SomeTexts
  Queries <- SomeQueries
  Writers = {w1, w2}
  Searchers = {s1}
  CompactOver = 4
  MaxOps = 3
  MaxSearches = 1
  NoText = NoText
  NoWriter = NoWriter
SPECIFICATION Spec
INVARIANTS CountersExact SearchSound
PROPERTIES IsDictionary SearchExact
SYMMETRY Alike
CHECK_DEADLOCK FALSE
