CONSTANTS
  open = open
  scoped = scoped
  tool = tool
  what = what
  p = p
  r = r
  p1 = p1
  s = s
  s1 = s1
  r1 = r1
  Queries = {open, scoped, tool}
  Tools = {tool}
  TextOf <- TextOfQuery
  FilterOf <- FilterOfQuery
  Chunks = {p1, s1, r1}
  StoredFirst = {{p, s}, {p, s, r}}
  TaggedFirst = {p}
  PaperOf <- PaperOfChunk
  TitleOf <- TitleOfPaper
  DenseOrder <- ByMeaning
  LexicalOrder <- ByWords
  RerankOrder <- ByBoth
  TopK = 2
  Overfetched = 3
  MaxChunks = 2
  RrfK = 60
  CacheSize = 1
  MaxWrites = 1
  NoIndex = NoIndex
  NoPaper = NoPaper
SPECIFICATION Spec
INVARIANTS CitedWasShown ScopeKept DegradedTold FreshUnlessRaced
CHECK_DEADLOCK FALSE
