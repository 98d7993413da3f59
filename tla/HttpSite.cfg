SPECIFICATION Spec
CONSTANTS
  Stems = {"/", "/index.html", "/404.html", "/none"}
  Root = "/"
  Index = "/index.html"
  NotFoundPage = "/404.html"
  Files <- MCFiles
  Asked <- MCAsked
  old = old
  new = new
  big = big
  Contents = {old, new, big}
  Size <- MCSize
  Seconds = {0, 1}
  Version <- MCVersion
  s1 = s1
  s2 = s2
  Streams = {s1, s2}
  DefaultSize = 3
  RefusalSize = 1
  None = None
  MaxEdits = 2
  MaxLoads = 2
  MaxRequests = 2
INVARIANTS
  TypeOK
  NotModifiedIsTrue
  RootAnswers
  HttpBooks
  BytesCoverBodies
SYMMETRY MCSymmetry
