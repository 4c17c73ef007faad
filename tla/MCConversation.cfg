SPECIFICATION Spec
CONSTANTS
  hello = hello
  story = story
  secret = secret
  page = page
  search = search
  t1 = t1
  t2 = t2
  Task = {t1, t2}
  Message = {hello, story, secret, page, search}
  Override = {}
  Github = {search}
  Fetch = {page}
  Brief = {}
  Memorable = {story}
  Secret = {secret, search}
  Size <- MCSize
  Related <- MCRelated
  Configs = {"all", "url", "none"}
  AnswerSizes = {3}
  Prompt = 1
  LocalContext = 5
  RemoteContext = 7
  Sentence = 1
  Excerpt = 1
  Window = 2
  Recall = 1
  MaxLog = 3
  Short = 1
  MaxTurns = 4
SYMMETRY TaskSymmetry
INVARIANTS
  TypeOK
  AnswersStandByTheirQuestions
  StallsPass
CHECK_DEADLOCK FALSE
