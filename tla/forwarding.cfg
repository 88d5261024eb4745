SPECIFICATION Spec
CONSTANTS
  get = get
  post = post
  bare = bare
  Requests = {get, post, bare}
  Posts = {post, bare}
  Pieces <- MCPieces
  Codes = {200, 404}
  Nobody = Nobody
  MaxRestarts = 1
INVARIANTS
  TypeOK
  HandledWhole
  AnswersAreTheHandlers
  ActsForItsCaller
PROPERTY
  Served
CHECK_DEADLOCK FALSE
