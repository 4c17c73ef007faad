SPECIFICATION Spec
CONSTANTS
  server = server
  tool = tool
  chat = chat
  fetch = fetch
  api = api
  call = call
  shop = shop
  plain = plain
  personal = personal
  Loop = {server, tool}
  Busy = {server}
  Caller = {chat, fetch, call}
  LoopOf <- MCLoopOf
  Url = {api, shop}
  Web = {api, shop}
  Listed = {api, shop}
  Commerce = {shop}
  PersonalKey = {}
  PersonalValue = {}
  SafeDownload = {}
  Payload = {plain, personal}
  Personal = {personal}
  Purchase = {}
  Asked <- MCAsked
  Limit = 1
  Minute = 1
  MaxHops = 2
  MaxRequests = 3
  MaxTime = 2
  Offsets = {0, 1}
INVARIANTS
  TypeOK
  NothingRefusedIsSent
  MinuteHoldsLimit
PROPERTIES
  RefusalsAreDue
  ServerGetsThrough
CHECK_DEADLOCK FALSE
