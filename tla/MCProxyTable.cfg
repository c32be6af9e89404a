SPECIFICATION Spec
CONSTANTS
  v4 = v4
  v6 = v6
  app = app
  other = other
  AnyValue = AnyValue
  V4 = {v4}
  V6 = {v6}
  ServerPort = {1080}
  ClientPort = {50000}
  LocalPort = {5001, 5002, 5003}
  Names = {app, other}
  Paths = {"browser", "proxifyre", "unproxied"}
  InPath <- MCInPath
  MaxProxies = 3
  MAX_STATIC_FILTERS = 9
\* The start is over.
CHECK_DEADLOCK FALSE
INVARIANTS RedirectsRight
