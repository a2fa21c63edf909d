SPECIFICATION Spec
CONSTANTS
  log = log
  other = other
  root = root
  copy = copy
  e1 = e1
  e2 = e2
  Middlewares = {log, other}
  LoggingMiddleware = log
  Pipelines = {root, copy}
  Root = root
  Executions = {e1, e2}
  MaxLength = 2
  MaxNext = 2
INVARIANTS OnionOrder ContextPrivate LoggingTransparent
SYMMETRY ExecutionsAlike
CHECK_DEADLOCK FALSE
