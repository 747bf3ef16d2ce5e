CONSTANTS
  t1 = t1
  t2 = t2
  c1 = c1
  c2 = c2
  read = read
  question = question
  upload = upload
  Tenants = {t1, t2}
  Connections = {c1, c2}
  Logins = {}
  Reads = {}
  Questions = {question}
  Uploads = {upload}
  Tenant <- MCTenant
  Unscoped = Unscoped
  NoConnection = NoConnection
SPECIFICATION Spec
INVARIANT RequestIsTornDown
\* Every request has been answered: nothing is left to do.
CHECK_DEADLOCK FALSE
