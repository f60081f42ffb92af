\* Two calls and two login requests; every page with two databases, two boxes
\* and two requests under way; two databases that count to two.
SPECIFICATION WebSpec
CONSTANTS
  Call = {q1, q2}
  Start = start
  Nobody = nobody
  Sid = {a, b}
  NoSid = nosid
  Submit = {s1, s2}
  TTL = 1
  Box = {b1, b2}
  NoBox = nobox
  Page = {"vacuum", "locks", "s3", "jobs", "extensions", "indexes",
          "queries", "planner", "drift", "roles", "config",
          "server", "pgbouncer"}
  Key1 = k1
  Key2 = k2
  Unkeyed = unkeyed
  MaxVisits = 2
  MaxAsks = 2
  Db = {d1, d2}
  Stream = {w1}
  Http = http
  MaxTime = 2
  MaxCount = 2
  MaxPoints = 2
  MaxWay = 2
INVARIANTS
  WebTypeOK
  CallsExplained
  ShownExplained
  DeedsExplained
  RatesExplained
PROPERTIES
  LoginSteps
CONSTRAINT OneBoxOnVacuum
CHECK_DEADLOCK FALSE
