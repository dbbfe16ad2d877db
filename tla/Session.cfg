\* Conversations of two or three inputs: messages, consults, a notice, /stop, /clear and
\* /resume, with an approval, dying app-servers, a recovery turn and a crash, under fairness.
CONSTANTS
  m1 = m1
  m2 = m2
  a1 = a1
  c1 = c1
  n1 = n1
  s1 = s1
  r1 = r1
  p1 = p1
  q1 = q1
  None = None
  Messages = {m1, m2, a1}
  Answers = {a1}
  Consults = {c1}
  Notices = {n1}
  Stops = {s1}
  Resets = {r1}
  Resumes = {p1}
  Questions = {q1}
  Scenarios = {{m1, a1, s1}, {r1, m1}, {r1, c1}, {m1, m2}, {m2, n1}, {c1, s1}, {m1, c1}, {p1, m1}, {p1, a1}}
  MaxHosts = 2
  MaxRecoveries = 1
  Retried = {m2}
  MaxCrashes = 1
  ContextWriteFails = TRUE
SPECIFICATION FairSpec
INVARIANTS HostsAreOwned OneConversation
PROPERTIES OnlyLiveTurnsAct EveryTurnSettles
