SPECIFICATION SkillSpec
CONSTANTS
  s1 = s1
  s2 = s2
  x = x
  y = y
  Skills = {s1, s2}
  Contents = {x, y}
  NameOf <- MCNameOf
  Requests = {q1, q2}
  Runs = {r1}
  Lists <- MCLists
  None = None
  MaxRequests = 4
  MaxRoles = 2
  MaxFaults = 1
INVARIANTS
  StartsResolve
  Downloadable
  AgentHasSkills
CHECK_DEADLOCK FALSE
