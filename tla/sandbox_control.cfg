CONSTANTS
  r1 = r1
  r2 = r2
  Runs = {r1, r2}
  Pushes = {p1, p2}
  MaxRuntimes = 2
  Take = 2
  SandboxScenes <- Scenes
SPECIFICATION SandboxSpec
INVARIANTS
  PushByProxy
  NoGhost
CHECK_DEADLOCK FALSE
