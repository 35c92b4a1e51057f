CONSTANTS
  MaxPrompts = 2
  MaxStarts = 2
  MaxAsks = 1
  ChannelScenes <- Scenes
SPECIFICATION ChannelSpec
INVARIANTS
  AnsweredByWork
  GrantedByUser
  UpdatesAttributed
PROPERTIES
  PromptsAnswered
CHECK_DEADLOCK FALSE
