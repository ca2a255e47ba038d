SPECIFICATION Spec
CONSTANTS
  Users <- MCUsers
  Tokens = {1, 2}
  Languages = {"ja", "ko"}
  RoleOf <- MCRoleOf
  PlatformOf <- MCPlatformOf
  FirstPrimary = "ja"
  FirstPresets <- MCPresets
  TermIntents <- MCTermIntents
  MaxTerms = 2
  MaxVersions = 4
  MaxPresets = 2
  Original <- MCOriginal
  Preference <- MCPreference
  Capacity = 2
  MaxEntry = 2
INVARIANT GlossarySound
INVARIANT HistoryTells
INVARIANT SecretsStay
INVARIANT AnswersFit
PROPERTY ImportExact
PROPERTY StreamEnds
