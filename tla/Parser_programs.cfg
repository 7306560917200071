\* Every list of up to MaxTokens tokens.
CONSTANTS
  MaxTokens = 24
  NoToken = NoToken
SPECIFICATION Spec
INVARIANTS TypeOK FollowsEveryDerivation ErrorsAreReal NeverAborts
PROPERTIES Terminates
CHECK_DEADLOCK FALSE
