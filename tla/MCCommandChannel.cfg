\* Two exchanges side by side, each with a port of its own.
CONSTANTS
  NumToggles = 2
  MaxCommands = 2
  Ports = {1024, 1025}
  MaxCopies = 0
SPECIFICATION FairSpec
INVARIANTS
  AnswerMeansObeyed
  LatestPrevails
PROPERTY ExchangeConcludes
