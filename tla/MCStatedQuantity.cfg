CONSTANTS
  Texts <- MCTexts
  Drafts <- MCDrafts
  Proposals <- MCProposals
  Scores <- MCScores
SPECIFICATION VerifierSpec
INVARIANT StatedQuantityWins
