SPECIFICATION Spec
CONSTANTS
  Numbers <- MCNumbers
  Ranges <- MCRanges
  MaxAsn = 100000
  ExactFields <- MCExactFields
  Proposals <- MCProposals
  MaxDepth = 2
INVARIANT TestedSentencesGetQueries
CHECK_DEADLOCK FALSE
