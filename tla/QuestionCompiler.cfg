SPECIFICATION Spec
CONSTANTS
  Numbers <- MCNumbers
  Ranges <- MCRanges
  MaxAsn = 100000
  ExactFields <- MCExactFields
  Proposals <- MCProposals
  MaxDepth = 2
INVARIANTS
  TypeOK OutcomeFits QueriesMatchSentences ContradictionsAreReal GroupingIsChecked
  RulesFailOnPredicatesOnly
CHECK_DEADLOCK FALSE
