SPECIFICATION Spec
CONSTANTS
  Self = n1
  Peers = {n2, n3}
  ClusterSizes = {0, 2}
  NoNode = NoNode
  MaxRpcTerm = 2
  MaxElections = 2
  MaxQueue = 2
INVARIANTS OneVotePerTerm CandidateOwnsVote
PROPERTIES TermsAndVotesStick
