CONSTANTS
  alice = alice
  bob = bob
  me = me
  other = other
  location = location
  billing = billing
  research = research
  unset = unset
  Unset = unset
  Consumer = me
  Authorities <- MCAuthorities
  Replies <- MCReplies
  MaxOwners = 2
SPECIFICATION Spec
INVARIANTS
  EnforcedDecisionIsRecorded
