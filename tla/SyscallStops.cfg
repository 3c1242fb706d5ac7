CONSTANTS
  Environments <- MCHosts
  MaxChain = 2
SPECIFICATION Spec
INVARIANTS StagesAgree TranslatedOnce FakedResultKept
