CONSTANTS
  Environments <- TracemeHosts
  MaxChain = 2
SPECIFICATION Spec
INVARIANT TranslatedOnce
