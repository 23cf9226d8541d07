\* Two chains that grow to five.
SPECIFICATION Spec
CONSTANTS
  Nodes <- SixNodes
  Primes <- SmallPrimes
INVARIANTS LookupComplete CountIsExact IterationExact
PROPERTIES MultimapSpec
