SPECIFICATION Spec
CONSTANTS
  NumWords = 2
  WordDigits = 4
  Radix = 2
  Base = 16
  MaxTexts <- SmallMaxTexts
  Divisors = {1, 3, 4, 16}
  PoolTexts <- SmallPoolTexts
  Digests <- AllDigests
  Nonces <- SmallNonces
  Mixes <- SmallMixes
  Headers <- SmallHeaders
  CharZero = 2
INVARIANT
  HeaderReadBack
