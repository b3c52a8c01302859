\* Two providers, two requests at a time, a window of two outcomes that counts once it
\* is full.  One success in two keeps a provider in, none throws it out.
SPECIFICATION Spec
CONSTANTS
  Provider = {p1, p2}
  Window = 2
  MinAttempts = 2
  Tenth = 10
  Request = {r1, r2}
  MaxChain = 2
PROPERTIES
  ImplementsWindow
  DeadProviderIsShed
