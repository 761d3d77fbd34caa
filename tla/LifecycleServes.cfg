\* The web server is not reached while the IMCS session lasts.
CONSTANTS
  Requests = {r1}
  Freqs = {250}
  DefaultFreq = 250
  MaxInterrupts = 0
SPECIFICATION FairSpec
PROPERTIES
  ServesMaps
\* The process ends.
CHECK_DEADLOCK FALSE
