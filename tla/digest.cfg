\* Both engines: two runs that may overlap, one of which may hang, and two recipients;
\* a person with up to three sign-ups and grants.  Two times are enough for an event
\* to lie before, at or after a stamp; the 24 hours of a first digest reach back from
\* the second to the first.
CONSTANTS
  People = {ann}
  Recipients = {1, 2}
  Runs = {1, 2}
  MaxClock = 1
  MaxWrites = 3
  Second = 1
  Day = 1
  MaxFaults = 1
SPECIFICATION FairSpec
INVARIANTS TypeOK LossesExplained OnceUnlessRetried
PROPERTY EverythingReported
