SPECIFICATION Spec
CONSTANTS
    Bar <- MCBar
    MinCache = 1
    Grace = 1
    MaxLag = 2
    MaxSilence = 14
INVARIANTS TypeOK ReplacedSoon NeverForming PairIsFresh
