CONSTANT MaxQueue = 2
SPECIFICATION Spec
INVARIANTS TypeOK TudExclusive CardHasOneUser OneShotTimer
PROPERTY EventsServed
