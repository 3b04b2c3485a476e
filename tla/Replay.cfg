SPECIFICATION FairSpec
CONSTANT MaxRecords = 3
INVARIANT ShowsTheRecord
PROPERTY PlaybackStops
