SPECIFICATION Spec
CONSTANT Walks <- SomeWalks
INVARIANTS CountIsDate ReadsRealDates FieldsShowClock TextComesBack FitsUnlessZone
CHECK_DEADLOCK FALSE
