SPECIFICATION Spec
CONSTANT Routes <- AllRoutes
INVARIANTS
  TypeOK
  RefusedHasNoEffect
  SuccessTookEffect
  SuccessHadItsRows
  CachedAnswerWasGranted
  RefusalHasCause
  GoodRequestSucceeds
