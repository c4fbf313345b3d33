SPECIFICATION Spec
CONSTANT Txn <- Connections
INVARIANTS
  LocksAreEnough
  DeadlockOnlyWhenReleased
PROPERTIES
  TransactionsAreAtomic
  EveryTransactionEnds
