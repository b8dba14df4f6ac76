SPECIFICATION VaultFairSpec
INVARIANTS  NothingOutlivesKey
PROPERTIES NoTryWhileWaiting LocksWhenGone
