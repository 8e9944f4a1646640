\* Two tabs of one browser refresh, sign out and sign in; connections break
\* and a tab is reloaded.
SPECIFICATION Spec
CONSTANTS
  Nil = Nil
  A = A  B = B  a1 = a1  a2 = a2  b1 = b1
  Tabs = {A, B}
  Calls = {a1, a2, b1}
  TabOf <- MCTabOf
  MaxEvents = 4
INVARIANTS
  TypeOK
  PromiseIsShared
  StoredTokenIsAlive
  KickedOutByOthers
PROPERTIES
  SignedOutForAReason
  CallsSettle
