SPECIFICATION Spec
CONSTANTS
  None = none_
  none_ = none_
  en = en
  ru = ru
  empty = empty
  t1 = t1
  t2 = t2
  t12 = t12
  Locales = {en, ru}
  Texts = {empty, t1, t2, t12}
  KeysOf <- McKeysOf
  Empty = empty
  Schedulers = {s1, s2}
  s1 = s1
  s2 = s2
  MaxActs = 3
  MaxTroubles = 1
  Scenarios <- McScenarios
INVARIANTS
  TypeOK
  LedgerIsTrue
PROPERTIES
  Converges
