CONSTANTS
  tg = tg
  goog = goog
  mail = mail
  k1 = k1
  k2 = k2
  fav = fav
  Nobody = Nobody
  Free = Free
  Anonymous = Anonymous
  Users <- MCUsers
  Calls <- MCCalls
  Kind <- MCKind
  Guest <- MCGuest
  Fresh <- MCFresh
  Claims <- MCClaims
  Telegrams = {tg}
  Googles = {goog}
  Mails = {mail}
  Codes = {k1, k2}
  CodeOf <- MCCodeOf
  GuestOfCode <- MCGuestOfCode
  Items = {fav}
  Collectors = {1}
  InitialOwners <- MCOwners
  Together <- MCTogether
SPECIFICATION LinkSpec
CHECK_DEADLOCK FALSE
INVARIANTS
  LinkTypeOK
  LinkedAsTold
  NoCircleOfLinks
