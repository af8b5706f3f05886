SPECIFICATION ShopSpec
CONSTANTS
  jane = jane
  Person = {jane, john}
  Nobody = Nobody
  MaxClock = 1
  Product = {p}
  Stock = 1
  Slot = {s1, s2}
  SeedOwner <- SeedOwners
  FirstNumber = 3
  MaxSeq = 3
  MaxCalls = 3
  Item = {i}
  Catalogue = {}
  MockWishes <- NoWishes
  Term = {t1, t2}
  MaxTimers = 2
SYMMETRY Symmetry
INVARIANTS ShopTypeOK SessionAgrees TableSound ShownViaMode
  BrowseSound
