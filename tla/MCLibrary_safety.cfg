SPECIFICATION BothSpec
CONSTANTS
  u1 = u1
  u2 = u2
  u3 = u3
  A = A
  s1 = s1
  s2 = s2
  v1 = v1
  v2 = v2
  n1 = n1
  n2 = n2
  slug = slug
  None = None
  Edited = Edited
  Uploads = {u1, u2, u3}
  Urls = {A}
  UrlOf <- OneUrl
  TakenAt <- InTurn
  Sessions = {s1, s2}
  MaxClock = 5
  Users = {v1, v2}
  Requests = {r1}
  Starts <- MCStarts
  Names = {n1, n2}
  SlugOf <- MCSlugOf
  Nobody = Nobody
  NoSlug = NoSlug
  MaxRows = 5
  Tagged = {1}
SYMMETRY Symmetry
INVARIANTS NoEmptyPageInv LatestCoversCaptures FaviconOfSurvivor RelationsJoinOwn
PROPERTIES OnlyNamedDeleted OnlyOwnRelations
CHECK_DEADLOCK FALSE
