SPECIFICATION Spec
CONSTANTS
  AddressBits = 4
  ByteBits = 2
  MaskModulus = 8
  NoVerdict = NoVerdict
  File <- MCFile
  Spelling <- MCSpelling
  lowercase <- MCLowercase
  Unreadable = Unreadable
  Absent = Absent
  Mistyped = Mistyped
  Skipped = Skipped
  Broken = Broken
  Unnamed = Unnamed
  urldefault = urldefault
  am_default = am_default
  ens34 = ens34
  ProfileName = {p, q, r1, urldefault, am_default}
  ProfileList = {d1, d2, h1, h2}
  ens37 = ens37
  r1 = r1
  r2 = r2
  p = p
  q = q
  d1 = d1
  d2 = d2
  h1 = h1
  h2 = h2
CHECK_DEADLOCK FALSE
INVARIANTS TypeOK FirstEntryDecides ProfilesAreAttached
