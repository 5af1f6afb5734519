SPECIFICATION Spec
CONSTANTS
  acme = acme
  base = base
  corp = corp
  sole = sole
  eve = eve
  sam = sam
  s1 = s1
  s2 = s2
  s3 = s3
  s4 = s4
  e1 = e1
  e2 = e2
  ivy = ivy
  v = v
  w = w
  c1 = c1
  c2 = c2
  Orgs = {acme, base, corp, sole}
  Emails = {eve, sam, ivy}
  Roles = {"admin", "warehouse_manager", "salesperson"}
  NoInvite = NoInvite
  Nobody = Nobody
  Founder = Founder
  OpeningRole = "salesperson"
  Inactive = {ivy}
  OpeningUsers = {sam, ivy}
  OpeningMembers <- SamBase
  Invites = {s1, s2, s3, s4, e1, e2, v, w}
  Calls = {c1}
  Invited <- MCInvited
  Commands <- OneCommand
  Opening = {}
  Lifetime = 1
  Horizon = 0
CHECK_DEADLOCK FALSE
INVARIANT
  OnePending
