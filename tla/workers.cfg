SPECIFICATION Spec
CONSTANTS
  w1 = w1
  w2 = w2
  Junk = Junk
  Absent = Absent
  Drivers = {"harness", "dispatcher", "roles"}
  Agents <- TwoAgents
  Group <- SameGroup
  Anchors <- TwoAnchors
  Spawn = 1
  Threats = {100, 900}
  Answers <- MCAnswers
  Staff <- SixStaff
  MaxStaff = 7
  RoleCooldown = 4
  Distance = 5
  MaxDecisions = 2
  MaxChanges = 2
INVARIANTS
  GuardHolds
  PolicyFollowed
  FightAsHostile
  HarvestPays
PROPERTIES
  RolesSettle
