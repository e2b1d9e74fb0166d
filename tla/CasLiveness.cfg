SPECIFICATION FairSpec
CONSTANTS
  a = a
  b = b
  a1 = a1
  a2 = a2
  b1 = b1
  joining = joining
  None = None
  IDs = {a, b}
  Procs = {a1, b1}
  IdOf <- TwoWearOneID
  Predecessor <- SecondReplacesFirst
  RoleBits = {joining}
  RoleJoining = joining
  InitialRoles = {{joining}}
  WantRoles = {{}, {joining}}
  RoleThreads = {"role1", "role2"}
  Configs <- LivenessConfigs
PROPERTIES DeadMemberLeavesView  RolesConverge
CHECK_DEADLOCK FALSE
