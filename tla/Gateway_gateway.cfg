SPECIFICATION FairSpec
CONSTANTS
  None = None
  ann = ann
  receipt = receipt
  Users = {ann}
  Orgs = {"nil"}
  Apps = {"shop", "till"}
  Roles = {"owner", "clerk"}
  Requests = {p, q}
  Permissions = {"*", "read"}
  EndpointWrite = "*"
  UserWrite = "*"
  Matched <- Patterns
  RolePermissions <- RoleRows
  OrgOf <- OneOrg
  Administrators <- Owner
  Endpoints = {e}
  Policies = {w}
  Records = {receipt, s}
  StartRecords <- OneOrder
  Tables = {"orders", "users"}
  AllowedTables = {"orders", "users"}
  DeniedTables = {"users"}
  Elsewhere = Elsewhere
  Definitions <- SixDefinitions
  Rules <- OneRule
  MaxCount = 2
PROPERTIES TenantIsolation WithinLimit AssignmentsTakeEffect
