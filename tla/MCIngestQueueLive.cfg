CONSTANTS
    j1 = j1
    r1 = r1
    r2 = r2
    r3 = r3
    org1 = org1
    org2 = org2
    Jobs = {j1, j2}
    Rows = {r1, r3}
    JobOf <- MCJobOf
    Orgs = {org1, org2}
    OrgOf <- MCOrgOf
    Ticks = {t1}
    TickRows = 2
    Rejected = {}
    MaxDeaths = 1
    NoRow = NoRow
    NoJob = NoJob
SPECIFICATION FairSpec
PROPERTIES
    RowsSettle
    ResumedCompletes
