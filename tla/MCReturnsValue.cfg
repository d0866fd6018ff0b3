CONSTANTS
    c1 = c1
    c2 = c2
    None = None
    Void = None
    Absent = None
    Unset = None
    Missing = None
    Nil = None
    Blank = None
    Requesters = {c1, c2}
    PlatformCommands <- MCPlatformCommands
    Requests <- MCRequests
    Clients = {c1, c2}
    Commands <- AllCommands
    Operations = {"a", "b", "c", "d", "e"}
    Accounts = {1, 2}
    Cash = 1
    Names = {"bank"}
    Periods = {"may"}
    Amounts <- MCAmounts
    Customers = {"k", "l"}
    CustomerOps = {1, 2, 3, 4, 5, 6}
    CreditLimit = 4
    Suppliers = {"s", "t"}
    SupplierOps = {1, 2, 3, 4, 5, 6}
    ExpenseOps = {1, 2, 3, 4, 5, 6}
    ExpenseIds = {"x", "y", "z"}
    Categories = {"rent"}
    StockOps = {1, 2, 3, 4, 5, 6}
    Goods = {"tea", "rice", "ice"}
    Tracked = {"tea", "rice"}
    StockUnits <- MCUnits
    MasterOps = {1, 2, 3, 4, 5, 6}
    MasterCommands <- MCMasterCommands
    RowIds <- MCRows
    KindOf <- MCKinds
    InDebt = {"s2"}
    Collapse <- MCCollapse
    Fold <- MCFold
    Callers = {c1, c2}
    ClaimedOps = {1}
    ListIds = {1, 2, 3, 4}
    RowNames = {1, 2, 3}
    Instants <- MCInstants
    MaxListWrites = 2
    MaxShown = 5
    MaxChanges = 2
    MaxMarks = 1
    MaxTicks = 1
    KeptTicks = 0
    DeleteLimit = 1
    Attached = {1, 2}
    Parents = {"k"}
    MaxActive = 1
    OrphanRetention = 1
    RemovedRetention = 2
    MaxDay = 3
    PointIds = {1, 2}
    Jobs = {c1, c2}
    DaysOfMonth = 2
    DailyRetention = 1
    MonthlyRetention = 3
    CopyGrace = 1
    MaxJobs = 3
    PlanDays = 1
    LicenseDays = 2
    LastDay = 2
SYMMETRY Symmetry
SPECIFICATION MCSpec
INVARIANT ReturnsWithinValue
