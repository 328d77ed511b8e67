CONSTANTS
    NoData = NoData
    Areas = {"receipts"}
    Receipts = {r1, r2}
    NoReceipt = NoReceipt
    History = History
    Bin = Bin
    Stored0 = {r2}
    MaxReceiptActs = 5
    MaxReceiptFaults = 1
    MaxItems = 4
    Lines = {1, 2, 3, 4}
    Owner0 <- BoughtAs
    Called <- Names
    Asked0 <- Raised
    MaxSplits = 2
    MaxItemActs = 3
    MaxItemFaults = 1
    Stores = {"aldi", "lidl", "rewe"}
    Categories = {"fruit"}
    Flags = {"fifty", "summary"}
    MaxAlertActs = 3
    MaxAlertFaults = 1
    BuiltIn = {"dairy"}
    Own = {"own"}
    CategoryNames = {"tea", "soy"}
    Own0 = {"own"}
    MaxCustom = 1
    MaxBudgetActs = 4
    MaxBudgetFaults = 1
    Emails = {"mine", "listed"}
    Listed = {"listed"}
    MaxPeople = 2
    ClaimDays = 2
    RetryDays = 2
    MaxAccountActs = 4
    MaxAccountFaults = 1
    MaxDays = 2
    Now = 2
    Bought = {1}
    MaxPlanActs = 4
    MaxPlanFaults = 1
    Months = 14
    LONG = 3
    SHORT = 1
    START_DAY = 2
    WINDOW_DAYS = 4
    Offered <- Milk
    BuyDays = {1, 14, 20, 25, 27}
    FirstDay = 25
    LastDay = 27
    MaxPurchases = 4
    Cap = 300
SPECIFICATION Spec
INVARIANT SavesTheReceiptOpened
CHECK_DEADLOCK FALSE
