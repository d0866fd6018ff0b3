------------------------------ MODULE MCBooks ------------------------------
(* The books of a store. A behavior stays at one desk of one domain: the     *)
(* domains share no rows but the operations and the accounts, and a command  *)
(* of a domain takes the shared rows as its own module says.                 *)
EXTENDS MCPostings, MCRequests, MCMasterData, MCExpenses, MCRecoveryPoints, MCListings

CONSTANTS
    Customers, CustomerOps, CreditLimit,
    Suppliers, SupplierOps,
    StockOps, Goods, Tracked, StockUnits,
    MaxChanges, MaxMarks, MaxTicks, KeptTicks, DeleteLimit

VARIABLES
    desk,
    customerOps, customerBooks, returnable,
    supplierOps, supplierBooks,
    stockOps, stockBooks,
    books, alerts, runs, scheduled, open, ticks, changes, marks

Customer == INSTANCE MCCustomers
Supplier == INSTANCE MCSuppliers
Stores == INSTANCE MCStock
Alerts == INSTANCE MCNotifications WITH Runs <- Clients

customerVars == <<customerOps, customerBooks, returnable>>
supplierVars == <<supplierOps, supplierBooks>>
stockVars == <<stockOps, stockBooks>>
alertVars == <<books, alerts, runs, scheduled, open, ticks, changes, marks>>
fileVars == pointsVars
AllVars ==
    <<vars, desk, customerVars, supplierVars, expenseVars, stockVars, masterVars, claimVars,
      listVars, alertVars, fileVars, platformVars>>

AllDesks ==
    {"postings"} \X Desks
      \cup {"customers"} \X Customer!CustomerDesks
      \cup {"suppliers"} \X Supplier!SupplierDesks
      \cup {"expenses"} \X ExpenseDesks
      \cup {"stock"} \X Stores!StockDesks
      \cup {"master data"} \X MasterDesks
      \cup {"claims"} \X ClaimDesks
      \cup {"lists"} \X ListDesks
      \cup {"notifications"} \X Alerts!AlertDesks
      \cup {"points"} \X PointDesks
      \cup {"platform"} \X PlatformDesks

AtDesk(domain) == desk[1] = domain

PostingsServed ==
    /\ AtDesk("postings")
    /\ Serve(CommandsOf(desk[2]))
    /\ UNCHANGED <<desk, customerVars, supplierVars, expenseVars, stockVars, masterVars,
                   claimVars, listVars, alertVars, fileVars, platformVars>>

CustomersServed ==
    /\ AtDesk("customers")
    /\ Customer!ServeCustomers(Customer!CustomerDesk(desk[2]))
    /\ UNCHANGED <<desk, vars, supplierVars, expenseVars, stockVars, masterVars, claimVars,
                   listVars, alertVars, fileVars, platformVars>>

SuppliersServed ==
    /\ AtDesk("suppliers")
    /\ Supplier!ServeSuppliers(Supplier!SupplierDesk(desk[2]))
    /\ UNCHANGED <<desk, vars, customerVars, expenseVars, stockVars, masterVars, claimVars,
                   listVars, alertVars, fileVars, platformVars>>

ExpensesServed ==
    /\ AtDesk("expenses")
    /\ ServeExpenses(ExpenseDesk(desk[2]))
    /\ UNCHANGED <<desk, vars, customerVars, supplierVars, stockVars, masterVars, claimVars,
                   listVars, alertVars, fileVars, platformVars>>

StockServed ==
    /\ AtDesk("stock")
    /\ Stores!ServeStock(Stores!StockDesk(desk[2]))
    /\ UNCHANGED <<desk, vars, customerVars, supplierVars, expenseVars, masterVars, claimVars,
                   listVars, alertVars, fileVars, platformVars>>

MasterDataServed ==
    /\ AtDesk("master data")
    /\ ServeMasterData(MasterDeskOf[desk[2]])
    /\ UNCHANGED <<desk, vars, customerVars, supplierVars, expenseVars, stockVars, claimVars,
                   listVars, alertVars, fileVars, platformVars>>

ClaimsServed ==
    /\ AtDesk("claims")
    /\ ServeClaims(ClaimDeskOf[desk[2]])
    /\ UNCHANGED <<desk, vars, customerVars, supplierVars, expenseVars, stockVars, masterVars,
                   listVars, alertVars, fileVars, platformVars>>

ListingsServed ==
    /\ AtDesk("lists")
    /\ ServeListings
    /\ UNCHANGED <<desk, vars, customerVars, supplierVars, expenseVars, stockVars, masterVars,
                   claimVars, alertVars, fileVars, platformVars>>

NotificationsServed ==
    /\ AtDesk("notifications")
    /\ Alerts!ServeNotifications(desk[2])
    /\ UNCHANGED <<desk, vars, customerVars, supplierVars, expenseVars, stockVars, masterVars,
                   claimVars, listVars, fileVars, platformVars>>

PointsServed ==
    /\ AtDesk("points")
    /\ ServePoints(desk[2])
    /\ UNCHANGED <<desk, vars, customerVars, supplierVars, expenseVars, stockVars, masterVars,
                   claimVars, listVars, alertVars, platformVars>>

PlatformServed ==
    /\ AtDesk("platform")
    /\ ServePlatform(desk[2])
    /\ UNCHANGED <<desk, vars, customerVars, supplierVars, expenseVars, stockVars, masterVars,
                   claimVars, listVars, alertVars, fileVars>>

(* A unit is one of the base, or half of one.                                *)
MCUnits == [u \in {"each", "half"} |-> IF u = "each" THEN <<1, 1>> ELSE <<1, 2>>]

(* The rows of each kind, and the texts: blanks and capitals do not tell.    *)
MCKinds ==
    ("k1" :> "customer") @@ ("k2" :> "customer") @@ ("s1" :> "supplier") @@ ("s2" :> "supplier")
      @@ ("p1" :> "product") @@ ("p2" :> "product") @@ ("u1" :> "unit") @@ ("u2" :> "unit") @@ ("u3" :> "unit")
      @@ ("c1" :> "category") @@ ("store" :> "settings")
MCRows == DOMAIN MCKinds
MCTexts == {None, " ", "tea", "TEA", "bag", " bag", "box", "05", "0 5", "06", "07", "warn", "block"}
MCCollapse == [t \in MCTexts |-> CASE t = " " -> "" [] t = " bag" -> "bag" [] OTHER -> t]
MCFold == [t \in MCTexts |-> CASE t = "TEA" -> "tea" [] t = "0 5" -> "05" [] OTHER -> t]

(* A whole millisecond before the walk, and the one of its writes.           *)
MCInstants == {<<1, 0>>, <<2, 0>>}

MCInit ==
    /\ desk \in AllDesks
    /\ PostingsInit(IF AtDesk("postings") THEN desk[2] ELSE "owner")
    /\ Customer!CustomerInit
    /\ Supplier!SupplierInit
    /\ ExpenseInit
    /\ Stores!StockInit
    /\ MasterInit
    /\ ClaimInit
    /\ StartAt(IF AtDesk("lists") THEN desk[2] ELSE <<"sales", "all", 1>>)
    /\ Alerts!AlertInit(IF AtDesk("notifications") THEN desk[2] ELSE "goods")
    /\ PointDeskInit(IF AtDesk("points") THEN desk[2] ELSE "attachments")
    /\ PlatformDeskInit(IF AtDesk("platform") THEN desk[2] ELSE "foundation")

MCNext ==
    \/ PostingsServed \/ CustomersServed \/ SuppliersServed \/ ExpensesServed
    \/ StockServed \/ MasterDataServed \/ ClaimsServed \/ ListingsServed
    \/ NotificationsServed \/ PointsServed \/ PlatformServed

MCSpec == MCInit /\ [][MCNext]_AllVars

-----------------------------------------------------------------------------
(* The properties of the domains, under names of this module: what is not    *)
(* at the desk stays as it began.                                           *)

(* The books of the customers are sound: see CustomerReads.                  *)
CustomerBooksSound == AtDesk("customers") => Customer!CustomerBooksSound

(* Returns never refund more than the sale: see CustomerAccounts.            *)
ReturnsWithinValue == AtDesk("customers") => Customer!ReturnsWithinValue

(* The receivables of a customer can be listed: see CustomerReads.           *)
ReceivablesReadable == AtDesk("customers") => Customer!ReceivablesReadable

(* The books of the suppliers are sound: see SupplierReads.                  *)
SupplierBooksSound == AtDesk("suppliers") => Supplier!SupplierBooksSound

(* The stock is sound, and a notification tells what the books of the Store  *)
(* held: see Stock and Notifications.                                        *)
StockAndAlertsSound ==
    /\ AtDesk("stock") => Stores!StockSound
    /\ AtDesk("notifications") => Alerts!NotificationsSound
=============================================================================
