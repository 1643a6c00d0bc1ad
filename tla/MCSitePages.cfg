\* Every page in turn.
CONSTANTS
  Mounted = {"register", "postings", "detail", "overview", "roles", "table", "router"}
  \* Two records and a third id to rename them to.
  RowIds = {1, 2, 3}
  LoadedRows = {1, 2}
  RowValues = {"x"}
  NoRecord = NoRecord
  MaxEdits = 2
  MaxRowCalls = 2
  \* A posting and its copy, in two years.
  Originals = {"p"}
  MaxCopies = 1
  Years = {1, 2}
  Texts = {"t"}
  NoContent = NoContent
  MaxPostingsLoads = 2
  MaxWrites = 2
  MaxTurns = 1
  \* Two records and a form for a new one, two pages opened one after the other.
  RecordIds = {"i1", "i2"}
  New = "new"
  List = "list"
  LoadedRecords = {"i1", "i2"}
  Values = {"x", "y"}
  NoValue = NoValue
  MaxOpens = 2
  MaxFormCalls = 2
  MaxFormLoads = 2
  \* The overview of two years.
  OverviewYears = {1, 2}
  Names = {1, 2, 3, 4}
  Overviews <- AllOverviews
  MaxOverviews = 2
  MaxChoices = 1
  \* Two roles, a person and a permission that ADMIN must keep; the page may be left,
  \* opened again and saved.
  Roles = {"admin", "board"}
  AdminRole = "admin"
  People = {"p"}
  Codes = {"c"}
  Required = {"c"}
  MaxMoves = 3
  MaxSaves = 1
  \* Five rows on pages of one, two, ten or twenty-five.
  Items = {1, 2, 3, 4, 5}
  Searches = {{1, 2, 3, 4, 5}, {1, 3}}
  PageSizes = {1, 2, 10, 25}
  \* Users with every single permission and some pairs.
  Segments = {"1", "Expanded", "Messages", "Role", "Update", "Users", "account", "admin", "budgets",
              "chart-of-accounts", "csv-import", "edit", "events", "finance", "login", "manage",
              "messages", "new", "news", "pay", "posting-groups", "postings", "products", "r",
              "register", "roles", "subscription", "subscriptions", "templates", "users"}
  Numbers = {"1"}
  Users = {{}, {"content"}, {"registrations"}, {"templates"}, {"messages"}, {"roles"},
           {"financeView"}, {"financeEdit"}, {"payments"}, {"templates", "financeView"},
           {"payments", "financeEdit"}, {"registrations", "financeEdit"},
           {"content", "registrations", "templates", "messages", "roles", "financeView",
            "financeEdit", "payments"}}
  MaxHistory = 2
SPECIFICATION Spec
INVARIANTS
  TypeOK
  BudgetRowsAreStored
  TableShowsTheYear
  WritesItsOwnRecord
  FormulasMatchValues
  PageAddsUpToTheBook
  PageShowsTheRole
  EveryMatchIsFound
  GateAndPageAgree
  MenuItemsLeadSomewhere
PROPERTIES
  TypedEditsSurvive
  OnlyToggledPeopleMove
CHECK_DEADLOCK FALSE
