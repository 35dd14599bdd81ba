----------------------------- MODULE Deployment -----------------------------
(* The database schema over its revisions, the rights it seeds, and the     *)
(* start of the container: `alembic upgrade head && uvicorn`, then the      *)
(* lifespan with the optional test administrator. Beside it an operator     *)
(* moves the database up and down, and users register.                      *)
(*                                                                          *)
(* A revision is the sequence of statements its file executes. A table is   *)
(* its name and the tables it references; of the rows only those are kept   *)
(* on which a later statement or a request depends.                         *)
EXTENDS Naturals, Sequences

CONSTANTS User,          \* names of accounts
          TestAdmin,     \* settings.TEST_ADMIN_USERNAME
          HandMade,      \* permissions inserted by hand before 9f1c7a4b2d8e
          Goals          \* revisions an operator may name in a command

ASSUME TestAdminIsUser == TestAdmin \in User

-----------------------------------------------------------------------------
(* Statements *)

CreateTable(t)       == [op |-> "create", table |-> t]
DropTable(t)         == [op |-> "drop", table |-> t]
CreateTables(ts)     == [i \in DOMAIN ts |-> CreateTable(ts[i])]
DropTables(ts)       == [i \in DOMAIN ts |-> DropTable(ts[i])]
InsertRoles(rs)      == [op |-> "insert roles", names |-> rs]
DeleteRoles(rs)      == [op |-> "delete roles", names |-> rs]
InsertPermissions(S) == [op |-> "insert permissions", names |-> S]
Revoke(S)            == [op |-> "revoke", names |-> S]
DeletePermissions(S) == [op |-> "delete permissions", names |-> S]
Assign(r, S)         == [op |-> "assign", role |-> r, names |-> S]
AddColumns(defaults) == [op |-> "add columns", defaults |-> defaults]
DropColumns          == [op |-> "drop columns"]

(* The foreign keys of the tables, as the revisions declare them. *)
References(t) ==
    CASE t = "role_permission"        -> {"permissions", "roles"}
      [] t = "user_role"              -> {"roles", "users"}
      [] t = "refresh_tokens"         -> {"users"}
      [] t = "item_attributes"        -> {"items"}
      [] t = "hideout_recipe_items"   -> {"hideout_recipes"}
      [] t = "craft_profit_snapshots" -> {"hideout_recipes"}
      [] t = "user_trade_positions"   -> {"users"}
      [] t = "user_trade_sales"       -> {"user_trade_positions"}
      [] t = "craft_records"          -> {"users"}
      [] t = "craft_sales"            -> {"craft_records"}
      [] OTHER                        -> {}

-----------------------------------------------------------------------------
(* Revisions *)

Up_ceda51d8de79 ==
    CreateTables(<<"permissions", "roles", "users", "role_permission", "user_role">>)
Down_ceda51d8de79 ==
    DropTables(<<"user_role", "role_permission", "users", "roles", "permissions">>)

Up_cff6f6e23123 == CreateTables(<<"refresh_tokens">>)
Down_cff6f6e23123 == DropTables(<<"refresh_tokens">>)

Up_40049f66a7e6 == <<InsertRoles({"user", "admin"})>>
Down_40049f66a7e6 == <<DeleteRoles({"user", "admin"})>>

Up_6d27c8f4a9b1 == CreateTables(<<"items", "item_attributes", "sync_state">>)
Down_6d27c8f4a9b1 == DropTables(<<"sync_state", "item_attributes", "items">>)

Up_916c9994ae6c == <<>>
Down_916c9994ae6c == <<>>

Up_71d4ab3c8f2e ==
    CreateTables(<<"hideout_perks", "hideout_recipes", "hideout_recipe_items">>)
Down_71d4ab3c8f2e ==
    DropTables(<<"hideout_recipe_items", "hideout_recipes", "hideout_perks">>)

USER_PERMISSIONS   == {"profile:read", "auction:read", "items:read", "hideout:read"}
ADMIN_PERMISSIONS  == USER_PERMISSIONS \union {"system:read"}
LEGACY_PERMISSIONS == {"profile", "auction", "items", "hideout", "admin"}

(* Mutation: ordinary users get the permissions of administrators. *)
GrantsAllToUsers ==
    <<InsertPermissions(ADMIN_PERMISSIONS),
      Revoke(LEGACY_PERMISSIONS),
      DeletePermissions(LEGACY_PERMISSIONS),
      Assign("user", ADMIN_PERMISSIONS),
      Assign("admin", ADMIN_PERMISSIONS)>>

Up_9f1c7a4b2d8e ==
    <<InsertPermissions(ADMIN_PERMISSIONS),
      Revoke(LEGACY_PERMISSIONS),
      DeletePermissions(LEGACY_PERMISSIONS),
      Assign("user", USER_PERMISSIONS),
      Assign("admin", ADMIN_PERMISSIONS)>>

(* Mutation: the downgrade takes the role with the permissions. *)
DropsAdminRole ==
    <<Revoke(ADMIN_PERMISSIONS),
      DeletePermissions(ADMIN_PERMISSIONS),
      DeleteRoles({"admin"})>>

Down_9f1c7a4b2d8e ==
    <<Revoke(ADMIN_PERMISSIONS),
      DeletePermissions(ADMIN_PERMISSIONS)>>

Up_2c5f8a0d7e1b ==
    CreateTables(<<"auction_trades", "auction_current_prices", "auction_price_candles",
                   "auction_refresh_queue", "craft_profit_snapshots">>)
Down_2c5f8a0d7e1b ==
    DropTables(<<"craft_profit_snapshots", "auction_refresh_queue",
                 "auction_price_candles", "auction_current_prices", "auction_trades">>)

Up_7f8f5b2f774d == CreateTables(<<"user_trade_positions", "user_trade_sales">>)
Down_7f8f5b2f774d == DropTables(<<"user_trade_sales", "user_trade_positions">>)

(* Mutation: the tables that no model uses any more stay. *)
KeepsTradeTables == <<>>

Up_b9c1d2e3f4a5 == DropTables(<<"user_trade_sales", "user_trade_positions">>)
Down_b9c1d2e3f4a5 == CreateTables(<<"user_trade_positions", "user_trade_sales">>)

TRADING_PERMISSIONS == {"trading:read", "trading:write"}

(* Mutation: only administrators may trade. *)
GrantsTradingToAdmins ==
    CreateTables(<<"craft_records", "craft_sales">>) \o
    <<InsertPermissions(TRADING_PERMISSIONS),
      Assign("admin", TRADING_PERMISSIONS)>>

Up_c8d1e2f3a4b5 ==
    CreateTables(<<"craft_records", "craft_sales">>) \o
    <<InsertPermissions(TRADING_PERMISSIONS),
      Assign("user", TRADING_PERMISSIONS),
      Assign("admin", TRADING_PERMISSIONS)>>
Down_c8d1e2f3a4b5 ==
    <<Revoke(TRADING_PERMISSIONS),
      DeletePermissions(TRADING_PERMISSIONS)>> \o
    DropTables(<<"craft_sales", "craft_records">>)

(* Mutation: required columns are added without a default. *)
AddsWithoutDefault == <<AddColumns(FALSE)>>

(* The lifecycle columns of auction_refresh_queue, three of them NOT NULL. *)
Up_d1e2f3a4b5c6 == <<AddColumns(TRUE)>>
Down_d1e2f3a4b5c6 == <<DropColumns>>

Upgrades ==
    <<Up_ceda51d8de79, Up_cff6f6e23123, Up_40049f66a7e6, Up_6d27c8f4a9b1,
      Up_916c9994ae6c, Up_71d4ab3c8f2e, Up_9f1c7a4b2d8e, Up_2c5f8a0d7e1b,
      Up_7f8f5b2f774d, Up_b9c1d2e3f4a5, Up_c8d1e2f3a4b5, Up_d1e2f3a4b5c6>>

Downgrades ==
    <<Down_ceda51d8de79, Down_cff6f6e23123, Down_40049f66a7e6, Down_6d27c8f4a9b1,
      Down_916c9994ae6c, Down_71d4ab3c8f2e, Down_9f1c7a4b2d8e, Down_2c5f8a0d7e1b,
      Down_7f8f5b2f774d, Down_b9c1d2e3f4a5, Down_c8d1e2f3a4b5, Down_d1e2f3a4b5c6>>

Base      == 0
Newest    == Len(Upgrades)
RolesRev  == 3      \* position of 40049f66a7e6
GrantsRev == 7      \* position of 9f1c7a4b2d8e

ASSUME GoalsAreRevisions == Goals \subseteq Base .. Newest

-----------------------------------------------------------------------------
(* Execution of statements. `ok` is FALSE once the database has refused one; *)
(* the transaction of the command is then rolled back as a whole.            *)

VARIABLES db,        \* what is committed
          work,      \* the transaction of the running alembic command
          runner,    \* who runs a command: "none", "operator" or "container"
          goal,      \* the revision that the command is to reach
          server,    \* the container: down, migrating, starting, serving or failed
          orphans    \* history: accounts made or stripped while roles were absent
vars == <<db, work, runner, goal, server, orphans>>

Empty == [ok |-> TRUE, rev |-> Base, tables |-> {}, lifecycle |-> FALSE, queued |-> FALSE,
          roles |-> {}, perms |-> {}, grants |-> {}, users |-> {}, userRole |-> {}]

RowsOf(r, S)     == {pair \in r : pair[2] \in S}
Without(d, t) ==
    [d EXCEPT !.tables    = @ \ {t},
              !.lifecycle = @ /\ t # "auction_refresh_queue",
              !.queued    = @ /\ t # "auction_refresh_queue",
              !.roles     = IF t = "roles" THEN {} ELSE @,
              !.perms     = IF t = "permissions" THEN {} ELSE @,
              !.grants    = IF t = "role_permission" THEN {} ELSE @,
              !.users     = IF t = "users" THEN {} ELSE @,
              !.userRole  = IF t = "user_role" THEN {} ELSE @]

(* What PostgreSQL demands of a statement, *)
Accepts(d, s) ==
    CASE s.op = "create"       -> s.table \notin d.tables /\ References(s.table) \subseteq d.tables
      [] s.op = "drop"         -> /\ s.table \in d.tables
                                  /\ \A t \in d.tables : s.table \notin References(t)
      [] s.op = "insert roles" -> "roles" \in d.tables /\ s.names \cap d.roles = {}
      [] s.op = "delete roles" -> "roles" \in d.tables
      [] s.op = "assign"       -> /\ "role_permission" \in d.tables
                                  /\ s.role \in d.roles /\ s.names \subseteq d.perms
      [] s.op = "add columns"  -> /\ "auction_refresh_queue" \in d.tables /\ ~d.lifecycle
                                  /\ s.defaults \/ ~d.queued
      [] s.op = "drop columns" -> d.lifecycle
      [] OTHER                 -> {"permissions", "role_permission"} \subseteq d.tables

(* and what the statement does; deletions cascade over the foreign keys. *)
Effect(d, s) ==
    CASE s.op = "create"             -> [d EXCEPT !.tables = @ \union {s.table}]
      [] s.op = "drop"               -> Without(d, s.table)
      [] s.op = "insert roles"       -> [d EXCEPT !.roles = @ \union s.names]
      [] s.op = "delete roles"       ->
            [d EXCEPT !.roles = @ \ s.names,
                      !.grants = @ \ (s.names \X d.perms),
                      !.userRole = @ \ RowsOf(@, s.names)]
      [] s.op = "insert permissions" -> [d EXCEPT !.perms = @ \union s.names]
      [] s.op = "revoke"             -> [d EXCEPT !.grants = @ \ RowsOf(@, s.names)]
      [] s.op = "delete permissions" ->
            [d EXCEPT !.perms = @ \ s.names, !.grants = @ \ RowsOf(@, s.names)]
      [] s.op = "assign"             -> [d EXCEPT !.grants = @ \union ({s.role} \X s.names)]
      [] s.op = "add columns"        -> [d EXCEPT !.lifecycle = TRUE]
      [] s.op = "drop columns"       -> [d EXCEPT !.lifecycle = FALSE]

Execute(d, s) == IF d.ok /\ Accepts(d, s) THEN Effect(d, s) ELSE [d EXCEPT !.ok = FALSE]

(* The database after so many statements of a revision. *)
After(d, revision) ==
    LET after[n \in 0 .. Len(revision)] ==
          IF n = 0 THEN d ELSE Execute(after[n - 1], revision[n])
    IN after

Apply(d, revision, rev) == [After(d, revision)[Len(revision)] EXCEPT !.rev = rev]

-----------------------------------------------------------------------------
(* Commands: env.py runs all revisions of a command in one transaction. *)

Begin(who, rev) ==
    /\ runner = "none"
    /\ runner' = who
    /\ goal' = rev
    /\ work' = db

EndCommand == runner' = "none" /\ goal' = Base /\ work' = Empty

OperatorCommand ==
    /\ \E rev \in Goals \ {db.rev} : Begin("operator", rev)
    /\ UNCHANGED <<db, server, orphans>>

StartContainer ==
    /\ server \in {"down", "failed"}
    /\ Begin("container", Newest)
    /\ server' = "migrating"
    /\ UNCHANGED <<db, orphans>>

UpgradeOne ==
    /\ runner # "none" /\ work.ok
    /\ work.rev < goal
    /\ work' = Apply(work, Upgrades[work.rev + 1], work.rev + 1)
    /\ UNCHANGED <<db, runner, goal, server, orphans>>

DowngradeOne ==
    /\ runner # "none" /\ work.ok
    /\ work.rev > goal
    /\ work' = Apply(work, Downgrades[work.rev], work.rev - 1)
    /\ UNCHANGED <<db, runner, goal, server, orphans>>

(* Accounts that lose a role only do so below the revision that seeds them. *)
Commit ==
    /\ runner # "none" /\ work.ok
    /\ work.rev = goal
    /\ db' = work
    /\ orphans' = IF goal < RolesRev THEN work.users ELSE orphans
    /\ server' = IF runner = "container" THEN "starting" ELSE server
    /\ EndCommand

(* A refused statement, or the command is killed: `&&` then starts nothing. *)
RollBack ==
    /\ runner # "none"
    /\ EndCommand
    /\ server' = IF runner = "container" THEN "failed" ELSE server
    /\ UNCHANGED <<db, orphans>>

-----------------------------------------------------------------------------
(* The process. Its transactions and a command exclude each other: they      *)
(* lock the same tables or rows, so the statements of a request stand        *)
(* before or after the command.                                              *)

RbacTables == {"users", "roles", "user_role", "permissions", "role_permission"}
Usable     == runner = "none" /\ RbacTables \subseteq db.tables

(* Mutation: the roles of the account are replaced. *)
ReplacesRoles(d) ==
    [d EXCEPT !.users = @ \union {TestAdmin},
              !.userRole = {row \in @ : row[1] # TestAdmin} \union {<<TestAdmin, "admin">>}]

ensure_test_admin(d) ==
    [d EXCEPT !.users = @ \union {TestAdmin},
              !.userRole = @ \union {<<TestAdmin, "admin">>}]

(* lifespan without TEST_AUTO_LOGIN, *)
StartServing ==
    /\ server = "starting"
    /\ server' = "serving"
    /\ UNCHANGED <<db, work, runner, goal, orphans>>

(* and with it: the account exists and is an administrator, *)
SeedTestAdmin ==
    /\ server = "starting" /\ Usable
    /\ "admin" \in db.roles
    /\ db' = ensure_test_admin(db)
    /\ orphans' = orphans \ {TestAdmin}
    /\ server' = "serving"
    /\ UNCHANGED <<work, runner, goal>>

(* or a table or the role is not there, and the application does not start. *)
StartRaises ==
    /\ server = "starting" /\ runner = "none"
    /\ ~(Usable /\ "admin" \in db.roles)
    /\ server' = "failed"
    /\ UNCHANGED <<db, work, runner, goal, orphans>>

(* Mutation: a role that is not there is assigned too. *)
AssumedRole == {"user"}

DefaultRole == {"user"} \cap db.roles

create_user(u) ==
    /\ server = "serving" /\ Usable
    /\ u \notin db.users
    /\ db' = [db EXCEPT !.users = @ \union {u}, !.userRole = @ \union ({u} \X DefaultRole)]
    /\ orphans' = IF DefaultRole = {} THEN orphans \union {u} ELSE orphans
    /\ UNCHANGED <<work, runner, goal, server>>

(* The auction synchronisation adds rows with all columns to its queue. *)
seed_refresh_queue ==
    /\ server = "serving" /\ runner = "none"
    /\ db.lifecycle
    /\ db' = [db EXCEPT !.queued = TRUE]
    /\ UNCHANGED <<work, runner, goal, server, orphans>>

(* Before 9f1c7a4b2d8e permissions were inserted by hand, with names that it *)
(* cleans up or that it seeds itself.                                        *)
GrantByHand(p) ==
    /\ Usable /\ "user" \in db.roles
    /\ db.rev < GrantsRev
    /\ db' = [db EXCEPT !.perms = @ \union {p}, !.grants = @ \union {<<"user", p>>}]
    /\ UNCHANGED <<work, runner, goal, server, orphans>>

(* Shut-down or death of the container, with its command. *)
Stop ==
    /\ server \in {"migrating", "starting", "serving"}
    /\ server' = "down"
    /\ IF runner = "container" THEN EndCommand ELSE UNCHANGED <<work, runner, goal>>
    /\ UNCHANGED <<db, orphans>>

Init ==
    /\ db = Empty /\ work = Empty
    /\ runner = "none" /\ goal = Base
    /\ server = "down"
    /\ orphans = {}

Next ==
    \/ OperatorCommand \/ StartContainer
    \/ UpgradeOne \/ DowngradeOne \/ Commit \/ RollBack
    \/ StartServing \/ SeedTestAdmin \/ StartRaises
    \/ \E u \in User : create_user(u)
    \/ seed_refresh_queue
    \/ \E p \in HandMade : GrantByHand(p)
    \/ Stop

Spec == Init /\ [][Next]_vars

-----------------------------------------------------------------------------
(* Permissions *)

get_user_permission_names(d, u) ==
    {pair[2] : pair \in {g \in d.grants : <<u, g[1]>> \in d.userRole}}
user_has_permissions(d, u, required) == required \subseteq get_user_permission_names(d, u)

(* What the dependencies of the endpoints require. *)
ItemMarketAccess   == {"items:read", "auction:read"}
CraftMarketAccess  == {"hideout:read", "auction:read"}
TradingReadAccess  == {"trading:read"}
TradingWriteAccess == {"trading:write"}
Accesses == {ItemMarketAccess, CraftMarketAccess, TradingReadAccess, TradingWriteAccess}

(* The tables of the models (db/base_models.py). *)
ModelTables ==
    RbacTables \union
    {"refresh_tokens", "items", "item_attributes", "sync_state", "hideout_perks",
     "hideout_recipes", "hideout_recipe_items", "auction_trades", "auction_current_prices",
     "auction_price_candles", "auction_refresh_queue", "craft_profit_snapshots",
     "craft_records", "craft_sales"}

-----------------------------------------------------------------------------
(* Properties *)

Schemas ==
    [ok : BOOLEAN, rev : Base .. Newest,
     tables : SUBSET (ModelTables \union {"user_trade_positions", "user_trade_sales"}),
     lifecycle : BOOLEAN, queued : BOOLEAN,
     roles : SUBSET {"user", "admin"},
     perms : SUBSET (ADMIN_PERMISSIONS \union TRADING_PERMISSIONS \union HandMade),
     grants : SUBSET ({"user", "admin"} \X (ADMIN_PERMISSIONS \union TRADING_PERMISSIONS \union HandMade)),
     users : SUBSET User, userRole : SUBSET (User \X {"user", "admin"})]

(* Types, and every row refers to rows that exist. *)
TypeInv ==
    /\ db \in Schemas /\ work \in Schemas
    /\ runner \in {"none", "operator", "container"}
    /\ goal \in Base .. Newest
    /\ server \in {"down", "migrating", "starting", "serving", "failed"}
    /\ orphans \subseteq db.users
    /\ \A row \in db.userRole : row[1] \in db.users /\ row[2] \in db.roles
    /\ \A row \in db.grants : row[1] \in db.roles /\ row[2] \in db.perms

(* Whatever commands ran before and whatever rows were stored between them,  *)
(* no statement of a revision is refused: tables are created after and       *)
(* dropped before those they reference, required columns fit the rows that   *)
(* are there, the roles of a grant exist.                                    *)
CommandsGoThrough == work.ok /\ db.ok

(* At the newest revision there are exactly the tables of the models, with   *)
(* the columns the synchronisation writes, and at the base none, also after  *)
(* going down and up again.                                                  *)
SchemaMatchesModels ==
    /\ db.rev = Newest => db.tables = ModelTables /\ db.lifecycle
    /\ db.rev = Base => db = Empty

(* At the newest revision every account may use every endpoint, unless the   *)
(* roles were absent when it was made or have been removed under it.         *)
EveryoneServed ==
    db.rev = Newest =>
        \A u \in db.users \ orphans, access \in Accesses : user_has_permissions(db, u, access)

(* The status of the system is for administrators, at every revision. *)
SystemReadForAdministrators ==
    \A u \in db.users :
        user_has_permissions(db, u, {"system:read"}) => <<u, "admin">> \in db.userRole

(* An account loses a role only with a downgrade below their revision. *)
RolesOutliveMigrations ==
    [][~(db.userRole \subseteq db'.userRole) => db'.rev < RolesRev]_vars

(* The application gives up at its start only when an operator has taken the *)
(* database below the roles since the container brought it to the newest.    *)
StartFailsOnlyWithoutRoles ==
    [][server = "starting" /\ server' = "failed" => db.rev < RolesRev]_vars
=============================================================================
