--------------------------- MODULE DeploymentProofs ---------------------------
(* Proofs about Deployment: for any accounts, hand-made permissions and      *)
(* commands, the content of the database is determined, as far as migrations *)
(* and requests depend on it, by the revision it is at.                      *)
EXTENDS Deployment, SequenceTheorems, FiniteSetTheorems, TLAPS

-----------------------------------------------------------------------------
(* The inductive invariant *)

AuctionTables ==
    {"auction_trades", "auction_current_prices", "auction_price_candles",
     "auction_refresh_queue", "craft_profit_snapshots"}
HideoutTables == {"hideout_perks", "hideout_recipes", "hideout_recipe_items"}
ItemTables    == {"items", "item_attributes", "sync_state"}
TradeTables   == {"user_trade_positions", "user_trade_sales"}
CraftTables   == {"craft_records", "craft_sales"}

TablesAt(rev) ==
    {t \in RbacTables : rev >= 1} \union {t \in {"refresh_tokens"} : rev >= 2} \union
    {t \in ItemTables : rev >= 4} \union {t \in HideoutTables : rev >= 6} \union
    {t \in AuctionTables : rev >= 8} \union {t \in TradeTables : rev = 9} \union
    {t \in CraftTables : rev >= 11}

AllRoles == {"user", "admin"}
SeededGrants == ({"user"} \X USER_PERMISSIONS) \union ({"admin"} \X ADMIN_PERMISSIONS)
TradingGrants == AllRoles \X TRADING_PERMISSIONS

(* Whether a hand has given somebody the status of the system.               *)
ByHand == "system:read" \in HandMade

(* What a database holds at a revision, whichever way it came there.         *)
Holds(d, rev) ==
    /\ d.ok
    /\ d.tables = TablesAt(rev)
    /\ d.lifecycle <=> rev >= 12
    /\ d.queued => rev >= 8
    /\ d.roles = IF rev >= 3 THEN AllRoles ELSE {}
    /\ rev < 1 => d.perms = {} /\ d.users = {}
    /\ \A row \in d.userRole : row[1] \in d.users /\ row[2] \in d.roles
    /\ \A row \in d.grants : row[1] \in d.roles /\ row[2] \in d.perms
    /\ rev >= 7 => SeededGrants \subseteq d.grants
    /\ rev >= 11 => TradingGrants \subseteq d.grants
    /\ (ByHand \/ <<"user", "system:read">> \notin d.grants)

AtRevision(d) == Holds(d, d.rev)

IInv ==
    /\ db \in Schemas /\ work \in Schemas
    /\ AtRevision(db) /\ AtRevision(work)
    /\ runner \in {"none", "operator", "container"}
    /\ goal \in Base .. Newest
    /\ server \in {"down", "migrating", "starting", "serving", "failed"}
    /\ runner = "container" <=> server = "migrating"
    /\ runner # "none" /\ goal >= RolesRev =>
         work.users = db.users /\ work.userRole = db.userRole
    /\ orphans \subseteq db.users
    /\ \A u \in db.users \ orphans : \E r \in AllRoles : <<u, r>> \in db.userRole

-----------------------------------------------------------------------------
(* Execution of a revision *)

(* Induction up to n for a set: the intervals that end outside it have no    *)
(* least one.                                                                *)
LEMMA Induction ==
  ASSUME NEW n \in Nat, NEW S, 0 \in S, \A m \in 0 .. n - 1 : m \in S => m + 1 \in S
  PROVE  0 .. n \subseteq S
<1> DEFINE Outside == {0 .. m : m \in (0 .. n) \ S}
<1> SUFFICES ASSUME Outside # {} PROVE FALSE
  OBVIOUS
<1>1. IsFiniteSet(0 .. n)
  BY FS_Interval
<1>2. IsWellFoundedOn(StrictSubsetOrdering(0 .. n), SUBSET (0 .. n))
  BY <1>1, FS_FiniteSubsetsOfFinite, FS_StrictSubsetOrderingWellFounded
<1>3. Outside \subseteq SUBSET (0 .. n)
  OBVIOUS
<1> HIDE DEF Outside
<1>4. PICK least \in Outside : \A i \in Outside : <<i, least>> \notin StrictSubsetOrdering(0 .. n)
  BY <1>2, <1>3, WFMin
<1>5. PICK m \in (0 .. n) \ S : least = 0 .. m
  BY <1>4 DEF Outside
<1>6. m # 0 /\ m - 1 \in 0 .. n - 1 /\ (m - 1) + 1 = m
  BY <1>5
<1>7. m - 1 \in (0 .. n) \ S
  BY <1>5, <1>6
<1>8. 0 .. m - 1 \in Outside
  BY <1>7 DEF Outside
<1>9. 0 .. m - 1 \subseteq 0 .. m /\ 0 .. m - 1 # 0 .. m
  BY <1>5, <1>6
<1>10. <<0 .. m - 1, least>> \in StrictSubsetOrdering(0 .. n)
  BY <1>3, <1>4, <1>5, <1>8, <1>9 DEF StrictSubsetOrdering
<1> QED BY <1>4, <1>8, <1>10

LEMMA AfterDef ==
  ASSUME NEW d, NEW revision, Len(revision) \in Nat
  PROVE  /\ After(d, revision)[0] = d
         /\ \A n \in 1 .. Len(revision) :
              After(d, revision)[n] = Execute(After(d, revision)[n - 1], revision[n])
<1> DEFINE Step(f, n) == IF n = 0 THEN d ELSE Execute(f[n - 1], revision[n])
           Defined == {n \in Nat : \E f : f = [m \in 0 .. n |-> Step(f, m)]}
<1>2. 0 \in Defined
  <2> DEFINE g == [m \in 0 .. 0 |-> d]
  <2>1. g = [m \in 0 .. 0 |-> Step(g, m)]
    OBVIOUS
  <2> QED BY <2>1
<1>3. ASSUME NEW n \in 0 .. Len(revision) - 1, n \in Defined PROVE n + 1 \in Defined
  <2>1. PICK f : f = [m \in 0 .. n |-> Step(f, m)]
    BY <1>3
  <2> DEFINE g == [m \in 0 .. n + 1 |-> IF m \in 0 .. n THEN f[m] ELSE Execute(f[n], revision[n + 1])]
  <2>2. ASSUME NEW m \in 0 .. n + 1 PROVE g[m] = Step(g, m)
    <3>1. CASE m = 0
      BY <2>1, <3>1
    <3>2. CASE m \in 1 .. n
      <4>1. g[m - 1] = f[m - 1] /\ g[m] = f[m] /\ m # 0
        BY <3>2
      <4>2. f[m] = Execute(f[m - 1], revision[m])
        BY <2>1, <3>2
      <4> QED BY <4>1, <4>2
    <3>3. CASE m = n + 1
      <4>1. g[m - 1] = f[n] /\ g[m] = Execute(f[n], revision[n + 1]) /\ m # 0
        BY <3>3
      <4> QED BY <3>3, <4>1
    <3> QED BY <3>1, <3>2, <3>3
  <2> HIDE DEF Step
  <2>3. g = [m \in 0 .. n + 1 |-> Step(g, m)]
    BY <2>2
  <2>4. n + 1 \in Nat
    OBVIOUS
  <2> QED BY <2>3, <2>4
<1> HIDE DEF Step
<1>4. Len(revision) \in Defined
  <2> HIDE DEF Defined
  <2>1. 0 .. Len(revision) \subseteq Defined
    BY <1>2, <1>3, Induction
  <2> QED BY <2>1
<1> DEFINE after == After(d, revision)
<1>5. after = [n \in 0 .. Len(revision) |-> Step(after, n)]
  BY <1>4 DEF After, Step
<1> HIDE DEF after
<1>6. after[0] = Step(after, 0)
  BY <1>5
<1>7. ASSUME NEW n \in 1 .. Len(revision)
      PROVE  after[n] = Step(after, n) /\ n # 0
  BY <1>5
<1>8. /\ after[0] = d
      /\ \A n \in 1 .. Len(revision) : after[n] = Execute(after[n - 1], revision[n])
  BY <1>6, <1>7 DEF Step
<1> QED BY <1>8 DEF after

(* The content of a database but for its tables, *)
SameRows(d, e) ==
    /\ e.rev = d.rev /\ e.lifecycle = d.lifecycle /\ e.queued = d.queued
    /\ e.roles = d.roles /\ e.perms = d.perms /\ e.grants = d.grants
    /\ e.users = d.users /\ e.userRole = d.userRole

Tables == ModelTables \union TradeTables

LEMMA CreateOne ==
  ASSUME NEW d \in Schemas, d.ok, NEW t \in Tables, t \notin d.tables, References(t) \subseteq d.tables
  PROVE  LET e == Execute(d, CreateTable(t))
         IN e \in Schemas /\ e.ok /\ e.tables = d.tables \union {t} /\ SameRows(d, e)
<1>1. Execute(d, CreateTable(t)) = [d EXCEPT !.tables = @ \union {t}]
  BY DEF Execute, Accepts, Effect, CreateTable
<1> QED BY <1>1 DEF Schemas, SameRows, Tables, TradeTables

(* A list of tables can be created when each is new and follows those it     *)
(* references,                                                               *)
Creatable(tables, ts) ==
    \A i \in 1 .. Len(ts) :
        /\ ts[i] \in Tables \ tables
        /\ \A j \in 1 .. i - 1 : ts[j] # ts[i]
        /\ \A t \in References(ts[i]) : t \in tables \/ \E j \in 1 .. i - 1 : ts[j] = t

LEMMA CreateAll ==
  ASSUME NEW d \in Schemas, d.ok, NEW ts, Len(ts) \in Nat, DOMAIN ts = 1 .. Len(ts),
         Creatable(d.tables, ts)
  PROVE  LET e == After(d, CreateTables(ts))[Len(CreateTables(ts))]
         IN /\ e \in Schemas /\ e.ok /\ SameRows(d, e)
            /\ e.tables = d.tables \union {ts[i] : i \in 1 .. Len(ts)}
<1> DEFINE n == Len(ts)
           revision == CreateTables(ts)
           after == After(d, revision)
           Good(m) == /\ after[m] \in Schemas /\ after[m].ok /\ SameRows(d, after[m])
                      /\ after[m].tables = d.tables \union {ts[i] : i \in 1 .. m}
           S == {m \in 0 .. n : Good(m)}
<1>1. revision = [i \in 1 .. n |-> CreateTable(ts[i])] /\ Len(revision) = n
  BY DEF CreateTables
<1> HIDE DEF revision
<1>2. after[0] = d /\ \A m \in 1 .. n : after[m] = Execute(after[m - 1], CreateTable(ts[m]))
  BY <1>1, AfterDef
<1> HIDE DEF after
<1>3. 0 \in S
  BY <1>2 DEF SameRows
<1>4. ASSUME NEW m \in 0 .. n - 1, m \in S PROVE m + 1 \in S
  <2> DEFINE t == ts[m + 1]
             e == after[m + 1]
  <2>1. m + 1 \in 1 .. n /\ (m + 1) - 1 = m /\ m \in Nat
    OBVIOUS
  <2>2. Good(m)
    BY <1>4
  <2>3. t \in Tables /\ t \notin after[m].tables /\ References(t) \subseteq after[m].tables
    <3>1. /\ t \in Tables \ d.tables
          /\ \A j \in 1 .. m : ts[j] # t
          /\ \A r \in References(t) : r \in d.tables \/ \E j \in 1 .. m : ts[j] = r
      BY <2>1 DEF Creatable
    <3>2. after[m].tables = d.tables \union {ts[i] : i \in 1 .. m}
      BY <2>2
    <3> HIDE DEF t
    <3> QED BY <3>1, <3>2
  <2>4. e = Execute(after[m], CreateTable(t))
    BY <1>2, <2>1
  <2>5. e \in Schemas /\ e.ok /\ e.tables = after[m].tables \union {t} /\ SameRows(after[m], e)
    <3> HIDE DEF t, e
    <3> QED BY <2>2, <2>3, <2>4, CreateOne
  <2>6. {ts[i] : i \in 1 .. m + 1} = {ts[i] : i \in 1 .. m} \union {ts[m + 1]}
    BY <2>1
  <2>7. SameRows(d, e)
    BY <2>2, <2>5 DEF SameRows
  <2> QED BY <2>1, <2>2, <2>5, <2>6, <2>7
<1>5. Good(n)
  <2> HIDE DEF Good
  <2>1. 0 \in S /\ \A m \in 0 .. n - 1 : m \in S => m + 1 \in S
    BY <1>3, <1>4
  <2> HIDE DEF S
  <2>2. 0 .. n \subseteq S
    BY <2>1, Induction
  <2> QED BY <2>2 DEF S
<1> QED BY <1>1, <1>5 DEF after, revision

(* and of one that has lost tables with all their rows.                      *)
LostTables(d, e, S) ==
    /\ e.tables = d.tables \ S /\ e.rev = d.rev
    /\ e.lifecycle = (d.lifecycle /\ "auction_refresh_queue" \notin S)
    /\ e.queued = (d.queued /\ "auction_refresh_queue" \notin S)
    /\ e.roles = IF "roles" \in S THEN {} ELSE d.roles
    /\ e.perms = IF "permissions" \in S THEN {} ELSE d.perms
    /\ e.grants = IF "role_permission" \in S THEN {} ELSE d.grants
    /\ e.users = IF "users" \in S THEN {} ELSE d.users
    /\ e.userRole = IF "user_role" \in S THEN {} ELSE d.userRole

LEMMA DropOne ==
  ASSUME NEW d \in Schemas, d.ok, NEW t \in d.tables, \A s \in d.tables : t \notin References(s)
  PROVE  LET e == Execute(d, DropTable(t))
         IN e \in Schemas /\ e.ok /\ LostTables(d, e, {t})
<1>1. Execute(d, DropTable(t)) = Without(d, t)
  BY DEF Execute, Accepts, Effect, DropTable
<1> DEFINE queue == "auction_refresh_queue"
           roles == IF t = "roles" THEN {} ELSE d.roles
           perms == IF t = "permissions" THEN {} ELSE d.perms
           grants == IF t = "role_permission" THEN {} ELSE d.grants
           users == IF t = "users" THEN {} ELSE d.users
           userRole == IF t = "user_role" THEN {} ELSE d.userRole
<1>2. Without(d, t) \in Schemas
  <2> DEFINE e == Without(d, t)
             Field == {"ok", "rev", "tables", "lifecycle", "queued", "roles", "perms", "grants",
                       "users", "userRole"}
  <2>1. e = [f \in Field |-> e[f]]
    BY DEF Schemas, Without
  <2>2. /\ e.ok \in BOOLEAN /\ e.rev = d.rev /\ e.tables = d.tables \ {t}
        /\ e.lifecycle \in BOOLEAN /\ e.queued \in BOOLEAN
        /\ e.roles = roles /\ e.perms = perms /\ e.grants = grants
        /\ e.users = users /\ e.userRole = userRole
    BY DEF Schemas, Without
  <2>3. /\ roles \subseteq d.roles /\ perms \subseteq d.perms /\ grants \subseteq d.grants
        /\ users \subseteq d.users /\ userRole \subseteq d.userRole
    OBVIOUS
  <2> HIDE DEF roles, perms, grants, users, userRole, e
  <2>4. e \in Schemas
    BY <2>1, <2>2, <2>3 DEF Schemas
  <2> QED BY <2>4 DEF e
<1>3. Without(d, t).ok /\ LostTables(d, Without(d, t), {t})
  BY DEF Schemas, Without, LostTables
<1> QED BY <1>1, <1>2, <1>3

(* and dropped when nothing that is left references it.                      *)
Droppable(tables, ts) ==
    \A i \in 1 .. Len(ts) :
        /\ ts[i] \in tables
        /\ \A j \in 1 .. i - 1 : ts[j] # ts[i]
        /\ \A t \in tables : ts[i] \in References(t) => \E j \in 1 .. i - 1 : ts[j] = t

LEMMA DropAll ==
  ASSUME NEW d \in Schemas, d.ok, NEW ts, Len(ts) \in Nat, DOMAIN ts = 1 .. Len(ts),
         Droppable(d.tables, ts)
  PROVE  LET e == After(d, DropTables(ts))[Len(DropTables(ts))]
         IN e \in Schemas /\ e.ok /\ LostTables(d, e, {ts[i] : i \in 1 .. Len(ts)})
<1> DEFINE n == Len(ts)
           revision == DropTables(ts)
           after == After(d, revision)
           Good(m) == /\ after[m] \in Schemas /\ after[m].ok
                      /\ LostTables(d, after[m], {ts[i] : i \in 1 .. m})
           S == {m \in 0 .. n : Good(m)}
<1>1. revision = [i \in 1 .. n |-> DropTable(ts[i])] /\ Len(revision) = n
  BY DEF DropTables
<1> HIDE DEF revision
<1>2. after[0] = d /\ \A m \in 1 .. n : after[m] = Execute(after[m - 1], DropTable(ts[m]))
  BY <1>1, AfterDef
<1> HIDE DEF after
<1>3. 0 \in S
  <2>1. {ts[i] : i \in 1 .. 0} = {}
    OBVIOUS
  <2>2. LostTables(d, d, {})
    BY DEF LostTables, Schemas
  <2>3. LostTables(d, after[0], {ts[i] : i \in 1 .. 0})
    BY <1>2, <2>1, <2>2, Zenon
  <2>4. Good(0)
    BY <1>2, <2>3
  <2> QED BY <2>4
<1>4. ASSUME NEW m \in 0 .. n - 1, m \in S PROVE m + 1 \in S
  <2> DEFINE t == ts[m + 1]
             e == after[m + 1]
             before == {ts[i] : i \in 1 .. m}
  <2>1. m + 1 \in 1 .. n /\ (m + 1) - 1 = m /\ m \in Nat
    OBVIOUS
  <2>2. Good(m)
    BY <1>4
  <2>3. t \in after[m].tables /\ \A s \in after[m].tables : t \notin References(s)
    <3>1. /\ t \in d.tables
          /\ \A j \in 1 .. m : ts[j] # t
          /\ \A s \in d.tables : t \in References(s) => \E j \in 1 .. m : ts[j] = s
      BY <2>1 DEF Droppable
    <3>2. after[m].tables = d.tables \ {ts[i] : i \in 1 .. m}
      BY <2>2 DEF LostTables
    <3> HIDE DEF t
    <3> QED BY <3>1, <3>2
  <2>4. e = Execute(after[m], DropTable(t))
    BY <1>2, <2>1
  <2>5. e \in Schemas /\ e.ok /\ LostTables(after[m], e, {t})
    <3> HIDE DEF t, e
    <3> QED BY <2>2, <2>3, <2>4, DropOne
  <2>6. {ts[i] : i \in 1 .. m + 1} = before \union {t}
    BY <2>1
  <2>7. LostTables(d, after[m], before)
    BY <2>2
  <2> HIDE DEF t, e, before
  <2>8. LostTables(d, e, before \union {t})
    BY <2>2, <2>5, <2>7 DEF LostTables
  <2>9. LostTables(d, after[m + 1], {ts[i] : i \in 1 .. m + 1})
    BY <2>6, <2>8, Zenon DEF e
  <2>10. Good(m + 1)
    BY <2>5, <2>9 DEF e
  <2> QED BY <2>1, <2>10
<1>5. Good(n)
  <2> HIDE DEF Good
  <2>1. 0 \in S /\ \A m \in 0 .. n - 1 : m \in S => m + 1 \in S
    BY <1>3, <1>4
  <2> HIDE DEF S
  <2>2. 0 .. n \subseteq S
    BY <2>1, Induction
  <2> QED BY <2>2 DEF S
<1> QED BY <1>1, <1>5 DEF after, revision

-----------------------------------------------------------------------------
(* The revisions that create and drop tables *)

(* A revision leads from what one revision of the database holds to what     *)
(* another does.                                                             *)
Reaches(e, rev) == e \in Schemas /\ AtRevision(e) /\ e.rev = rev

SameAccounts(d, e) == e.users = d.users /\ e.userRole = d.userRole

(* What AtRevision says of rows is the same at both revisions.               *)
SameSeeds(d, rev) ==
    /\ \A k \in {3, 7, 11, 12} : d.rev >= k <=> rev >= k
    /\ rev < 1 => d.rev < 1

LEMMA Reached ==
  ASSUME NEW made \in Schemas, NEW rev \in Base .. Newest, Holds(made, rev)
  PROVE  LET e == [made EXCEPT !.rev = rev] IN Reaches(e, rev) /\ SameAccounts(made, e)
<1> DEFINE e == [made EXCEPT !.rev = rev]
<1>1. e \in Schemas
  BY DEF Schemas
<1>2. /\ e.rev = rev /\ e.ok = made.ok /\ e.tables = made.tables
      /\ e.lifecycle = made.lifecycle /\ e.queued = made.queued
      /\ e.roles = made.roles /\ e.perms = made.perms /\ e.grants = made.grants
      /\ e.users = made.users /\ e.userRole = made.userRole
  BY DEF Schemas
<1> HIDE DEF e
<1>3. Holds(e, rev)
  BY <1>2 DEF Holds
<1> QED BY <1>1, <1>2, <1>3 DEF Reaches, AtRevision, SameAccounts, e

LEMMA NewestIs == Newest = 12
  BY DEF Newest, Upgrades

LEMMA CreatingRevision ==
  ASSUME NEW d \in Schemas, AtRevision(d), NEW rev \in Base .. Newest,
         NEW ts, Len(ts) \in Nat, DOMAIN ts = 1 .. Len(ts), Creatable(d.tables, ts),
         TablesAt(rev) = d.tables \union {ts[i] : i \in 1 .. Len(ts)},
         SameSeeds(d, rev), d.rev >= 8 => rev >= 8
  PROVE  LET e == Apply(d, CreateTables(ts), rev)
         IN Reaches(e, rev) /\ SameAccounts(d, e)
<1> DEFINE made == After(d, CreateTables(ts))[Len(CreateTables(ts))]
<1>1. /\ made \in Schemas /\ made.ok /\ SameRows(d, made)
      /\ made.tables = d.tables \union {ts[i] : i \in 1 .. Len(ts)}
  BY CreateAll DEF AtRevision, Holds
<1> HIDE DEF made
<1>2. d.rev \in Nat /\ rev \in Nat
  BY DEF Schemas, Base
<1>3. Holds(made, rev)
  BY <1>1, <1>2 DEF AtRevision, Holds, SameSeeds, SameRows
<1> QED BY <1>1, <1>3, Reached DEF SameRows, SameAccounts, Apply, made

LEMMA DroppingRevision ==
  ASSUME NEW d \in Schemas, AtRevision(d), NEW rev \in Base .. Newest,
         NEW ts, Len(ts) \in Nat, DOMAIN ts = 1 .. Len(ts), Droppable(d.tables, ts),
         TablesAt(rev) = d.tables \ {ts[i] : i \in 1 .. Len(ts)},
         SameSeeds(d, rev),
         {ts[i] : i \in 1 .. Len(ts)} \cap RbacTables = {},
         IF "auction_refresh_queue" \in {ts[i] : i \in 1 .. Len(ts)} THEN rev < 12
                                                         ELSE d.rev >= 8 => rev >= 8
  PROVE  LET e == Apply(d, DropTables(ts), rev)
         IN Reaches(e, rev) /\ SameAccounts(d, e)
<1> DEFINE S == {ts[i] : i \in 1 .. Len(ts)}
           left == After(d, DropTables(ts))[Len(DropTables(ts))]
           queueLost == "auction_refresh_queue" \in S
<1>1. left \in Schemas /\ left.ok /\ LostTables(d, left, S)
  BY DropAll, Zenon DEF AtRevision, Holds
<1> HIDE DEF left, S
<1>2. {"roles", "permissions", "role_permission", "users", "user_role"} \cap S = {}
  BY DEF RbacTables, S
<1>3. /\ left.tables = d.tables \ S
      /\ left.roles = d.roles /\ left.perms = d.perms /\ left.grants = d.grants
      /\ left.users = d.users /\ left.userRole = d.userRole
  BY <1>1, <1>2 DEF LostTables
<1>4. d.rev \in Nat /\ rev \in Nat
  BY DEF Schemas, Base
<1>5. (left.lifecycle <=> rev >= 12) /\ (left.queued => rev >= 8)
  <2>1. (left.lifecycle <=> d.lifecycle /\ ~queueLost) /\ (left.queued <=> d.queued /\ ~queueLost)
    BY <1>1 DEF LostTables
  <2>2. (d.lifecycle <=> d.rev >= 12) /\ (d.queued => d.rev >= 8)
    BY DEF AtRevision, Holds
  <2>3. IF queueLost THEN rev < 12 ELSE d.rev >= 8 => rev >= 8
    BY DEF S
  <2>4. d.rev >= 12 <=> rev >= 12
    BY DEF SameSeeds
  <2> HIDE DEF queueLost
  <2>5. CASE queueLost
    BY <1>4, <2>1, <2>3, <2>5
  <2>6. CASE ~queueLost
    BY <2>1, <2>2, <2>3, <2>4, <2>6
  <2> QED BY <2>5, <2>6
<1>6. left.tables = TablesAt(rev)
  BY <1>3 DEF S
<1>7. Holds(left, rev)
  BY <1>1, <1>3, <1>4, <1>5, <1>6 DEF AtRevision, Holds, SameSeeds
<1> QED BY <1>1, <1>3, <1>7, Reached DEF SameAccounts, Apply, left

(* The other revisions, statement by statement.                              *)
LEMMA FiveSteps ==
  ASSUME NEW d, NEW revision, Len(revision) = 5
  PROVE  After(d, revision)[5] =
           Execute(Execute(Execute(Execute(Execute(d, revision[1]), revision[2]), revision[3]),
                           revision[4]), revision[5])
<1> DEFINE after == After(d, revision)
<1>1. Len(revision) \in Nat
  OBVIOUS
<1>2. after[0] = d /\ \A n \in 1 .. Len(revision) : after[n] = Execute(after[n - 1], revision[n])
  BY ONLY <1>1, AfterDef
<1> HIDE DEF after
<1>3. after[1] = Execute(d, revision[1])
  BY <1>2
<1>4. after[2] = Execute(after[1], revision[2])
  BY <1>2
<1>5. after[3] = Execute(after[2], revision[3])
  BY <1>2
<1>6. after[4] = Execute(after[3], revision[4])
  BY <1>2
<1>7. after[5] = Execute(after[4], revision[5])
  BY <1>2
<1> QED BY <1>3, <1>4, <1>5, <1>6, <1>7 DEF after

LEMMA FiveStatements ==
  ASSUME NEW d, NEW s1, NEW s2, NEW s3, NEW s4, NEW s5
  PROVE  LET revision == <<s1, s2, s3, s4, s5>>
         IN After(d, revision)[Len(revision)] =
              Execute(Execute(Execute(Execute(Execute(d, s1), s2), s3), s4), s5)
<1> DEFINE revision == <<s1, s2, s3, s4, s5>>
<1>1. /\ Len(revision) = 5 /\ revision[1] = s1 /\ revision[2] = s2 /\ revision[3] = s3
      /\ revision[4] = s4 /\ revision[5] = s5
  OBVIOUS
<1> HIDE DEF revision
<1>2. After(d, revision)[5] =
        Execute(Execute(Execute(Execute(Execute(d, revision[1]), revision[2]), revision[3]),
                        revision[4]), revision[5])
  BY <1>1, FiveSteps
<1> QED BY <1>1, <1>2 DEF revision

LEMMA RolesUp ==
  ASSUME NEW d \in Schemas, AtRevision(d), d.rev = 2
  PROVE  LET e == Apply(d, Up_40049f66a7e6, 3) IN Reaches(e, 3) /\ SameAccounts(d, e)
<1> DEFINE made == [d EXCEPT !.roles = @ \union AllRoles]
<1>1. After(d, Up_40049f66a7e6)[Len(Up_40049f66a7e6)] = Execute(d, InsertRoles(AllRoles))
  BY AfterDef DEF Up_40049f66a7e6, AllRoles
<1>2. /\ d.ok /\ "roles" \in d.tables /\ d.roles = {} /\ d.tables = TablesAt(3)
      /\ ~d.lifecycle /\ ~d.queued
  <2>1. d.ok /\ d.tables = TablesAt(2) /\ d.roles = {} /\ ~d.lifecycle /\ ~d.queued
    BY DEF AtRevision, Holds
  <2>2. "roles" \in TablesAt(2) /\ TablesAt(2) = TablesAt(3)
    BY DEF TablesAt, RbacTables
  <2> QED BY <2>1, <2>2
<1>3. Execute(d, InsertRoles(AllRoles)) = made
  <2> DEFINE s == InsertRoles(AllRoles)
  <2>1. s.op = "insert roles" /\ s.names = AllRoles
    BY DEF InsertRoles
  <2> HIDE DEF s
  <2>2. Accepts(d, s)
    BY <1>2, <2>1, Zenon DEF Accepts
  <2>3. Effect(d, s) = made
    BY <1>2, <2>1, Zenon DEF Effect
  <2> QED BY <1>2, <2>2, <2>3 DEF Execute, s
<1>4. /\ made \in Schemas /\ made.ok = d.ok /\ made.tables = d.tables
      /\ made.lifecycle = d.lifecycle /\ made.queued = d.queued
      /\ made.roles = AllRoles /\ made.perms = d.perms /\ made.grants = d.grants
      /\ made.users = d.users /\ made.userRole = d.userRole
  BY <1>2 DEF Schemas, AllRoles
<1> HIDE DEF made
<1>5. Holds(made, 3) /\ 3 \in Base .. Newest
  BY <1>2, <1>4, NewestIs DEF AtRevision, Holds, Base
<1> QED BY <1>1, <1>3, <1>4, <1>5, Reached DEF SameAccounts, Apply

LEMMA RolesDown ==
  ASSUME NEW d \in Schemas, AtRevision(d), d.rev = 3
  PROVE  Reaches(Apply(d, Down_40049f66a7e6, 2), 2)
<1> DEFINE left == Execute(d, DeleteRoles(AllRoles))
<1>1. After(d, Down_40049f66a7e6)[Len(Down_40049f66a7e6)] = left
  BY AfterDef DEF Down_40049f66a7e6, AllRoles
<1>2. /\ d.ok /\ "roles" \in d.tables /\ d.tables = TablesAt(2) /\ d.roles = AllRoles
      /\ ~d.lifecycle /\ ~d.queued
      /\ \A row \in d.userRole : row[1] \in d.users /\ row[2] \in d.roles
      /\ \A row \in d.grants : row[1] \in d.roles /\ row[2] \in d.perms
  BY DEF AtRevision, Holds, TablesAt, RbacTables
<1>3. left = [d EXCEPT !.roles = @ \ AllRoles, !.grants = @ \ (AllRoles \X d.perms),
                       !.userRole = @ \ RowsOf(@, AllRoles)]
  <2> DEFINE s == DeleteRoles(AllRoles)
  <2>1. s.op = "delete roles" /\ s.names = AllRoles
    BY DEF DeleteRoles
  <2> HIDE DEF s
  <2>2. Accepts(d, s)
    BY <1>2, <2>1, Zenon DEF Accepts
  <2>3. Effect(d, s) = [d EXCEPT !.roles = @ \ AllRoles, !.grants = @ \ (AllRoles \X d.perms),
                             !.userRole = @ \ RowsOf(@, AllRoles)]
    BY <1>2, <2>1, Zenon DEF Effect
  <2> QED BY <1>2, <2>2, <2>3 DEF Execute, s
<1> HIDE DEF left
<1>4. /\ left \in Schemas /\ left.ok = d.ok /\ left.tables = d.tables
      /\ left.lifecycle = d.lifecycle /\ left.queued = d.queued
      /\ left.roles = d.roles \ AllRoles /\ left.grants = d.grants \ (AllRoles \X d.perms)
      /\ left.userRole = d.userRole \ RowsOf(d.userRole, AllRoles)
  BY <1>3 DEF Schemas
<1>5. left.grants = {} /\ left.userRole = {} /\ left.roles = {}
  BY <1>2, <1>4 DEF RowsOf, Schemas, AllRoles
<1>6. Holds(left, 2) /\ 2 \in Base .. Newest
  BY <1>2, <1>4, <1>5, NewestIs DEF Holds, Base
<1> QED BY <1>1, <1>4, <1>6, Reached DEF Apply

LEMMA NothingMoves ==
  ASSUME NEW d \in Schemas, AtRevision(d), NEW rev \in Base .. Newest, d.rev \in {4, 5}, rev \in {4, 5}
  PROVE  LET e == Apply(d, <<>>, rev) IN Reaches(e, rev) /\ SameAccounts(d, e)
<1>1. Len(<<>>) = 0
  OBVIOUS
<1>2. After(d, <<>>)[Len(<<>>)] = d
  BY <1>1, AfterDef
<1>3. Holds(d, rev)
  BY DEF AtRevision, Holds, TablesAt
<1> QED BY <1>2, <1>3, Reached DEF Apply

LEMMA ColumnsUp ==
  ASSUME NEW d \in Schemas, AtRevision(d), d.rev = 11
  PROVE  LET e == Apply(d, Up_d1e2f3a4b5c6, 12) IN Reaches(e, 12) /\ SameAccounts(d, e)
<1> DEFINE made == [d EXCEPT !.lifecycle = TRUE]
           statement == AddColumns(TRUE)
<1>0. Up_d1e2f3a4b5c6 = <<statement>>
  BY DEF Up_d1e2f3a4b5c6
<1>2. d.ok /\ "auction_refresh_queue" \in d.tables /\ ~d.lifecycle /\ d.tables = TablesAt(12)
  BY DEF AtRevision, Holds, TablesAt, AuctionTables
<1>3. Execute(d, statement) = made
  <2> DEFINE s == statement
  <2>1. s.op = "add columns" /\ s.defaults
    BY DEF AddColumns
  <2> HIDE DEF s
  <2>2. Accepts(d, s)
    BY <1>2, <2>1, Zenon DEF Accepts
  <2>3. Effect(d, s) = made
    BY <1>2, <2>1, Zenon DEF Effect
  <2> QED BY <1>2, <2>2, <2>3 DEF Execute, s
<1> HIDE DEF statement
<1>1. After(d, Up_d1e2f3a4b5c6)[Len(Up_d1e2f3a4b5c6)] = Execute(d, statement)
  BY <1>0, AfterDef
<1>4. /\ made \in Schemas /\ made.ok = d.ok /\ made.tables = d.tables
      /\ made.lifecycle /\ made.queued = d.queued
      /\ made.roles = d.roles /\ made.perms = d.perms /\ made.grants = d.grants
      /\ made.users = d.users /\ made.userRole = d.userRole
  BY DEF Schemas
<1> HIDE DEF made
<1>5. Holds(made, 12) /\ 12 \in Base .. Newest
  BY <1>2, <1>4, NewestIs DEF AtRevision, Holds, Base
<1> QED BY <1>1, <1>3, <1>4, <1>5, Reached DEF SameAccounts, Apply

LEMMA ColumnsDown ==
  ASSUME NEW d \in Schemas, AtRevision(d), d.rev = 12
  PROVE  LET e == Apply(d, Down_d1e2f3a4b5c6, 11) IN Reaches(e, 11) /\ SameAccounts(d, e)
<1> DEFINE left == [d EXCEPT !.lifecycle = FALSE]
<1>1. After(d, Down_d1e2f3a4b5c6)[Len(Down_d1e2f3a4b5c6)] = Execute(d, DropColumns)
  BY AfterDef DEF Down_d1e2f3a4b5c6
<1>2. d.ok /\ d.lifecycle /\ d.tables = TablesAt(11)
  BY DEF AtRevision, Holds, TablesAt
<1>3. Execute(d, DropColumns) = left
  <2> DEFINE s == DropColumns
  <2>1. s.op = "drop columns"
    BY DEF DropColumns
  <2> HIDE DEF s
  <2>2. Accepts(d, s)
    BY <1>2, <2>1, Zenon DEF Accepts
  <2>3. Effect(d, s) = left
    BY <1>2, <2>1, Zenon DEF Effect
  <2> QED BY <1>2, <2>2, <2>3 DEF Execute, s
<1>4. /\ left \in Schemas /\ left.ok = d.ok /\ left.tables = d.tables
      /\ ~left.lifecycle /\ left.queued = d.queued
      /\ left.roles = d.roles /\ left.perms = d.perms /\ left.grants = d.grants
      /\ left.users = d.users /\ left.userRole = d.userRole
  BY DEF Schemas
<1> HIDE DEF left
<1>5. Holds(left, 11) /\ 11 \in Base .. Newest
  BY <1>2, <1>4, NewestIs DEF AtRevision, Holds, Base
<1> QED BY <1>1, <1>3, <1>4, <1>5, Reached DEF SameAccounts, Apply

(* Statements about permissions need their two tables and leave the rest     *)
(* alone.                                                                    *)
Permission == ADMIN_PERMISSIONS \union TRADING_PERMISSIONS \union HandMade

Granted(d, e, perms, grants) ==
    /\ e \in Schemas
    /\ e.ok = d.ok /\ e.rev = d.rev /\ e.tables = d.tables
    /\ e.lifecycle = d.lifecycle /\ e.queued = d.queued /\ e.roles = d.roles
    /\ e.users = d.users /\ e.userRole = d.userRole
    /\ e.perms = perms /\ e.grants = grants

LEMMA PermissionTypes ==
  ASSUME NEW d \in Schemas
  PROVE  /\ d.perms \subseteq Permission /\ d.roles \subseteq AllRoles
         /\ d.grants \subseteq AllRoles \X Permission
BY DEF Schemas, Permission, AllRoles

LEMMA PermissionsChange ==
  ASSUME NEW d \in Schemas, NEW perms \in SUBSET Permission,
         NEW grants \in SUBSET (AllRoles \X Permission)
  PROVE  /\ Granted(d, [d EXCEPT !.perms = perms, !.grants = grants], perms, grants)
         /\ d.perms = perms => Granted(d, [d EXCEPT !.grants = grants], perms, grants)
         /\ d.grants = grants => Granted(d, [d EXCEPT !.perms = perms], perms, grants)
BY DEF Schemas, Granted, Permission, AllRoles

LEMMA RevokeGrants ==
  ASSUME NEW d \in Schemas, d.ok, {"permissions", "role_permission"} \subseteq d.tables, NEW S
  PROVE  Granted(d, Execute(d, Revoke(S)), d.perms, d.grants \ RowsOf(d.grants, S))
<1> DEFINE grants == d.grants \ RowsOf(d.grants, S)
<1>1. Execute(d, Revoke(S)) = [d EXCEPT !.grants = grants]
  <2> DEFINE s == Revoke(S)
  <2>1. s.op = "revoke" /\ s.names = S
    BY DEF Revoke
  <2> HIDE DEF s
  <2>2. Accepts(d, s)
    BY <2>1 DEF Accepts
  <2>3. Effect(d, s) = [d EXCEPT !.grants = grants]
    BY <2>1 DEF Effect
  <2> QED BY <2>2, <2>3 DEF Execute, s
<1>2. d.perms \in SUBSET Permission /\ grants \in SUBSET (AllRoles \X Permission)
  BY PermissionTypes
<1> HIDE DEF grants
<1>3. Granted(d, [d EXCEPT !.grants = grants], d.perms, grants)
  BY <1>2, PermissionsChange, Zenon
<1> QED BY <1>1, <1>3 DEF grants

LEMMA DeleteGrants ==
  ASSUME NEW d \in Schemas, d.ok, {"permissions", "role_permission"} \subseteq d.tables, NEW S
  PROVE  Granted(d, Execute(d, DeletePermissions(S)), d.perms \ S, d.grants \ RowsOf(d.grants, S))
<1> DEFINE perms == d.perms \ S
           grants == d.grants \ RowsOf(d.grants, S)
<1>1. Execute(d, DeletePermissions(S)) = [d EXCEPT !.perms = perms, !.grants = grants]
  <2> DEFINE s == DeletePermissions(S)
  <2>1. s.op = "delete permissions" /\ s.names = S
    BY DEF DeletePermissions
  <2> HIDE DEF s
  <2>2. Accepts(d, s)
    BY <2>1, Zenon DEF Accepts
  <2>3. Effect(d, s) = [d EXCEPT !.perms = perms, !.grants = grants]
    BY <2>1, Zenon DEF Effect
  <2> QED BY <2>2, <2>3 DEF Execute, s
<1>2. perms \in SUBSET Permission /\ grants \in SUBSET (AllRoles \X Permission)
  BY PermissionTypes
<1> HIDE DEF perms, grants
<1>3. Granted(d, [d EXCEPT !.perms = perms, !.grants = grants], perms, grants)
  BY <1>2, PermissionsChange, Zenon
<1> QED BY <1>1, <1>3 DEF perms, grants

LEMMA InsertGrantable ==
  ASSUME NEW d \in Schemas, d.ok, {"permissions", "role_permission"} \subseteq d.tables,
         NEW S \in SUBSET Permission
  PROVE  Granted(d, Execute(d, InsertPermissions(S)), d.perms \union S, d.grants)
<1> DEFINE perms == d.perms \union S
<1>1. Execute(d, InsertPermissions(S)) = [d EXCEPT !.perms = perms]
  <2> DEFINE s == InsertPermissions(S)
  <2>1. s.op = "insert permissions" /\ s.names = S
    BY DEF InsertPermissions
  <2> HIDE DEF s
  <2>2. Accepts(d, s)
    BY <2>1, Zenon DEF Accepts
  <2>3. Effect(d, s) = [d EXCEPT !.perms = perms]
    BY <2>1, Zenon DEF Effect
  <2> QED BY <2>2, <2>3 DEF Execute, s
<1>2. perms \in SUBSET Permission /\ d.grants \in SUBSET (AllRoles \X Permission)
  BY PermissionTypes
<1> HIDE DEF perms
<1>3. Granted(d, [d EXCEPT !.perms = perms], perms, d.grants)
  BY <1>2, PermissionsChange, Zenon
<1> QED BY <1>1, <1>3 DEF perms

LEMMA AssignGrants ==
  ASSUME NEW c, c.ok, {"permissions", "role_permission"} \subseteq c.tables,
         NEW d, NEW perms, NEW grants, Granted(c, d, perms, grants),
         NEW S \in SUBSET perms, NEW r \in c.roles
  PROVE  Granted(c, Execute(d, Assign(r, S)), perms, grants \union ({r} \X S))
<1> DEFINE more == grants \union ({r} \X S)
<1>1. /\ d \in Schemas /\ d.ok /\ {"permissions", "role_permission"} \subseteq d.tables
      /\ r \in d.roles /\ d.perms = perms /\ d.grants = grants
  BY DEF Granted
<1>2. Execute(d, Assign(r, S)) = [d EXCEPT !.grants = more]
  <2> DEFINE s == Assign(r, S)
  <2>1. s.op = "assign" /\ s.role = r /\ s.names = S
    BY DEF Assign
  <2> HIDE DEF s
  <2>2. Accepts(d, s)
    BY <1>1, <2>1 DEF Accepts
  <2>3. Effect(d, s) = [d EXCEPT !.grants = more]
    BY <1>1, <2>1 DEF Effect
  <2> QED BY <1>1, <2>2, <2>3 DEF Execute, s
<1>3. perms \in SUBSET Permission /\ more \in SUBSET (AllRoles \X Permission)
  BY <1>1, PermissionTypes
<1> HIDE DEF more
<1>4. Granted(d, [d EXCEPT !.grants = more], perms, more)
  BY <1>1, <1>3, PermissionsChange, Zenon
<1>5. Granted(c, [d EXCEPT !.grants = more], perms, more)
  BY <1>4 DEF Granted
<1> QED BY <1>2, <1>5 DEF more

(* Permissions are taken out of the database, as both downgrades do,         *)
LEMMA PermissionsOut ==
  ASSUME NEW d \in Schemas, d.ok, {"permissions", "role_permission"} \subseteq d.tables, NEW S
  PROVE  Granted(d, Execute(Execute(d, Revoke(S)), DeletePermissions(S)),
                 d.perms \ S, d.grants \ RowsOf(d.grants, S))
<1> DEFINE c == Execute(d, Revoke(S))
           e == Execute(c, DeletePermissions(S))
<1>1. Granted(d, c, d.perms, d.grants \ RowsOf(d.grants, S))
  BY RevokeGrants
<1> HIDE DEF c
<1>2. Granted(c, e, c.perms \ S, c.grants \ RowsOf(c.grants, S))
  BY <1>1, DeleteGrants DEF Granted
<1>3. c.grants \ RowsOf(c.grants, S) = d.grants \ RowsOf(d.grants, S)
  BY <1>1 DEF Granted, RowsOf
<1> HIDE DEF e
<1>4. Granted(d, e, d.perms \ S, d.grants \ RowsOf(d.grants, S))
  BY <1>1, <1>2, <1>3 DEF Granted
<1> QED BY <1>4 DEF c, e

LEMMA GrantsDown ==
  ASSUME NEW d \in Schemas, AtRevision(d), d.rev = 7
  PROVE  LET e == Apply(d, Down_9f1c7a4b2d8e, 6) IN Reaches(e, 6) /\ SameAccounts(d, e)
<1> DEFINE left == Execute(Execute(d, Revoke(ADMIN_PERMISSIONS)), DeletePermissions(ADMIN_PERMISSIONS))
<1>1. After(d, Down_9f1c7a4b2d8e)[Len(Down_9f1c7a4b2d8e)] = left
  BY AfterDef DEF Down_9f1c7a4b2d8e
<1>2. /\ d.ok /\ {"permissions", "role_permission"} \subseteq d.tables /\ d.tables = TablesAt(6)
      /\ ~d.lifecycle /\ ~d.queued /\ d.roles = AllRoles
      /\ \A row \in d.userRole : row[1] \in d.users /\ row[2] \in d.roles
      /\ \A row \in d.grants : row[1] \in d.roles /\ row[2] \in d.perms
      /\ (ByHand \/ <<"user", "system:read">> \notin d.grants)
  BY DEF AtRevision, Holds, TablesAt, RbacTables
<1>3. Granted(d, left, d.perms \ ADMIN_PERMISSIONS,
                 d.grants \ RowsOf(d.grants, ADMIN_PERMISSIONS))
  BY <1>2, PermissionsOut
<1> HIDE DEF left
<1>4. \A row \in left.grants : row \in d.grants /\ row[1] \in left.roles /\ row[2] \in left.perms
  BY <1>2, <1>3 DEF RowsOf, Granted
<1>5. Holds(left, 6) /\ 6 \in Base .. Newest
  BY <1>2, <1>3, <1>4, NewestIs DEF Holds, Base, Granted
<1> QED BY <1>1, <1>3, <1>5, Reached DEF SameAccounts, Apply, Granted

LEMMA GrantsUp ==
  ASSUME NEW d \in Schemas, AtRevision(d), d.rev = 6
  PROVE  LET e == Apply(d, Up_9f1c7a4b2d8e, 7) IN Reaches(e, 7) /\ SameAccounts(d, e)
<1> DEFINE inserted == Execute(d, InsertPermissions(ADMIN_PERMISSIONS))
           cleaned == Execute(Execute(inserted, Revoke(LEGACY_PERMISSIONS)),
                              DeletePermissions(LEGACY_PERMISSIONS))
           users == Execute(cleaned, Assign("user", USER_PERMISSIONS))
           made == Execute(users, Assign("admin", ADMIN_PERMISSIONS))
<1>1. After(d, Up_9f1c7a4b2d8e)[Len(Up_9f1c7a4b2d8e)] = made
  BY FiveStatements DEF Up_9f1c7a4b2d8e
<1>2. /\ d.ok /\ {"permissions", "role_permission"} \subseteq d.tables /\ d.tables = TablesAt(7)
      /\ ~d.lifecycle /\ ~d.queued /\ d.roles = AllRoles
      /\ \A row \in d.userRole : row[1] \in d.users /\ row[2] \in d.roles
      /\ \A row \in d.grants : row[1] \in d.roles /\ row[2] \in d.perms
      /\ (ByHand \/ <<"user", "system:read">> \notin d.grants)
  BY DEF AtRevision, Holds, TablesAt, RbacTables
<1>3. ADMIN_PERMISSIONS \in SUBSET Permission
  BY DEF Permission
<1>4. Granted(d, inserted, d.perms \union ADMIN_PERMISSIONS, d.grants)
  BY <1>2, <1>3, InsertGrantable
<1> HIDE DEF inserted
<1>5. Granted(inserted, cleaned, inserted.perms \ LEGACY_PERMISSIONS,
              inserted.grants \ RowsOf(inserted.grants, LEGACY_PERMISSIONS))
  BY <1>2, <1>4, PermissionsOut, Zenon DEF Granted
<1> HIDE DEF cleaned
<1> DEFINE perms == (d.perms \union ADMIN_PERMISSIONS) \ LEGACY_PERMISSIONS
           kept == d.grants \ RowsOf(d.grants, LEGACY_PERMISSIONS)
<1>6. Granted(d, cleaned, perms, kept)
  BY <1>4, <1>5 DEF Granted
<1>7. /\ ADMIN_PERMISSIONS \cap LEGACY_PERMISSIONS = {}
      /\ USER_PERMISSIONS \subseteq ADMIN_PERMISSIONS /\ "system:read" \notin USER_PERMISSIONS
  BY DEF ADMIN_PERMISSIONS, USER_PERMISSIONS, LEGACY_PERMISSIONS
<1>8. ADMIN_PERMISSIONS \in SUBSET perms /\ USER_PERMISSIONS \in SUBSET perms
  BY <1>7
<1>9. kept \subseteq d.grants /\ \A row \in kept : row[1] \in AllRoles /\ row[2] \in perms
  BY <1>2 DEF RowsOf
<1>10. "user" \in AllRoles /\ "admin" \in AllRoles
  BY DEF AllRoles
<1> HIDE DEF perms, kept
<1>11. /\ "user" \in d.roles /\ "admin" \in d.roles
       /\ d.ok /\ {"permissions", "role_permission"} \subseteq d.tables
  BY <1>2, <1>10
<1>12. Granted(d, users, perms, kept \union ({"user"} \X USER_PERMISSIONS))
  BY <1>6, <1>8, <1>11, AssignGrants
<1> DEFINE grants == kept \union ({"user"} \X USER_PERMISSIONS)
<1> HIDE DEF users, grants
<1>13. Granted(d, made, perms, grants \union ({"admin"} \X ADMIN_PERMISSIONS))
  BY <1>8, <1>11, <1>12, AssignGrants DEF grants
<1> HIDE DEF made
<1>14. /\ SeededGrants \subseteq made.grants
       /\ (ByHand \/ <<"user", "system:read">> \notin made.grants)
       /\ \A row \in made.grants : row[1] \in AllRoles /\ row[2] \in perms
  BY <1>2, <1>7, <1>8, <1>9, <1>10, <1>13 DEF Granted, SeededGrants, grants
<1>15. Holds(made, 7) /\ 7 \in Base .. Newest
  BY <1>2, <1>13, <1>14, NewestIs DEF Holds, Base, Granted
<1> QED BY <1>1, <1>13, <1>15, Reached DEF SameAccounts, Apply, Granted

LEMMA TwoAndThree ==
  ASSUME NEW a, NEW b, NEW c, NEW e, NEW f
  PROVE  <<a, b>> \o <<c, e, f>> = <<a, b, c, e, f>>
<1> DEFINE S == {a, b, c, e, f}
           s == <<a, b>>
           t == <<c, e, f>>
           u == <<a, b, c, e, f>>
<1>1. /\ s \in Seq(S) /\ Len(s) = 2 /\ s[1] = a /\ s[2] = b
      /\ t \in Seq(S) /\ Len(t) = 3 /\ t[1] = c /\ t[2] = e /\ t[3] = f
  OBVIOUS
<1>2. /\ u \in Seq(S) /\ Len(u) = 5 /\ u[1] = a /\ u[2] = b
      /\ u[3] = c /\ u[4] = e /\ u[5] = f
  OBVIOUS
<1> HIDE DEF S, s, t, u
<1>3. /\ s \o t \in Seq(S) /\ Len(s \o t) = Len(s) + Len(t)
      /\ \A i \in 1 .. Len(s) + Len(t) :
           (s \o t)[i] = IF i <= Len(s) THEN s[i] ELSE t[i - Len(s)]
  BY <1>1, ConcatProperties, Zenon
<1>4. \A i \in 1 .. 5 : (s \o t)[i] = u[i]
  BY <1>1, <1>2, <1>3
<1>5. s \o t = u
  BY <1>1, <1>2, <1>3, <1>4, SeqEqual
<1> QED BY <1>5 DEF s, t, u

LEMMA TradingUp ==
  ASSUME NEW d \in Schemas, AtRevision(d), d.rev = 10
  PROVE  LET e == Apply(d, Up_c8d1e2f3a4b5, 11) IN Reaches(e, 11) /\ SameAccounts(d, e)
<1> DEFINE records == Execute(d, CreateTable("craft_records"))
           sales == Execute(records, CreateTable("craft_sales"))
           inserted == Execute(sales, InsertPermissions(TRADING_PERMISSIONS))
           users == Execute(inserted, Assign("user", TRADING_PERMISSIONS))
           made == Execute(users, Assign("admin", TRADING_PERMISSIONS))
<1>1. Up_c8d1e2f3a4b5 =
        <<CreateTable("craft_records"), CreateTable("craft_sales"),
          InsertPermissions(TRADING_PERMISSIONS), Assign("user", TRADING_PERMISSIONS),
          Assign("admin", TRADING_PERMISSIONS)>>
  <2>1. CreateTables(<<"craft_records", "craft_sales">>) =
          <<CreateTable("craft_records"), CreateTable("craft_sales")>>
    BY DEF CreateTables
  <2> QED BY <2>1, TwoAndThree, Zenon DEF Up_c8d1e2f3a4b5
<1>2. After(d, Up_c8d1e2f3a4b5)[Len(Up_c8d1e2f3a4b5)] = made
  BY <1>1, FiveStatements
<1>3. /\ d.ok /\ {"permissions", "role_permission", "users"} \subseteq d.tables
      /\ "craft_records" \notin d.tables /\ "craft_sales" \notin d.tables
      /\ TablesAt(11) = d.tables \union {"craft_records", "craft_sales"}
  BY DEF AtRevision, Holds, TablesAt, RbacTables, ItemTables, HideoutTables, AuctionTables, CraftTables
<1>4. /\ "craft_records" \in Tables /\ References("craft_records") = {"users"}
      /\ "craft_sales" \in Tables /\ References("craft_sales") = {"craft_records"}
  BY DEF Tables, ModelTables, References
<1>5. records \in Schemas /\ records.ok /\ SameRows(d, records)
      /\ records.tables = d.tables \union {"craft_records"}
  BY <1>3, <1>4, CreateOne
<1> HIDE DEF records
<1>6. sales \in Schemas /\ sales.ok /\ SameRows(records, sales)
      /\ sales.tables = records.tables \union {"craft_sales"}
  BY <1>3, <1>4, <1>5, CreateOne
<1> HIDE DEF sales
<1>7. /\ sales.ok /\ sales.tables = TablesAt(11) /\ SameRows(d, sales)
      /\ {"permissions", "role_permission"} \subseteq sales.tables
  BY <1>3, <1>5, <1>6 DEF SameRows
<1>8. Granted(sales, inserted, d.perms \union TRADING_PERMISSIONS, d.grants)
  <2>1. TRADING_PERMISSIONS \in SUBSET Permission
    BY DEF Permission
  <2>2. Granted(sales, inserted, sales.perms \union TRADING_PERMISSIONS, sales.grants)
    BY <1>6, <1>7, <2>1, InsertGrantable
  <2> QED BY <1>7, <2>2 DEF SameRows
<1> HIDE DEF inserted
<1> DEFINE perms == d.perms \union TRADING_PERMISSIONS
<1>9. /\ d.roles = AllRoles /\ "user" \in AllRoles /\ "admin" \in AllRoles
      /\ d.lifecycle = FALSE /\ SeededGrants \subseteq d.grants
      /\ (ByHand \/ <<"user", "system:read">> \notin d.grants)
      /\ \A row \in d.userRole : row[1] \in d.users /\ row[2] \in d.roles
      /\ \A row \in d.grants : row[1] \in d.roles /\ row[2] \in d.perms
  BY DEF AtRevision, Holds, AllRoles
<1>10. /\ "user" \in sales.roles /\ "admin" \in sales.roles /\ Granted(sales, inserted, perms, d.grants)
  BY <1>7, <1>8, <1>9 DEF SameRows
<1>11. TRADING_PERMISSIONS \in SUBSET perms
  OBVIOUS
<1> DEFINE grants == d.grants \union ({"user"} \X TRADING_PERMISSIONS)
<1> HIDE DEF perms
<1>12. Granted(sales, users, perms, d.grants \union ({"user"} \X TRADING_PERMISSIONS))
  BY <1>7, <1>10, <1>11, AssignGrants
<1> HIDE DEF users, grants
<1>14. Granted(sales, made, perms, grants \union ({"admin"} \X TRADING_PERMISSIONS))
  BY <1>7, <1>10, <1>11, <1>12, AssignGrants DEF grants
<1> HIDE DEF made
<1>15. /\ SeededGrants \subseteq made.grants /\ TradingGrants \subseteq made.grants
       /\ (ByHand \/ <<"user", "system:read">> \notin made.grants)
       /\ \A row \in made.grants : row[1] \in AllRoles /\ row[2] \in perms
  <2>1. "system:read" \notin TRADING_PERMISSIONS
    BY DEF TRADING_PERMISSIONS
  <2> QED BY <1>9, <1>11, <1>14, <2>1 DEF Granted, TradingGrants, AllRoles, perms, grants
<1>16. Holds(made, 11) /\ 11 \in Base .. Newest
  BY <1>7, <1>9, <1>14, <1>15, NewestIs DEF AtRevision, Holds, Base, Granted, SameRows
<1> QED BY <1>2, <1>7, <1>14, <1>16, Reached DEF SameAccounts, Apply, Granted, SameRows

LEMMA FourSteps ==
  ASSUME NEW d, NEW revision, Len(revision) = 4
  PROVE  After(d, revision)[4] =
           Execute(Execute(Execute(Execute(d, revision[1]), revision[2]), revision[3]), revision[4])
<1> DEFINE after == After(d, revision)
<1>1. Len(revision) \in Nat
  OBVIOUS
<1>2. after[0] = d /\ \A n \in 1 .. Len(revision) : after[n] = Execute(after[n - 1], revision[n])
  BY ONLY <1>1, AfterDef
<1> HIDE DEF after
<1>3. after[1] = Execute(d, revision[1])
  BY <1>2
<1>4. after[2] = Execute(after[1], revision[2])
  BY <1>2
<1>5. after[3] = Execute(after[2], revision[3])
  BY <1>2
<1>6. after[4] = Execute(after[3], revision[4])
  BY <1>2
<1> QED BY <1>3, <1>4, <1>5, <1>6 DEF after

LEMMA FourStatements ==
  ASSUME NEW d, NEW s1, NEW s2, NEW s3, NEW s4
  PROVE  LET revision == <<s1, s2, s3, s4>>
         IN After(d, revision)[Len(revision)] =
              Execute(Execute(Execute(Execute(d, s1), s2), s3), s4)
<1> DEFINE revision == <<s1, s2, s3, s4>>
<1>1. /\ Len(revision) = 4 /\ revision[1] = s1 /\ revision[2] = s2 /\ revision[3] = s3
      /\ revision[4] = s4
  OBVIOUS
<1> HIDE DEF revision
<1>2. After(d, revision)[4] =
        Execute(Execute(Execute(Execute(d, revision[1]), revision[2]), revision[3]), revision[4])
  BY <1>1, FourSteps
<1> QED BY <1>1, <1>2 DEF revision

LEMMA TwoAndTwo ==
  ASSUME NEW a, NEW b, NEW c, NEW e
  PROVE  <<a, b>> \o <<c, e>> = <<a, b, c, e>>
<1> DEFINE S == {a, b, c, e}
           s == <<a, b>>
           t == <<c, e>>
           u == <<a, b, c, e>>
<1>1. /\ s \in Seq(S) /\ Len(s) = 2 /\ s[1] = a /\ s[2] = b
      /\ t \in Seq(S) /\ Len(t) = 2 /\ t[1] = c /\ t[2] = e
  OBVIOUS
<1>2. /\ u \in Seq(S) /\ Len(u) = 4 /\ u[1] = a /\ u[2] = b
      /\ u[3] = c /\ u[4] = e
  OBVIOUS
<1> HIDE DEF S, s, t, u
<1>3. /\ s \o t \in Seq(S) /\ Len(s \o t) = Len(s) + Len(t)
      /\ \A i \in 1 .. Len(s) + Len(t) :
           (s \o t)[i] = IF i <= Len(s) THEN s[i] ELSE t[i - Len(s)]
  BY <1>1, ConcatProperties, Zenon
<1>4. \A i \in 1 .. 4 : (s \o t)[i] = u[i]
  BY <1>1, <1>2, <1>3
<1>5. s \o t = u
  BY <1>1, <1>2, <1>3, <1>4, SeqEqual
<1> QED BY <1>5 DEF s, t, u

LEMMA TradingDown ==
  ASSUME NEW d \in Schemas, AtRevision(d), d.rev = 11
  PROVE  LET e == Apply(d, Down_c8d1e2f3a4b5, 10) IN Reaches(e, 10) /\ SameAccounts(d, e)
<1> DEFINE revoked == Execute(Execute(d, Revoke(TRADING_PERMISSIONS)),
                              DeletePermissions(TRADING_PERMISSIONS))
           records == Execute(revoked, DropTable("craft_sales"))
           left == Execute(records, DropTable("craft_records"))
<1>1. Down_c8d1e2f3a4b5 =
        <<Revoke(TRADING_PERMISSIONS), DeletePermissions(TRADING_PERMISSIONS),
          DropTable("craft_sales"), DropTable("craft_records")>>
  <2>1. DropTables(<<"craft_sales", "craft_records">>) =
          <<DropTable("craft_sales"), DropTable("craft_records")>>
    BY DEF DropTables
  <2> QED BY <2>1, TwoAndTwo DEF Down_c8d1e2f3a4b5
<1>2. After(d, Down_c8d1e2f3a4b5)[Len(Down_c8d1e2f3a4b5)] = left
  BY <1>1, FourStatements
<1>3. /\ d.ok /\ {"permissions", "role_permission"} \subseteq d.tables
      /\ d.tables = TablesAt(11) /\ ~d.lifecycle /\ d.roles = AllRoles
      /\ SeededGrants \subseteq d.grants /\ (ByHand \/ <<"user", "system:read">> \notin d.grants)
      /\ \A row \in d.userRole : row[1] \in d.users /\ row[2] \in d.roles
      /\ \A row \in d.grants : row[1] \in d.roles /\ row[2] \in d.perms
  BY DEF AtRevision, Holds, TablesAt, RbacTables
<1> DEFINE perms == d.perms \ TRADING_PERMISSIONS
           grants == d.grants \ RowsOf(d.grants, TRADING_PERMISSIONS)
<1>4. Granted(d, revoked, perms, grants)
  BY <1>3, PermissionsOut
<1>5. /\ \A row \in grants : row \in d.grants /\ row[1] \in d.roles /\ row[2] \in perms
      /\ SeededGrants \subseteq grants
  <2>1. TRADING_PERMISSIONS \cap ADMIN_PERMISSIONS = {} /\ USER_PERMISSIONS \subseteq ADMIN_PERMISSIONS
    BY DEF TRADING_PERMISSIONS, ADMIN_PERMISSIONS, USER_PERMISSIONS
  <2> QED BY <1>3, <2>1 DEF RowsOf, SeededGrants
<1> HIDE DEF revoked, perms, grants
<1>6. /\ "craft_sales" \in TablesAt(11) /\ "craft_records" \in TablesAt(11)
      /\ TablesAt(10) = (TablesAt(11) \ {"craft_sales"}) \ {"craft_records"}
      /\ "craft_sales" # "craft_records"
  BY DEF TablesAt, RbacTables, ItemTables, HideoutTables, AuctionTables, CraftTables
<1>7. /\ \A t \in TablesAt(11) : "craft_sales" \notin References(t)
      /\ \A t \in TablesAt(11) \ {"craft_sales"} : "craft_records" \notin References(t)
  BY DEF TablesAt, RbacTables, ItemTables, HideoutTables, AuctionTables, CraftTables, References
<1>8. records \in Schemas /\ records.ok /\ LostTables(revoked, records, {"craft_sales"})
  BY <1>3, <1>4, <1>6, <1>7, DropOne DEF Granted
<1>9. records.tables = TablesAt(11) \ {"craft_sales"}
  BY <1>3, <1>4, <1>8 DEF Granted, LostTables
<1> HIDE DEF records
<1>10. left \in Schemas /\ left.ok /\ LostTables(records, left, {"craft_records"})
  BY <1>6, <1>7, <1>8, <1>9, DropOne
<1> HIDE DEF left
<1>11. /\ left.tables = TablesAt(10) /\ (left.lifecycle <=> d.lifecycle)
       /\ left.roles = d.roles /\ left.perms = perms /\ left.grants = grants
       /\ left.users = d.users /\ left.userRole = d.userRole
  BY <1>4, <1>6, <1>8, <1>9, <1>10 DEF Granted, LostTables
<1>12. Holds(left, 10) /\ 10 \in Base .. Newest
  BY <1>3, <1>5, <1>10, <1>11, NewestIs DEF Holds, Base
<1> QED BY <1>2, <1>10, <1>11, <1>12, Reached DEF SameAccounts, Apply

(* The first revision takes everything with it.                              *)
LEMMA BaseDown ==
  ASSUME NEW d \in Schemas, AtRevision(d), d.rev = 1
  PROVE  Reaches(Apply(d, Down_ceda51d8de79, 0), 0)
<1> DEFINE ts == <<"user_role", "role_permission", "users", "roles", "permissions">>
           left == After(d, DropTables(ts))[Len(DropTables(ts))]
           S == {ts[i] : i \in 1 .. Len(ts)}
<1>1. d.ok /\ d.tables = RbacTables /\ ~d.lifecycle /\ ~d.queued
  BY DEF AtRevision, Holds, TablesAt
<1>2. Len(ts) = 5 /\ DOMAIN ts = 1 .. Len(ts)
  OBVIOUS
<1>3. Droppable(d.tables, ts)
  BY <1>1 DEF Droppable, RbacTables, References
<1>4. S = RbacTables
  BY <1>2 DEF RbacTables
<1>5. Down_ceda51d8de79 = DropTables(ts)
  BY DEF Down_ceda51d8de79
<1> HIDE DEF ts
<1>6. left \in Schemas /\ left.ok /\ LostTables(d, left, S)
  <2>1. Len(ts) \in Nat
    BY <1>2
  <2> QED BY <1>1, <1>2, <1>3, <2>1, DropAll, Zenon
<1> HIDE DEF S, left
<1>7. /\ left.tables = {} /\ ~left.lifecycle /\ ~left.queued
      /\ left.roles = {} /\ left.perms = {} /\ left.grants = {}
      /\ left.users = {} /\ left.userRole = {}
  BY <1>1, <1>4, <1>6 DEF LostTables, RbacTables
<1>8. Holds(left, 0) /\ 0 \in Base .. Newest
  BY <1>6, <1>7, NewestIs DEF Holds, Base, TablesAt
<1> QED BY <1>5, <1>6, <1>8, Reached DEF Apply, left

(* The revisions that only create or drop tables: upgrades,                  *)
LEMMA TablesUp ==
  ASSUME NEW d \in Schemas, AtRevision(d)
  PROVE  /\ d.rev = 0 =>
            LET e == Apply(d, Up_ceda51d8de79, 1) IN Reaches(e, 1) /\ SameAccounts(d, e)
         /\ d.rev = 1 =>
            LET e == Apply(d, Up_cff6f6e23123, 2) IN Reaches(e, 2) /\ SameAccounts(d, e)
         /\ d.rev = 3 =>
            LET e == Apply(d, Up_6d27c8f4a9b1, 4) IN Reaches(e, 4) /\ SameAccounts(d, e)
         /\ d.rev = 5 =>
            LET e == Apply(d, Up_71d4ab3c8f2e, 6) IN Reaches(e, 6) /\ SameAccounts(d, e)
         /\ d.rev = 7 =>
            LET e == Apply(d, Up_2c5f8a0d7e1b, 8) IN Reaches(e, 8) /\ SameAccounts(d, e)
         /\ d.rev = 8 =>
            LET e == Apply(d, Up_7f8f5b2f774d, 9) IN Reaches(e, 9) /\ SameAccounts(d, e)
         /\ d.rev = 9 =>
            LET e == Apply(d, Up_b9c1d2e3f4a5, 10) IN Reaches(e, 10) /\ SameAccounts(d, e)
<1>1. CASE d.rev = 0
  <2> DEFINE ts == <<"permissions", "roles", "users", "role_permission",
                    "user_role">>
  <2>1. d.tables = TablesAt(0)
    BY <1>1 DEF AtRevision, Holds
  <2>2. Len(ts) = 5 /\ Len(ts) \in Nat /\ DOMAIN ts = 1 .. Len(ts)
    OBVIOUS
  <2>3. Creatable(d.tables, ts)
    BY <2>1 DEF Creatable, TablesAt, References, Tables, ModelTables,
         RbacTables, ItemTables, HideoutTables, AuctionTables,
         TradeTables, CraftTables
  <2>4. TablesAt(1) = d.tables \union {ts[i] : i \in 1 .. Len(ts)}
    BY <2>1, <2>2 DEF TablesAt, RbacTables, ItemTables, HideoutTables, AuctionTables,
         TradeTables, CraftTables
  <2>5. 1 \in Base .. Newest /\ SameSeeds(d, 1)
    BY <1>1, NewestIs DEF SameSeeds, Base
  <2>6. Up_ceda51d8de79 = CreateTables(ts)
    BY DEF Up_ceda51d8de79
  <2> HIDE DEF ts
  <2>7. LET e == Apply(d, CreateTables(ts), 1) IN Reaches(e, 1) /\ SameAccounts(d, e)
    BY <1>1, <2>2, <2>3, <2>4, <2>5, CreatingRevision
  <2> QED BY <1>1, <2>6, <2>7
<1>2. CASE d.rev = 1
  <2> DEFINE ts == <<"refresh_tokens">>
  <2>1. d.tables = TablesAt(1)
    BY <1>2 DEF AtRevision, Holds
  <2>2. Len(ts) = 1 /\ Len(ts) \in Nat /\ DOMAIN ts = 1 .. Len(ts)
    OBVIOUS
  <2>3. Creatable(d.tables, ts)
    BY <2>1 DEF Creatable, TablesAt, References, Tables, ModelTables,
         RbacTables, ItemTables, HideoutTables, AuctionTables,
         TradeTables, CraftTables
  <2>4. TablesAt(2) = d.tables \union {ts[i] : i \in 1 .. Len(ts)}
    BY <2>1, <2>2 DEF TablesAt, RbacTables, ItemTables, HideoutTables, AuctionTables,
         TradeTables, CraftTables
  <2>5. 2 \in Base .. Newest /\ SameSeeds(d, 2)
    BY <1>2, NewestIs DEF SameSeeds, Base
  <2>6. Up_cff6f6e23123 = CreateTables(ts)
    BY DEF Up_cff6f6e23123
  <2> HIDE DEF ts
  <2>7. LET e == Apply(d, CreateTables(ts), 2) IN Reaches(e, 2) /\ SameAccounts(d, e)
    BY <1>2, <2>2, <2>3, <2>4, <2>5, CreatingRevision
  <2> QED BY <1>2, <2>6, <2>7
<1>3. CASE d.rev = 3
  <2> DEFINE ts == <<"items", "item_attributes", "sync_state">>
  <2>1. d.tables = TablesAt(3)
    BY <1>3 DEF AtRevision, Holds
  <2>2. Len(ts) = 3 /\ Len(ts) \in Nat /\ DOMAIN ts = 1 .. Len(ts)
    OBVIOUS
  <2>3. Creatable(d.tables, ts)
    BY <2>1 DEF Creatable, TablesAt, References, Tables, ModelTables,
         RbacTables, ItemTables, HideoutTables, AuctionTables,
         TradeTables, CraftTables
  <2>4. TablesAt(4) = d.tables \union {ts[i] : i \in 1 .. Len(ts)}
    BY <2>1, <2>2 DEF TablesAt, RbacTables, ItemTables, HideoutTables, AuctionTables,
         TradeTables, CraftTables
  <2>5. 4 \in Base .. Newest /\ SameSeeds(d, 4)
    BY <1>3, NewestIs DEF SameSeeds, Base
  <2>6. Up_6d27c8f4a9b1 = CreateTables(ts)
    BY DEF Up_6d27c8f4a9b1
  <2> HIDE DEF ts
  <2>7. LET e == Apply(d, CreateTables(ts), 4) IN Reaches(e, 4) /\ SameAccounts(d, e)
    BY <1>3, <2>2, <2>3, <2>4, <2>5, CreatingRevision
  <2> QED BY <1>3, <2>6, <2>7
<1>4. CASE d.rev = 5
  <2> DEFINE ts == <<"hideout_perks", "hideout_recipes", "hideout_recipe_items">>
  <2>1. d.tables = TablesAt(5)
    BY <1>4 DEF AtRevision, Holds
  <2>2. Len(ts) = 3 /\ Len(ts) \in Nat /\ DOMAIN ts = 1 .. Len(ts)
    OBVIOUS
  <2>3. Creatable(d.tables, ts)
    BY <2>1 DEF Creatable, TablesAt, References, Tables, ModelTables,
         RbacTables, ItemTables, HideoutTables, AuctionTables,
         TradeTables, CraftTables
  <2>4. TablesAt(6) = d.tables \union {ts[i] : i \in 1 .. Len(ts)}
    BY <2>1, <2>2 DEF TablesAt, RbacTables, ItemTables, HideoutTables, AuctionTables,
         TradeTables, CraftTables
  <2>5. 6 \in Base .. Newest /\ SameSeeds(d, 6)
    BY <1>4, NewestIs DEF SameSeeds, Base
  <2>6. Up_71d4ab3c8f2e = CreateTables(ts)
    BY DEF Up_71d4ab3c8f2e
  <2> HIDE DEF ts
  <2>7. LET e == Apply(d, CreateTables(ts), 6) IN Reaches(e, 6) /\ SameAccounts(d, e)
    BY <1>4, <2>2, <2>3, <2>4, <2>5, CreatingRevision
  <2> QED BY <1>4, <2>6, <2>7
<1>5. CASE d.rev = 7
  <2> DEFINE ts == <<"auction_trades", "auction_current_prices",
                    "auction_price_candles", "auction_refresh_queue",
                    "craft_profit_snapshots">>
  <2>1. d.tables = TablesAt(7)
    BY <1>5 DEF AtRevision, Holds
  <2>2. Len(ts) = 5 /\ Len(ts) \in Nat /\ DOMAIN ts = 1 .. Len(ts)
    OBVIOUS
  <2>3. Creatable(d.tables, ts)
    BY <2>1 DEF Creatable, TablesAt, References, Tables, ModelTables,
         RbacTables, ItemTables, HideoutTables, AuctionTables,
         TradeTables, CraftTables
  <2>4. TablesAt(8) = d.tables \union {ts[i] : i \in 1 .. Len(ts)}
    BY <2>1, <2>2 DEF TablesAt, RbacTables, ItemTables, HideoutTables, AuctionTables,
         TradeTables, CraftTables
  <2>5. 8 \in Base .. Newest /\ SameSeeds(d, 8)
    BY <1>5, NewestIs DEF SameSeeds, Base
  <2>6. Up_2c5f8a0d7e1b = CreateTables(ts)
    BY DEF Up_2c5f8a0d7e1b
  <2> HIDE DEF ts
  <2>7. LET e == Apply(d, CreateTables(ts), 8) IN Reaches(e, 8) /\ SameAccounts(d, e)
    BY <1>5, <2>2, <2>3, <2>4, <2>5, CreatingRevision
  <2> QED BY <1>5, <2>6, <2>7
<1>6. CASE d.rev = 8
  <2> DEFINE ts == <<"user_trade_positions", "user_trade_sales">>
  <2>1. d.tables = TablesAt(8)
    BY <1>6 DEF AtRevision, Holds
  <2>2. Len(ts) = 2 /\ Len(ts) \in Nat /\ DOMAIN ts = 1 .. Len(ts)
    OBVIOUS
  <2>3. Creatable(d.tables, ts)
    BY <2>1 DEF Creatable, TablesAt, References, Tables, ModelTables,
         RbacTables, ItemTables, HideoutTables, AuctionTables,
         TradeTables, CraftTables
  <2>4. TablesAt(9) = d.tables \union {ts[i] : i \in 1 .. Len(ts)}
    BY <2>1, <2>2 DEF TablesAt, RbacTables, ItemTables, HideoutTables, AuctionTables,
         TradeTables, CraftTables
  <2>5. 9 \in Base .. Newest /\ SameSeeds(d, 9)
    BY <1>6, NewestIs DEF SameSeeds, Base
  <2>6. Up_7f8f5b2f774d = CreateTables(ts)
    BY DEF Up_7f8f5b2f774d
  <2> HIDE DEF ts
  <2>7. LET e == Apply(d, CreateTables(ts), 9) IN Reaches(e, 9) /\ SameAccounts(d, e)
    BY <1>6, <2>2, <2>3, <2>4, <2>5, CreatingRevision
  <2> QED BY <1>6, <2>6, <2>7
<1>7. CASE d.rev = 9
  <2> DEFINE ts == <<"user_trade_sales", "user_trade_positions">>
  <2>1. d.tables = TablesAt(9)
    BY <1>7 DEF AtRevision, Holds
  <2>2. Len(ts) = 2 /\ Len(ts) \in Nat /\ DOMAIN ts = 1 .. Len(ts)
    OBVIOUS
  <2>3. Droppable(d.tables, ts)
    BY <2>1 DEF Droppable, TablesAt, References, Tables, ModelTables,
         RbacTables, ItemTables, HideoutTables, AuctionTables,
         TradeTables, CraftTables
  <2>4. TablesAt(10) = d.tables \ {ts[i] : i \in 1 .. Len(ts)}
    BY <2>1, <2>2 DEF TablesAt, RbacTables, ItemTables, HideoutTables, AuctionTables,
         TradeTables, CraftTables
  <2>5. /\ {ts[i] : i \in 1 .. Len(ts)} \cap RbacTables = {}
        /\ IF "auction_refresh_queue" \in {ts[i] : i \in 1 .. Len(ts)} THEN 10 < 12
                                                        ELSE d.rev >= 8 => 10 >= 8
    BY <1>7, <2>2 DEF RbacTables
  <2>6. 10 \in Base .. Newest /\ SameSeeds(d, 10)
    BY <1>7, NewestIs DEF SameSeeds, Base
  <2>7. Up_b9c1d2e3f4a5 = DropTables(ts)
    BY DEF Up_b9c1d2e3f4a5
  <2> HIDE DEF ts
  <2>8. LET e == Apply(d, DropTables(ts), 10) IN Reaches(e, 10) /\ SameAccounts(d, e)
    BY <1>7, <2>2, <2>3, <2>4, <2>5, <2>6, DroppingRevision, Zenon
  <2> QED BY <1>7, <2>7, <2>8
<1> QED BY <1>1, <1>2, <1>3, <1>4, <1>5, <1>6, <1>7

(* and downgrades.                                                           *)
LEMMA TablesDown ==
  ASSUME NEW d \in Schemas, AtRevision(d)
  PROVE  /\ d.rev = 2 =>
            LET e == Apply(d, Down_cff6f6e23123, 1) IN Reaches(e, 1) /\ SameAccounts(d, e)
         /\ d.rev = 4 =>
            LET e == Apply(d, Down_6d27c8f4a9b1, 3) IN Reaches(e, 3) /\ SameAccounts(d, e)
         /\ d.rev = 6 =>
            LET e == Apply(d, Down_71d4ab3c8f2e, 5) IN Reaches(e, 5) /\ SameAccounts(d, e)
         /\ d.rev = 8 =>
            LET e == Apply(d, Down_2c5f8a0d7e1b, 7) IN Reaches(e, 7) /\ SameAccounts(d, e)
         /\ d.rev = 9 =>
            LET e == Apply(d, Down_7f8f5b2f774d, 8) IN Reaches(e, 8) /\ SameAccounts(d, e)
         /\ d.rev = 10 =>
            LET e == Apply(d, Down_b9c1d2e3f4a5, 9) IN Reaches(e, 9) /\ SameAccounts(d, e)
<1>1. CASE d.rev = 2
  <2> DEFINE ts == <<"refresh_tokens">>
  <2>1. d.tables = TablesAt(2)
    BY <1>1 DEF AtRevision, Holds
  <2>2. Len(ts) = 1 /\ Len(ts) \in Nat /\ DOMAIN ts = 1 .. Len(ts)
    OBVIOUS
  <2>3. Droppable(d.tables, ts)
    BY <2>1 DEF Droppable, TablesAt, References, Tables, ModelTables,
         RbacTables, ItemTables, HideoutTables, AuctionTables,
         TradeTables, CraftTables
  <2>4. TablesAt(1) = d.tables \ {ts[i] : i \in 1 .. Len(ts)}
    BY <2>1, <2>2 DEF TablesAt, RbacTables, ItemTables, HideoutTables, AuctionTables,
         TradeTables, CraftTables
  <2>5. /\ {ts[i] : i \in 1 .. Len(ts)} \cap RbacTables = {}
        /\ IF "auction_refresh_queue" \in {ts[i] : i \in 1 .. Len(ts)} THEN 1 < 12
                                                        ELSE d.rev >= 8 => 1 >= 8
    BY <1>1, <2>2 DEF RbacTables
  <2>6. 1 \in Base .. Newest /\ SameSeeds(d, 1)
    BY <1>1, NewestIs DEF SameSeeds, Base
  <2>7. Down_cff6f6e23123 = DropTables(ts)
    BY DEF Down_cff6f6e23123
  <2> HIDE DEF ts
  <2>8. LET e == Apply(d, DropTables(ts), 1) IN Reaches(e, 1) /\ SameAccounts(d, e)
    BY <1>1, <2>2, <2>3, <2>4, <2>5, <2>6, DroppingRevision, Zenon
  <2> QED BY <1>1, <2>7, <2>8
<1>2. CASE d.rev = 4
  <2> DEFINE ts == <<"sync_state", "item_attributes", "items">>
  <2>1. d.tables = TablesAt(4)
    BY <1>2 DEF AtRevision, Holds
  <2>2. Len(ts) = 3 /\ Len(ts) \in Nat /\ DOMAIN ts = 1 .. Len(ts)
    OBVIOUS
  <2>3. Droppable(d.tables, ts)
    BY <2>1 DEF Droppable, TablesAt, References, Tables, ModelTables,
         RbacTables, ItemTables, HideoutTables, AuctionTables,
         TradeTables, CraftTables
  <2>4. TablesAt(3) = d.tables \ {ts[i] : i \in 1 .. Len(ts)}
    BY <2>1, <2>2 DEF TablesAt, RbacTables, ItemTables, HideoutTables, AuctionTables,
         TradeTables, CraftTables
  <2>5. /\ {ts[i] : i \in 1 .. Len(ts)} \cap RbacTables = {}
        /\ IF "auction_refresh_queue" \in {ts[i] : i \in 1 .. Len(ts)} THEN 3 < 12
                                                        ELSE d.rev >= 8 => 3 >= 8
    BY <1>2, <2>2 DEF RbacTables
  <2>6. 3 \in Base .. Newest /\ SameSeeds(d, 3)
    BY <1>2, NewestIs DEF SameSeeds, Base
  <2>7. Down_6d27c8f4a9b1 = DropTables(ts)
    BY DEF Down_6d27c8f4a9b1
  <2> HIDE DEF ts
  <2>8. LET e == Apply(d, DropTables(ts), 3) IN Reaches(e, 3) /\ SameAccounts(d, e)
    BY <1>2, <2>2, <2>3, <2>4, <2>5, <2>6, DroppingRevision, Zenon
  <2> QED BY <1>2, <2>7, <2>8
<1>3. CASE d.rev = 6
  <2> DEFINE ts == <<"hideout_recipe_items", "hideout_recipes", "hideout_perks">>
  <2>1. d.tables = TablesAt(6)
    BY <1>3 DEF AtRevision, Holds
  <2>2. Len(ts) = 3 /\ Len(ts) \in Nat /\ DOMAIN ts = 1 .. Len(ts)
    OBVIOUS
  <2>3. Droppable(d.tables, ts)
    BY <2>1 DEF Droppable, TablesAt, References, Tables, ModelTables,
         RbacTables, ItemTables, HideoutTables, AuctionTables,
         TradeTables, CraftTables
  <2>4. TablesAt(5) = d.tables \ {ts[i] : i \in 1 .. Len(ts)}
    BY <2>1, <2>2 DEF TablesAt, RbacTables, ItemTables, HideoutTables, AuctionTables,
         TradeTables, CraftTables
  <2>5. /\ {ts[i] : i \in 1 .. Len(ts)} \cap RbacTables = {}
        /\ IF "auction_refresh_queue" \in {ts[i] : i \in 1 .. Len(ts)} THEN 5 < 12
                                                        ELSE d.rev >= 8 => 5 >= 8
    BY <1>3, <2>2 DEF RbacTables
  <2>6. 5 \in Base .. Newest /\ SameSeeds(d, 5)
    BY <1>3, NewestIs DEF SameSeeds, Base
  <2>7. Down_71d4ab3c8f2e = DropTables(ts)
    BY DEF Down_71d4ab3c8f2e
  <2> HIDE DEF ts
  <2>8. LET e == Apply(d, DropTables(ts), 5) IN Reaches(e, 5) /\ SameAccounts(d, e)
    BY <1>3, <2>2, <2>3, <2>4, <2>5, <2>6, DroppingRevision, Zenon
  <2> QED BY <1>3, <2>7, <2>8
<1>4. CASE d.rev = 8
  <2> DEFINE ts == <<"craft_profit_snapshots", "auction_refresh_queue",
                    "auction_price_candles", "auction_current_prices",
                    "auction_trades">>
  <2>1. d.tables = TablesAt(8)
    BY <1>4 DEF AtRevision, Holds
  <2>2. Len(ts) = 5 /\ Len(ts) \in Nat /\ DOMAIN ts = 1 .. Len(ts)
    OBVIOUS
  <2>3. Droppable(d.tables, ts)
    BY <2>1 DEF Droppable, TablesAt, References, Tables, ModelTables,
         RbacTables, ItemTables, HideoutTables, AuctionTables,
         TradeTables, CraftTables
  <2>4. TablesAt(7) = d.tables \ {ts[i] : i \in 1 .. Len(ts)}
    BY <2>1, <2>2 DEF TablesAt, RbacTables, ItemTables, HideoutTables, AuctionTables,
         TradeTables, CraftTables
  <2>5. /\ {ts[i] : i \in 1 .. Len(ts)} \cap RbacTables = {}
        /\ IF "auction_refresh_queue" \in {ts[i] : i \in 1 .. Len(ts)} THEN 7 < 12
                                                        ELSE d.rev >= 8 => 7 >= 8
    BY <1>4, <2>2 DEF RbacTables
  <2>6. 7 \in Base .. Newest /\ SameSeeds(d, 7)
    BY <1>4, NewestIs DEF SameSeeds, Base
  <2>7. Down_2c5f8a0d7e1b = DropTables(ts)
    BY DEF Down_2c5f8a0d7e1b
  <2> HIDE DEF ts
  <2>8. LET e == Apply(d, DropTables(ts), 7) IN Reaches(e, 7) /\ SameAccounts(d, e)
    BY <1>4, <2>2, <2>3, <2>4, <2>5, <2>6, DroppingRevision, Zenon
  <2> QED BY <1>4, <2>7, <2>8
<1>5. CASE d.rev = 9
  <2> DEFINE ts == <<"user_trade_sales", "user_trade_positions">>
  <2>1. d.tables = TablesAt(9)
    BY <1>5 DEF AtRevision, Holds
  <2>2. Len(ts) = 2 /\ Len(ts) \in Nat /\ DOMAIN ts = 1 .. Len(ts)
    OBVIOUS
  <2>3. Droppable(d.tables, ts)
    BY <2>1 DEF Droppable, TablesAt, References, Tables, ModelTables,
         RbacTables, ItemTables, HideoutTables, AuctionTables,
         TradeTables, CraftTables
  <2>4. TablesAt(8) = d.tables \ {ts[i] : i \in 1 .. Len(ts)}
    BY <2>1, <2>2 DEF TablesAt, RbacTables, ItemTables, HideoutTables, AuctionTables,
         TradeTables, CraftTables
  <2>5. /\ {ts[i] : i \in 1 .. Len(ts)} \cap RbacTables = {}
        /\ IF "auction_refresh_queue" \in {ts[i] : i \in 1 .. Len(ts)} THEN 8 < 12
                                                        ELSE d.rev >= 8 => 8 >= 8
    BY <1>5, <2>2 DEF RbacTables
  <2>6. 8 \in Base .. Newest /\ SameSeeds(d, 8)
    BY <1>5, NewestIs DEF SameSeeds, Base
  <2>7. Down_7f8f5b2f774d = DropTables(ts)
    BY DEF Down_7f8f5b2f774d
  <2> HIDE DEF ts
  <2>8. LET e == Apply(d, DropTables(ts), 8) IN Reaches(e, 8) /\ SameAccounts(d, e)
    BY <1>5, <2>2, <2>3, <2>4, <2>5, <2>6, DroppingRevision, Zenon
  <2> QED BY <1>5, <2>7, <2>8
<1>6. CASE d.rev = 10
  <2> DEFINE ts == <<"user_trade_positions", "user_trade_sales">>
  <2>1. d.tables = TablesAt(10)
    BY <1>6 DEF AtRevision, Holds
  <2>2. Len(ts) = 2 /\ Len(ts) \in Nat /\ DOMAIN ts = 1 .. Len(ts)
    OBVIOUS
  <2>3. Creatable(d.tables, ts)
    BY <2>1 DEF Creatable, TablesAt, References, Tables, ModelTables,
         RbacTables, ItemTables, HideoutTables, AuctionTables,
         TradeTables, CraftTables
  <2>4. TablesAt(9) = d.tables \union {ts[i] : i \in 1 .. Len(ts)}
    BY <2>1, <2>2 DEF TablesAt, RbacTables, ItemTables, HideoutTables, AuctionTables,
         TradeTables, CraftTables
  <2>5. 9 \in Base .. Newest /\ SameSeeds(d, 9)
    BY <1>6, NewestIs DEF SameSeeds, Base
  <2>6. Down_b9c1d2e3f4a5 = CreateTables(ts)
    BY DEF Down_b9c1d2e3f4a5
  <2> HIDE DEF ts
  <2>7. LET e == Apply(d, CreateTables(ts), 9) IN Reaches(e, 9) /\ SameAccounts(d, e)
    BY <1>6, <2>2, <2>3, <2>4, <2>5, CreatingRevision
  <2> QED BY <1>6, <2>6, <2>7
<1> QED BY <1>1, <1>2, <1>3, <1>4, <1>5, <1>6

(* Every revision leads from what the database holds at one to what it holds *)
(* at the next, and back; only those of the roles and the first take         *)
(* anything from the accounts.                                               *)
LEMMA UpgradesReach ==
  ASSUME NEW d \in Schemas, AtRevision(d), d.rev < Newest
  PROVE  LET e == Apply(d, Upgrades[d.rev + 1], d.rev + 1)
         IN Reaches(e, d.rev + 1) /\ SameAccounts(d, e)
<1>1. d.rev \in 0 .. 11
  BY NewestIs DEF Schemas, Base
<1>2. /\ Upgrades[1] = Up_ceda51d8de79 /\ Upgrades[2] = Up_cff6f6e23123
      /\ Upgrades[3] = Up_40049f66a7e6 /\ Upgrades[4] = Up_6d27c8f4a9b1
      /\ Upgrades[5] = Up_916c9994ae6c /\ Upgrades[6] = Up_71d4ab3c8f2e
      /\ Upgrades[7] = Up_9f1c7a4b2d8e /\ Upgrades[8] = Up_2c5f8a0d7e1b
      /\ Upgrades[9] = Up_7f8f5b2f774d /\ Upgrades[10] = Up_b9c1d2e3f4a5
      /\ Upgrades[11] = Up_c8d1e2f3a4b5 /\ Upgrades[12] = Up_d1e2f3a4b5c6
  BY DEF Upgrades
<1>3. CASE d.rev = 0
  <2>1. d.rev + 1 = 1 /\ Upgrades[1] = Up_ceda51d8de79
    BY <1>2, <1>3
  <2>2. LET e == Apply(d, Up_ceda51d8de79, 1) IN Reaches(e, 1) /\ SameAccounts(d, e)
    BY <1>3, TablesUp
  <2> QED BY <2>1, <2>2, Zenon
<1>4. CASE d.rev = 1
  <2>1. d.rev + 1 = 2 /\ Upgrades[2] = Up_cff6f6e23123
    BY <1>2, <1>4
  <2>2. LET e == Apply(d, Up_cff6f6e23123, 2) IN Reaches(e, 2) /\ SameAccounts(d, e)
    BY <1>4, TablesUp
  <2> QED BY <2>1, <2>2, Zenon
<1>5. CASE d.rev = 2
  <2>1. d.rev + 1 = 3 /\ Upgrades[3] = Up_40049f66a7e6
    BY <1>2, <1>5
  <2>2. LET e == Apply(d, Up_40049f66a7e6, 3) IN Reaches(e, 3) /\ SameAccounts(d, e)
    BY <1>5, RolesUp
  <2> QED BY <2>1, <2>2, Zenon
<1>6. CASE d.rev = 3
  <2>1. d.rev + 1 = 4 /\ Upgrades[4] = Up_6d27c8f4a9b1
    BY <1>2, <1>6
  <2>2. LET e == Apply(d, Up_6d27c8f4a9b1, 4) IN Reaches(e, 4) /\ SameAccounts(d, e)
    BY <1>6, TablesUp
  <2> QED BY <2>1, <2>2, Zenon
<1>7. CASE d.rev = 4
  <2>1. d.rev + 1 = 5 /\ Upgrades[5] = <<>> /\ 5 \in Base .. Newest
    BY <1>2, <1>7, NewestIs DEF Up_916c9994ae6c, Base
  <2>2. LET e == Apply(d, <<>>, 5) IN Reaches(e, 5) /\ SameAccounts(d, e)
    BY <1>7, <2>1, NothingMoves
  <2> QED BY <2>1, <2>2, Zenon
<1>8. CASE d.rev = 5
  <2>1. d.rev + 1 = 6 /\ Upgrades[6] = Up_71d4ab3c8f2e
    BY <1>2, <1>8
  <2>2. LET e == Apply(d, Up_71d4ab3c8f2e, 6) IN Reaches(e, 6) /\ SameAccounts(d, e)
    BY <1>8, TablesUp
  <2> QED BY <2>1, <2>2, Zenon
<1>9. CASE d.rev = 6
  <2>1. d.rev + 1 = 7 /\ Upgrades[7] = Up_9f1c7a4b2d8e
    BY <1>2, <1>9
  <2>2. LET e == Apply(d, Up_9f1c7a4b2d8e, 7) IN Reaches(e, 7) /\ SameAccounts(d, e)
    BY <1>9, GrantsUp
  <2> QED BY <2>1, <2>2, Zenon
<1>10. CASE d.rev = 7
  <2>1. d.rev + 1 = 8 /\ Upgrades[8] = Up_2c5f8a0d7e1b
    BY <1>2, <1>10
  <2>2. LET e == Apply(d, Up_2c5f8a0d7e1b, 8) IN Reaches(e, 8) /\ SameAccounts(d, e)
    BY <1>10, TablesUp
  <2> QED BY <2>1, <2>2, Zenon
<1>11. CASE d.rev = 8
  <2>1. d.rev + 1 = 9 /\ Upgrades[9] = Up_7f8f5b2f774d
    BY <1>2, <1>11
  <2>2. LET e == Apply(d, Up_7f8f5b2f774d, 9) IN Reaches(e, 9) /\ SameAccounts(d, e)
    BY <1>11, TablesUp
  <2> QED BY <2>1, <2>2, Zenon
<1>12. CASE d.rev = 9
  <2>1. d.rev + 1 = 10 /\ Upgrades[10] = Up_b9c1d2e3f4a5
    BY <1>2, <1>12
  <2>2. LET e == Apply(d, Up_b9c1d2e3f4a5, 10) IN Reaches(e, 10) /\ SameAccounts(d, e)
    BY <1>12, TablesUp
  <2> QED BY <2>1, <2>2, Zenon
<1>13. CASE d.rev = 10
  <2>1. d.rev + 1 = 11 /\ Upgrades[11] = Up_c8d1e2f3a4b5
    BY <1>2, <1>13
  <2>2. LET e == Apply(d, Up_c8d1e2f3a4b5, 11) IN Reaches(e, 11) /\ SameAccounts(d, e)
    BY <1>13, TradingUp
  <2> QED BY <2>1, <2>2, Zenon
<1>14. CASE d.rev = 11
  <2>1. d.rev + 1 = 12 /\ Upgrades[12] = Up_d1e2f3a4b5c6
    BY <1>2, <1>14
  <2>2. LET e == Apply(d, Up_d1e2f3a4b5c6, 12) IN Reaches(e, 12) /\ SameAccounts(d, e)
    BY <1>14, ColumnsUp
  <2> QED BY <2>1, <2>2, Zenon
<1> QED BY <1>1, <1>3, <1>4, <1>5, <1>6, <1>7, <1>8,
           <1>9, <1>10, <1>11, <1>12, <1>13, <1>14

LEMMA DowngradesReach ==
  ASSUME NEW d \in Schemas, AtRevision(d), d.rev > 0
  PROVE  LET e == Apply(d, Downgrades[d.rev], d.rev - 1)
         IN Reaches(e, d.rev - 1) /\ (d.rev > RolesRev => SameAccounts(d, e))
<1>1. d.rev \in 1 .. 12
  BY NewestIs DEF Schemas, Base
<1>2. /\ Downgrades[1] = Down_ceda51d8de79 /\ Downgrades[2] = Down_cff6f6e23123
      /\ Downgrades[3] = Down_40049f66a7e6 /\ Downgrades[4] = Down_6d27c8f4a9b1
      /\ Downgrades[5] = Down_916c9994ae6c /\ Downgrades[6] = Down_71d4ab3c8f2e
      /\ Downgrades[7] = Down_9f1c7a4b2d8e /\ Downgrades[8] = Down_2c5f8a0d7e1b
      /\ Downgrades[9] = Down_7f8f5b2f774d /\ Downgrades[10] = Down_b9c1d2e3f4a5
      /\ Downgrades[11] = Down_c8d1e2f3a4b5 /\ Downgrades[12] = Down_d1e2f3a4b5c6
  BY DEF Downgrades
<1>3. CASE d.rev = 1
  <2>1. d.rev - 1 = 0 /\ Downgrades[d.rev] = Down_ceda51d8de79 /\ ~(d.rev > RolesRev)
    BY <1>2, <1>3 DEF RolesRev
  <2>2. Reaches(Apply(d, Down_ceda51d8de79, 0), 0)
    BY <1>3, BaseDown
  <2> QED BY <2>1, <2>2, Zenon
<1>4. CASE d.rev = 2
  <2>1. d.rev - 1 = 1 /\ Downgrades[d.rev] = Down_cff6f6e23123
    BY <1>2, <1>4
  <2>2. LET e == Apply(d, Down_cff6f6e23123, 1) IN Reaches(e, 1) /\ SameAccounts(d, e)
    BY <1>4, TablesDown
  <2> QED BY <2>1, <2>2, Zenon
<1>5. CASE d.rev = 3
  <2>1. d.rev - 1 = 2 /\ Downgrades[d.rev] = Down_40049f66a7e6 /\ ~(d.rev > RolesRev)
    BY <1>2, <1>5 DEF RolesRev
  <2>2. Reaches(Apply(d, Down_40049f66a7e6, 2), 2)
    BY <1>5, RolesDown
  <2> QED BY <2>1, <2>2, Zenon
<1>6. CASE d.rev = 4
  <2>1. d.rev - 1 = 3 /\ Downgrades[d.rev] = Down_6d27c8f4a9b1
    BY <1>2, <1>6
  <2>2. LET e == Apply(d, Down_6d27c8f4a9b1, 3) IN Reaches(e, 3) /\ SameAccounts(d, e)
    BY <1>6, TablesDown
  <2> QED BY <2>1, <2>2, Zenon
<1>7. CASE d.rev = 5
  <2>1. d.rev - 1 = 4 /\ Downgrades[d.rev] = <<>> /\ 4 \in Base .. Newest
    BY <1>2, <1>7, NewestIs DEF Down_916c9994ae6c, Base
  <2>2. LET e == Apply(d, <<>>, 4) IN Reaches(e, 4) /\ SameAccounts(d, e)
    BY <1>7, <2>1, NothingMoves
  <2> QED BY <2>1, <2>2, Zenon
<1>8. CASE d.rev = 6
  <2>1. d.rev - 1 = 5 /\ Downgrades[d.rev] = Down_71d4ab3c8f2e
    BY <1>2, <1>8
  <2>2. LET e == Apply(d, Down_71d4ab3c8f2e, 5) IN Reaches(e, 5) /\ SameAccounts(d, e)
    BY <1>8, TablesDown
  <2> QED BY <2>1, <2>2, Zenon
<1>9. CASE d.rev = 7
  <2>1. d.rev - 1 = 6 /\ Downgrades[d.rev] = Down_9f1c7a4b2d8e
    BY <1>2, <1>9
  <2>2. LET e == Apply(d, Down_9f1c7a4b2d8e, 6) IN Reaches(e, 6) /\ SameAccounts(d, e)
    BY <1>9, GrantsDown
  <2> QED BY <2>1, <2>2, Zenon
<1>10. CASE d.rev = 8
  <2>1. d.rev - 1 = 7 /\ Downgrades[d.rev] = Down_2c5f8a0d7e1b
    BY <1>2, <1>10
  <2>2. LET e == Apply(d, Down_2c5f8a0d7e1b, 7) IN Reaches(e, 7) /\ SameAccounts(d, e)
    BY <1>10, TablesDown
  <2> QED BY <2>1, <2>2, Zenon
<1>11. CASE d.rev = 9
  <2>1. d.rev - 1 = 8 /\ Downgrades[d.rev] = Down_7f8f5b2f774d
    BY <1>2, <1>11
  <2>2. LET e == Apply(d, Down_7f8f5b2f774d, 8) IN Reaches(e, 8) /\ SameAccounts(d, e)
    BY <1>11, TablesDown
  <2> QED BY <2>1, <2>2, Zenon
<1>12. CASE d.rev = 10
  <2>1. d.rev - 1 = 9 /\ Downgrades[d.rev] = Down_b9c1d2e3f4a5
    BY <1>2, <1>12
  <2>2. LET e == Apply(d, Down_b9c1d2e3f4a5, 9) IN Reaches(e, 9) /\ SameAccounts(d, e)
    BY <1>12, TablesDown
  <2> QED BY <2>1, <2>2, Zenon
<1>13. CASE d.rev = 11
  <2>1. d.rev - 1 = 10 /\ Downgrades[d.rev] = Down_c8d1e2f3a4b5
    BY <1>2, <1>13
  <2>2. LET e == Apply(d, Down_c8d1e2f3a4b5, 10) IN Reaches(e, 10) /\ SameAccounts(d, e)
    BY <1>13, TradingDown
  <2> QED BY <2>1, <2>2, Zenon
<1>14. CASE d.rev = 12
  <2>1. d.rev - 1 = 11 /\ Downgrades[d.rev] = Down_d1e2f3a4b5c6
    BY <1>2, <1>14
  <2>2. LET e == Apply(d, Down_d1e2f3a4b5c6, 11) IN Reaches(e, 11) /\ SameAccounts(d, e)
    BY <1>14, ColumnsDown
  <2> QED BY <2>1, <2>2, Zenon
<1> QED BY <1>1, <1>3, <1>4, <1>5, <1>6, <1>7, <1>8,
           <1>9, <1>10, <1>11, <1>12, <1>13, <1>14

-----------------------------------------------------------------------------
(* The statements of the process, each in a transaction of its own           *)

LEMMA EmptyHolds == Empty \in Schemas /\ AtRevision(Empty) /\ Empty.rev = 0 /\ Empty.users = {}
BY NewestIs DEF Empty, Schemas, AtRevision, Holds, TablesAt, Base

LEMMA UsableIs ==
  ASSUME NEW d \in Schemas, AtRevision(d), RbacTables \subseteq d.tables
  PROVE  d.rev >= 1
<1>1. "users" \in d.tables
  BY DEF RbacTables
<1>2. d.rev \in Nat /\ d.tables = TablesAt(d.rev)
  BY DEF Schemas, Base, AtRevision, Holds
<1>3. d.rev # 0
  BY <1>1, <1>2 DEF TablesAt
<1> QED BY <1>2, <1>3

WithAccounts(d, users, userRole) == [d EXCEPT !.users = users, !.userRole = userRole]

LEMMA AccountsChange ==
  ASSUME NEW d \in Schemas, AtRevision(d), d.rev >= 1,
         NEW users \in SUBSET User, NEW userRole \in SUBSET (User \X AllRoles),
         \A row \in userRole : row[1] \in users /\ row[2] \in d.roles
  PROVE  LET e == WithAccounts(d, users, userRole)
         IN e \in Schemas /\ AtRevision(e) /\ e.rev = d.rev /\ e.users = users /\ e.userRole = userRole
<1> DEFINE e == WithAccounts(d, users, userRole)
<1>1. /\ e \in Schemas /\ e.rev = d.rev /\ e.ok = d.ok /\ e.tables = d.tables
      /\ e.lifecycle = d.lifecycle /\ e.queued = d.queued
      /\ e.roles = d.roles /\ e.perms = d.perms /\ e.grants = d.grants
      /\ e.users = users /\ e.userRole = userRole
  BY DEF Schemas, AllRoles, WithAccounts
<1>2. d.rev \in Nat
  BY DEF Schemas, Base
<1> HIDE DEF e
<1>3. AtRevision(e)
  BY <1>1, <1>2 DEF AtRevision, Holds
<1> QED BY <1>1, <1>3 DEF e

LEMMA QueueChange ==
  ASSUME NEW d \in Schemas, AtRevision(d), d.lifecycle
  PROVE  LET e == [d EXCEPT !.queued = TRUE]
         IN /\ e \in Schemas /\ AtRevision(e)
            /\ e.rev = d.rev /\ e.users = d.users /\ e.userRole = d.userRole
<1> DEFINE e == [d EXCEPT !.queued = TRUE]
<1>1. /\ e \in Schemas /\ e.rev = d.rev /\ e.ok = d.ok /\ e.tables = d.tables
      /\ e.lifecycle = d.lifecycle
      /\ e.roles = d.roles /\ e.perms = d.perms /\ e.grants = d.grants
      /\ e.users = d.users /\ e.userRole = d.userRole
  BY DEF Schemas
<1>2. d.rev \in Nat
  BY DEF Schemas, Base
<1> HIDE DEF e
<1>3. d.rev >= 12
  BY DEF AtRevision, Holds
<1>4. AtRevision(e)
  BY <1>1, <1>2, <1>3 DEF AtRevision, Holds
<1> QED BY <1>1, <1>4 DEF e

LEMMA HandChange ==
  ASSUME NEW d \in Schemas, AtRevision(d), d.rev < GrantsRev, "user" \in d.roles,
         NEW p \in HandMade
  PROVE  LET e == [d EXCEPT !.perms = @ \union {p}, !.grants = @ \union {<<"user", p>>}]
         IN /\ e \in Schemas /\ AtRevision(e)
            /\ e.rev = d.rev /\ e.users = d.users /\ e.userRole = d.userRole
<1> DEFINE perms == d.perms \union {p}
           grants == d.grants \union {<<"user", p>>}
           e == [d EXCEPT !.perms = perms, !.grants = grants]
<1>1. perms \in SUBSET Permission /\ grants \in SUBSET (AllRoles \X Permission)
  BY PermissionTypes DEF Permission, AllRoles
<1>2. /\ \A row \in grants : row[1] \in d.roles /\ row[2] \in perms
      /\ (ByHand \/ <<"user", "system:read">> \notin grants)
  <2>1. ByHand \/ p # "system:read"
    BY DEF ByHand
  <2> QED BY <2>1 DEF AtRevision, Holds
<1> HIDE DEF perms, grants
<1>3. Granted(d, e, perms, grants)
  BY <1>1, PermissionsChange, Zenon
<1>4. d.rev \in Nat /\ d.rev < 7 /\ d.rev >= 1
  <2>1. d.rev \in Nat /\ d.rev < 7
    BY DEF Schemas, Base, GrantsRev
  <2>2. d.rev >= 3
    BY <2>1 DEF AtRevision, Holds
  <2> QED BY <2>1, <2>2
<1> HIDE DEF e
<1>5. AtRevision(e)
  BY <1>2, <1>3, <1>4 DEF AtRevision, Holds, Granted
<1>6. e \in Schemas /\ e.rev = d.rev /\ e.users = d.users /\ e.userRole = d.userRole
  BY <1>3 DEF Granted
<1> QED BY <1>5, <1>6 DEF e, perms, grants

-----------------------------------------------------------------------------
(* The invariant is inductive                                                *)

LEMMA InitInv == Init => IInv
BY EmptyHolds, NewestIs DEF Init, IInv, Base

LEMMA StepInv == IInv /\ [Next]_vars => IInv'
<1> SUFFICES ASSUME IInv, [Next]_vars PROVE IInv'
  OBVIOUS
<1> USE DEF SameAccounts
<1>0. /\ db \in Schemas /\ work \in Schemas /\ AtRevision(db) /\ AtRevision(work)
      /\ db.rev \in Nat /\ work.rev \in Nat /\ goal \in Nat
      /\ db.rev \in Base .. Newest /\ Base \in Base .. Newest /\ Newest \in Base .. Newest
  BY NewestIs DEF IInv, Schemas, Base
<1>1. CASE OperatorCommand
  <2>1. goal' \in Base .. Newest
    BY <1>1, GoalsAreRevisions DEF OperatorCommand, Begin
  <2>2. runner = "none" /\ runner' = "operator" /\ work' = db /\ UNCHANGED <<db, server, orphans>>
    BY <1>1 DEF OperatorCommand, Begin
  <2> QED BY <1>0, <2>1, <2>2 DEF IInv, AtRevision
<1>2. CASE StartContainer
  <2>1. /\ runner = "none" /\ runner' = "container" /\ work' = db /\ goal' = Newest
        /\ server' = "migrating" /\ UNCHANGED <<db, orphans>>
    BY <1>2 DEF StartContainer, Begin
  <2> QED BY <1>0, <2>1 DEF IInv, AtRevision
<1>3. CASE UpgradeOne
  <2>1. /\ work.rev < goal /\ work.rev < Newest /\ UNCHANGED <<db, runner, goal, server, orphans>>
        /\ work' = Apply(work, Upgrades[work.rev + 1], work.rev + 1)
    BY <1>0, <1>3, NewestIs DEF UpgradeOne, IInv, Base
  <2>2. work' \in Schemas /\ AtRevision(work') /\ SameAccounts(work, work')
    BY <1>0, <2>1, UpgradesReach, Zenon DEF Reaches
  <2> QED BY <1>0, <2>1, <2>2 DEF IInv, AtRevision
<1>4. CASE DowngradeOne
  <2>1. /\ work.rev > goal /\ work.rev > 0 /\ UNCHANGED <<db, runner, goal, server, orphans>>
        /\ work' = Apply(work, Downgrades[work.rev], work.rev - 1)
    BY <1>0, <1>4 DEF DowngradeOne
  <2>2. work' \in Schemas /\ AtRevision(work') /\ (work.rev > RolesRev => SameAccounts(work, work'))
    BY <1>0, <2>1, DowngradesReach, Zenon DEF Reaches
  <2>3. goal >= RolesRev => work.rev > RolesRev
    BY <1>0, <2>1 DEF RolesRev
  <2> QED BY <1>0, <2>1, <2>2, <2>3 DEF IInv, AtRevision
<1>5. CASE Commit
  <2>1. /\ runner # "none" /\ db' = work /\ runner' = "none" /\ goal' = Base /\ work' = Empty
        /\ orphans' = IF goal < RolesRev THEN work.users ELSE orphans
        /\ server' = IF runner = "container" THEN "starting" ELSE server
    BY <1>5 DEF Commit, EndCommand
  <2>2. goal < RolesRev \/ (goal >= RolesRev /\ SameAccounts(db, work))
    BY <1>0, <2>1 DEF IInv, RolesRev
  <2> QED BY <1>0, <2>1, <2>2, EmptyHolds DEF IInv, AtRevision
<1>6. CASE RollBack
  <2>1. /\ runner' = "none" /\ goal' = Base /\ work' = Empty /\ UNCHANGED <<db, orphans>>
        /\ server' = IF runner = "container" THEN "failed" ELSE server
    BY <1>6 DEF RollBack, EndCommand
  <2> QED BY <1>0, <2>1, EmptyHolds DEF IInv, AtRevision
<1>7. CASE StartServing
  <2>1. server = "starting" /\ server' = "serving" /\ UNCHANGED <<db, work, runner, goal, orphans>>
    BY <1>7 DEF StartServing
  <2> QED BY <1>0, <2>1 DEF IInv, AtRevision
<1>8. CASE SeedTestAdmin
  <2> DEFINE users == db.users \union {TestAdmin}
             userRole == db.userRole \union {<<TestAdmin, "admin">>}
  <2>1. /\ runner = "none" /\ server = "starting" /\ RbacTables \subseteq db.tables
        /\ "admin" \in db.roles
        /\ db' = WithAccounts(db, users, userRole)
        /\ orphans' = orphans \ {TestAdmin} /\ server' = "serving"
        /\ UNCHANGED <<work, runner, goal>>
    BY <1>8 DEF SeedTestAdmin, Usable, ensure_test_admin, WithAccounts
  <2>2. /\ users \in SUBSET User /\ userRole \in SUBSET (User \X AllRoles)
        /\ \A row \in userRole : row[1] \in users /\ row[2] \in db.roles
    BY <1>0, <2>1, TestAdminIsUser DEF Schemas, AtRevision, Holds, AllRoles
  <2>3. db.rev >= 1
    BY <1>0, <2>1, UsableIs
  <2> HIDE DEF users, userRole
  <2>4. db' \in Schemas /\ AtRevision(db') /\ db'.users = users /\ db'.userRole = userRole
    BY <1>0, <2>1, <2>2, <2>3, AccountsChange
  <2>5. /\ orphans' \subseteq db'.users
        /\ \A u \in db'.users \ orphans' : \E r \in AllRoles : <<u, r>> \in db'.userRole
    BY <2>1, <2>4 DEF IInv, AllRoles, users, userRole
  <2> QED BY <1>0, <2>1, <2>4, <2>5 DEF IInv, AtRevision
<1>9. CASE StartRaises
  <2>1. server = "starting" /\ server' = "failed" /\ UNCHANGED <<db, work, runner, goal, orphans>>
    BY <1>9 DEF StartRaises
  <2> QED BY <1>0, <2>1 DEF IInv, AtRevision
<1>10. ASSUME NEW u \in User, create_user(u) PROVE IInv'
  <2> DEFINE users == db.users \union {u}
             userRole == db.userRole \union ({u} \X DefaultRole)
  <2>1. /\ runner = "none" /\ RbacTables \subseteq db.tables
        /\ db' = WithAccounts(db, users, userRole)
        /\ orphans' = IF DefaultRole = {} THEN orphans \union {u} ELSE orphans
        /\ UNCHANGED <<work, runner, goal, server>>
    BY <1>10 DEF create_user, Usable, WithAccounts
  <2>2. /\ users \in SUBSET User /\ userRole \in SUBSET (User \X AllRoles)
        /\ \A row \in userRole : row[1] \in users /\ row[2] \in db.roles
    BY <1>0, <2>1 DEF Schemas, AtRevision, Holds, AllRoles, DefaultRole
  <2>3. db.rev >= 1
    BY <1>0, <2>1, UsableIs
  <2>4. DefaultRole # {} => <<u, "user">> \in userRole /\ "user" \in AllRoles
    BY DEF DefaultRole, AllRoles
  <2> HIDE DEF users, userRole
  <2>5. db' \in Schemas /\ AtRevision(db') /\ db'.users = users /\ db'.userRole = userRole
    BY <1>0, <2>1, <2>2, <2>3, AccountsChange
  <2>6. /\ orphans' \subseteq db'.users
        /\ \A v \in db'.users \ orphans' : \E r \in AllRoles : <<v, r>> \in db'.userRole
    BY <2>1, <2>4, <2>5 DEF IInv, users, userRole
  <2> QED BY <1>0, <2>1, <2>5, <2>6 DEF IInv, AtRevision
<1>11. CASE seed_refresh_queue
  <2>1. /\ runner = "none" /\ db.lifecycle /\ db' = [db EXCEPT !.queued = TRUE]
        /\ UNCHANGED <<work, runner, goal, server, orphans>>
    BY <1>11 DEF seed_refresh_queue
  <2>2. /\ db' \in Schemas /\ AtRevision(db')
        /\ db'.users = db.users /\ db'.userRole = db.userRole
    BY <1>0, <2>1, QueueChange
  <2> QED BY <1>0, <2>1, <2>2 DEF IInv, AtRevision
<1>12. ASSUME NEW p \in HandMade, GrantByHand(p) PROVE IInv'
  <2>1. /\ runner = "none" /\ "user" \in db.roles /\ db.rev < GrantsRev
        /\ db' = [db EXCEPT !.perms = @ \union {p}, !.grants = @ \union {<<"user", p>>}]
        /\ UNCHANGED <<work, runner, goal, server, orphans>>
    BY <1>12 DEF GrantByHand, Usable
  <2>2. /\ db' \in Schemas /\ AtRevision(db')
        /\ db'.users = db.users /\ db'.userRole = db.userRole
    BY <1>0, <2>1, HandChange, Zenon
  <2> QED BY <1>0, <2>1, <2>2 DEF IInv, AtRevision
<1>13. CASE Stop
  <2>1. /\ server' = "down" /\ UNCHANGED <<db, orphans>>
        /\ IF runner = "container" THEN EndCommand ELSE UNCHANGED <<work, runner, goal>>
    BY <1>13 DEF Stop
  <2>2. CASE runner = "container"
    BY <1>0, <2>1, <2>2, EmptyHolds DEF IInv, AtRevision, EndCommand
  <2>3. CASE runner # "container"
    BY <1>0, <2>1, <2>3 DEF IInv, AtRevision
  <2> QED BY <2>2, <2>3
<1>14. CASE UNCHANGED vars
  BY <1>14 DEF vars, IInv, AtRevision
<1> QED BY <1>1, <1>2, <1>3, <1>4, <1>5, <1>6, <1>7, <1>8, <1>9, <1>10, <1>11, <1>12,
           <1>13, <1>14 DEF Next

THEOREM Invariant == Spec => []IInv
<1>1. IInv /\ [Next]_vars => IInv'
  BY StepInv
<1> QED BY <1>1, InitInv, PTL DEF Spec

-----------------------------------------------------------------------------
(* Theorems *)

(* Rows are of their types and refer to rows that exist.                     *)
THEOREM Typing == Spec => []TypeInv
<1>1. IInv => TypeInv
  BY DEF IInv, TypeInv, AtRevision, Holds
<1> QED BY <1>1, Invariant, PTL

(* No statement of any revision is refused, in whatever order commands and   *)
(* requests ran before: foreign keys, required columns and the roles of a    *)
(* grant are where the revision finds them (alembic/versions).               *)
THEOREM NothingRefused == Spec => []CommandsGoThrough
<1>1. IInv => CommandsGoThrough
  BY DEF IInv, CommandsGoThrough, AtRevision, Holds
<1> QED BY <1>1, Invariant, PTL

(* The newest revision has the tables of the models with the columns of the  *)
(* queue, the base nothing, however the database came there.                 *)
THEOREM SchemaIsTheModels == Spec => []SchemaMatchesModels
<1>1. ASSUME IInv PROVE SchemaMatchesModels
  <2>1. db.rev = Newest => db.tables = ModelTables /\ db.lifecycle
    BY <1>1, NewestIs DEF IInv, AtRevision, Holds, TablesAt, ModelTables, ItemTables, HideoutTables,
         AuctionTables, CraftTables
  <2>2. ASSUME db.rev = Base PROVE db = Empty
    <3>1. /\ db.ok = TRUE /\ db.rev = Base /\ db.tables = {} /\ db.lifecycle = FALSE
          /\ db.queued = FALSE /\ db.roles = {} /\ db.perms = {} /\ db.users = {}
      BY <1>1, <2>2 DEF IInv, AtRevision, Holds, TablesAt, Schemas, Base
    <3>2. db.grants = {} /\ db.userRole = {}
      BY <1>1, <3>1 DEF IInv, AtRevision, Holds
    <3>3. db = [ok |-> db.ok, rev |-> db.rev, tables |-> db.tables, lifecycle |-> db.lifecycle,
                queued |-> db.queued, roles |-> db.roles, perms |-> db.perms,
                grants |-> db.grants, users |-> db.users, userRole |-> db.userRole]
      BY <1>1 DEF IInv, Schemas
    <3> QED BY <3>1, <3>2, <3>3 DEF Empty
  <2> QED BY <2>1, <2>2 DEF SchemaMatchesModels
<1> QED BY <1>1, Invariant, PTL

(* At the newest revision an account that kept a role has the permissions of *)
(* every endpoint (dependencies/permissions.py), whichever role it is.       *)
THEOREM EveryoneIsServed == Spec => []EveryoneServed
<1>1. ASSUME IInv, db.rev = Newest, NEW u \in db.users \ orphans, NEW access \in Accesses
      PROVE  user_has_permissions(db, u, access)
  <2>1. PICK r \in AllRoles : <<u, r>> \in db.userRole
    BY <1>1 DEF IInv
  <2>2. SeededGrants \subseteq db.grants /\ TradingGrants \subseteq db.grants
    BY <1>1, NewestIs DEF IInv, AtRevision, Holds
  <2>3. \A p \in USER_PERMISSIONS \union TRADING_PERMISSIONS : <<r, p>> \in db.grants
    BY <2>1, <2>2 DEF SeededGrants, TradingGrants, AllRoles, ADMIN_PERMISSIONS
  <2>4. access \subseteq USER_PERMISSIONS \union TRADING_PERMISSIONS
    BY DEF Accesses, ItemMarketAccess, CraftMarketAccess, TradingReadAccess, TradingWriteAccess,
         USER_PERMISSIONS, TRADING_PERMISSIONS
  <2>5. ASSUME NEW p \in access PROVE p \in get_user_permission_names(db, u)
    <3> DEFINE pair == <<r, p>>
    <3>1. pair \in db.grants /\ <<u, pair[1]>> \in db.userRole /\ pair[2] = p
      BY <2>1, <2>3, <2>4
    <3> QED BY <3>1 DEF get_user_permission_names
  <2> QED BY <2>5 DEF user_has_permissions
<1>2. IInv => EveryoneServed
  BY <1>1 DEF EveryoneServed
<1> QED BY <1>2, Invariant, PTL

(* Unless a hand has given ordinary users the status of the system, which no *)
(* revision takes back, nobody but an administrator reads it.                *)
THEOREM StatusForAdministrators ==
  ASSUME "system:read" \notin HandMade
  PROVE  Spec => []SystemReadForAdministrators
<1>1. ASSUME IInv, NEW u \in db.users, user_has_permissions(db, u, {"system:read"})
      PROVE  <<u, "admin">> \in db.userRole
  <2>1. PICK pair \in db.grants : <<u, pair[1]>> \in db.userRole /\ pair[2] = "system:read"
    BY <1>1 DEF user_has_permissions, get_user_permission_names
  <2>2. pair = <<pair[1], pair[2]>> /\ pair[1] \in AllRoles
    BY <1>1 DEF IInv, Schemas, AllRoles
  <2>3. pair[1] # "user"
    BY <1>1, <2>1, <2>2 DEF IInv, AtRevision, Holds, ByHand
  <2> QED BY <2>1, <2>2, <2>3 DEF AllRoles
<1>2. IInv => SystemReadForAdministrators
  BY <1>1 DEF SystemReadForAdministrators
<1> QED BY <1>2, Invariant, PTL

(* A role of an account disappears only with a command that ends below the   *)
(* revision of the roles.                                                    *)
THEOREM RolesAreKept == Spec => RolesOutliveMigrations
<1>1. ASSUME IInv, [Next]_vars PROVE db.userRole \subseteq db'.userRole \/ db'.rev < RolesRev
  <2>1. CASE Commit
    <3>1. runner # "none" /\ db' = work /\ work.rev = goal
      BY <2>1 DEF Commit
    <3>2. goal < RolesRev \/ work.userRole = db.userRole
      BY <1>1, <3>1, NewestIs DEF IInv, RolesRev, Base
    <3> QED BY <3>1, <3>2
  <2>2. CASE SeedTestAdmin
    BY <1>1, <2>2 DEF SeedTestAdmin, ensure_test_admin, IInv, Schemas
  <2>3. ASSUME NEW u \in User, create_user(u) PROVE db.userRole \subseteq db'.userRole
    BY <1>1, <2>3 DEF create_user, IInv, Schemas
  <2>4. CASE seed_refresh_queue
    BY <1>1, <2>4 DEF seed_refresh_queue, IInv, Schemas
  <2>5. ASSUME NEW p \in HandMade, GrantByHand(p) PROVE db.userRole \subseteq db'.userRole
    BY <1>1, <2>5 DEF GrantByHand, IInv, Schemas
  <2>6. CASE \/ OperatorCommand \/ StartContainer \/ UpgradeOne \/ DowngradeOne \/ RollBack
             \/ StartServing \/ StartRaises \/ Stop \/ UNCHANGED vars
    <3>1. db' = db
      BY <2>6 DEF OperatorCommand, StartContainer, UpgradeOne, DowngradeOne, RollBack,
           StartServing, StartRaises, Stop, vars
    <3> QED BY <3>1
  <2> QED BY <1>1, <2>1, <2>2, <2>3, <2>4, <2>5, <2>6 DEF Next
<1>2. IInv /\ [Next]_vars => [~(db.userRole \subseteq db'.userRole) => db'.rev < RolesRev]_vars
  BY <1>1
<1> QED BY <1>2, Invariant, PTL DEF Spec, RolesOutliveMigrations

(* The lifespan raises only over a database below the revision of the roles. *)
THEOREM StartNeedsOnlyRoles == Spec => StartFailsOnlyWithoutRoles
<1>1. ASSUME IInv, [Next]_vars, server = "starting", server' = "failed" PROVE db.rev < RolesRev
  <2>1. StartRaises
    BY <1>1 DEF Next, vars, IInv, OperatorCommand, StartContainer, UpgradeOne, DowngradeOne, Commit,
         RollBack, StartServing, SeedTestAdmin, create_user, seed_refresh_queue, GrantByHand, Stop
  <2>2. runner = "none" /\ ~(RbacTables \subseteq db.tables /\ "admin" \in db.roles)
    BY <2>1 DEF StartRaises, Usable
  <2>3. db.rev \in Nat /\ db.tables = TablesAt(db.rev)
        /\ db.roles = IF db.rev >= 3 THEN AllRoles ELSE {}
    BY <1>1 DEF IInv, Schemas, Base, AtRevision, Holds
  <2>4. db.rev >= 3 => RbacTables \subseteq db.tables /\ "admin" \in db.roles
    BY <2>3 DEF TablesAt, AllRoles
  <2> QED BY <2>2, <2>3, <2>4 DEF RolesRev
<1>2. IInv /\ [Next]_vars => [server = "starting" /\ server' = "failed" => db.rev < RolesRev]_vars
  BY <1>1
<1> QED BY <1>2, Invariant, PTL DEF Spec, StartFailsOnlyWithoutRoles
===============================================================================
