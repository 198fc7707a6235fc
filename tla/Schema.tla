-------------------------------- MODULE Schema --------------------------------
(***************************************************************************)
(* The Postgres schema: the migrations a release carries, the script that  *)
(* runs and reverts them (scripts/migration.js, TypeORM's migration:run    *)
(* and migration:revert, one transaction per call), the entities and raw   *)
(* statements of the code that reads and writes the tables.                *)
(*                                                                         *)
(* A table is a record of column sets: need (NOT NULL without a default),  *)
(* opt (nullable), def (NOT NULL with a default), uniq (unique columns)    *)
(* and refs (pairs <<column, table>>, every one ON DELETE CASCADE).  Every *)
(* table and every entity also has the uuid key "id", left out here.       *)
(***************************************************************************)
EXTENDS Naturals, Sequences, FiniteSets, SequencesExt

CONSTANTS
    Runners,    \* the processes that call "npm run migration:run"
    Releases    \* the numbers of migrations the releases carry (prefixes of Migrations)

ASSUME ReleasesAssumption == Releases \subseteq 0..25

-------------------------------------------------------------------------------
(* Vocabulary                                                              *)

Columns(need, opt, def, uniq, refs) ==
    [need |-> need, opt |-> opt, def |-> def, uniq |-> uniq, refs |-> refs]

ColsOf(t) == t.need \cup t.opt \cup t.def

Create(t, need, opt, def, uniq, refs) ==
    [table |-> t, new |-> TRUE, add |-> Columns(need, opt, def, uniq, refs)]

(* up drops the columns drop and adds the columns add; down drops add and  *)
(* restores back.  changeColumn drops a column and adds it again when the  *)
(* type it is given is not spelled like the one in the database: 'varchar' *)
(* is not "character varying".                                             *)
Alter(t, drop, add, back) ==
    [table |-> t, new |-> FALSE, drop |-> drop, add |-> add, back |-> back]

OfUser     == <<"user_id", "users">>
OfProvider == <<"provider_id", "provider_profiles">>
OfService  == <<"service_id", "services">>
ByUser     == <<"contractor_id", "users">>
AtAddress  == <<"address_id", "addresses">>
ByEmail    == <<"email_id", "emails">>
ByPhone    == <<"phone_id", "phones">>

(* The tables that tie an e-mail, a phone or an address to its owner.      *)
Link(owner, thing, more) ==
    Columns({owner[1], thing[1]}, {"label"}, {"is_primary"} \cup more, {}, {owner, thing})

LinkTable(t, owner, thing, more) == [table |-> t, new |-> TRUE, add |-> Link(owner, thing, more)]

-------------------------------------------------------------------------------
(* The migrations, each with its up and its down                           *)

Users ==
    Create("users",
           {"name", "last_name", "cpf", "rg", "email", "password_hash", "gender", "birth_date"},
           {"details", "updated_at", "deleted_at"}, {"active", "created_at"}, {}, {})

Phones ==
    Create("phones", {"country", "area", "number", "user_id"}, {"updated_at", "deleted_at"},
           {"created_at"}, {}, {OfUser})

Addresses ==
    Create("addresses", {"street", "number", "neighborhood", "city", "state", "zipcode"},
           {"latitude", "longitude", "updated_at", "deleted_at"},
           {"complement", "country", "is_verified", "active", "created_at"}, {}, {})

UserAddresses == LinkTable("user_addresses", OfUser, AtAddress, {"created_at"})

Emails == Create("emails", {"email"}, {}, {"is_verified", "created_at"}, {"email"}, {})

\* A mutated down that forgets two of the columns it has to restore.
UpdateUsersHalfRestored ==
    LET old == {"name", "last_name", "active", "cpf", "rg", "email", "password_hash",
                "gender", "details", "birth_date", "updated_at", "deleted_at"}
    IN  Alter("users", old,
              Columns({}, {"keycloak_id", "full_name"}, {"status"}, {"keycloak_id"}, {}),
              Columns({}, old \ {"active", "updated_at", "deleted_at"}, {"active"}, {}, {}))

UpdateUsers ==
    LET old == {"name", "last_name", "active", "cpf", "rg", "email", "password_hash",
                "gender", "details", "birth_date", "updated_at", "deleted_at"}
    IN  Alter("users", old,
              Columns({}, {"keycloak_id", "full_name"}, {"status"}, {"keycloak_id"}, {}),
              Columns({}, old \ {"active"}, {"active"}, {}, {}))

UserEmails == LinkTable("user_emails", OfUser, ByEmail, {})

UserPhones == LinkTable("user_phones", OfUser, ByPhone, {})

ProviderProfiles ==
    Create("provider_profiles", {"user_id"}, {"business_name", "description"},
           {"average_rating", "is_available"}, {"user_id"}, {OfUser})

ProviderEmails == LinkTable("provider_emails", OfProvider, ByEmail, {})

ProviderPhones == LinkTable("provider_phones", OfProvider, ByPhone, {})

ProviderAddresses == LinkTable("provider_addresses", OfProvider, AtAddress, {})

Categories == Create("categories", {"name", "slug"}, {"icon_url"}, {}, {"slug"}, {})

Services ==
    Create("services", {"category_id", "name"}, {"description"}, {}, {},
           {<<"category_id", "categories">>})

ProviderServices ==
    Create("provider_services", {"provider_id", "service_id"}, {"price_base", "price_type"},
           {}, {}, {OfProvider, OfService})

ServiceRequests ==
    Create("service_requests",
           {"contractor_id", "provider_id", "service_id", "address_id", "status"},
           {"description", "scheduled_at", "price_final"},
           {"contractor_confirmed", "provider_confirmed", "created_at"}, {},
           {ByUser, OfProvider, OfService, AtAddress})

Reviews ==
    Create("reviews", {"service_request_id", "contractor_id", "provider_id", "rating"},
           {"comment", "created_at"}, {}, {"service_request_id"},
           {<<"service_request_id", "service_requests">>, ByUser, OfProvider})

Documents ==
    Create("documents", {"user_id", "document_type", "document_url", "status"},
           {"verified_at"}, {}, {}, {OfUser})

ProviderWorkLocations ==
    Create("provider_work_locations", {"provider_id", "address_id"}, {"name"},
           {"is_primary", "is_active", "created_at"}, {}, {OfProvider, AtAddress})

ProviderVerifications ==
    Create("provider_verifications", {"provider_id", "status"},
           {"reviewed_at", "reviewed_by", "notes"}, {"submitted_at"}, {}, {OfProvider})

ProviderVerificationLogs ==
    Create("provider_verification_logs", {"verification_id", "action"},
           {"performed_by", "previous_status", "new_status", "notes"}, {"created_at"}, {},
           {<<"verification_id", "provider_verifications">>})

ProviderDocuments ==
    Create("provider_documents", {"provider_id", "document_type", "document_url", "status"},
           {"reviewed_at", "reviewed_by", "rejection_reason"}, {"uploaded_at"}, {}, {OfProvider})

(* The down restores the five columns nullable, and the foreign key of     *)
(* user_id that the up dropped is not created again.                       *)
UpdatePhones ==
    LET old == {"country", "area", "user_id", "updated_at", "deleted_at"}
    IN  Alter("phones", old, Columns({}, {"type"}, {"is_verified"}, {"number"}, {}),
              Columns({}, old, {}, {}, {}))

\* A mutated down that restores country without its default.
UpdateAddressesRequired ==
    Alter("addresses", {"country", "active", "updated_at", "deleted_at", "complement"},
          Columns({}, {"complement"}, {}, {}, {}),
          Columns({"country"}, {"updated_at", "deleted_at"}, {"active", "complement"}, {}, {}))

(* complement, to lose its default, is dropped and added nullable, and the *)
(* down drops and adds it with the default.                                *)
UpdateAddresses ==
    Alter("addresses", {"country", "active", "updated_at", "deleted_at", "complement"},
          Columns({}, {"complement"}, {}, {}, {}),
          Columns({}, {"updated_at", "deleted_at"}, {"country", "active", "complement"}, {}, {}))

AddIsActiveToCategories ==
    Alter("categories", {}, Columns({}, {}, {"is_active"}, {}, {}), Columns({}, {}, {}, {}, {}))

Migrations == <<
    Users, Phones, Addresses, UserAddresses, Emails, UpdateUsers, UserEmails, UserPhones,
    ProviderProfiles, ProviderEmails, ProviderPhones, ProviderAddresses, Categories, Services,
    ProviderServices, ServiceRequests, Reviews, Documents, ProviderWorkLocations,
    ProviderVerifications, ProviderVerificationLogs, ProviderDocuments, UpdatePhones,
    UpdateAddresses, AddIsActiveToCategories >>

-------------------------------------------------------------------------------
(* What up and down do to the tables                                       *)

Without(s, cols) ==
    Columns(s.need \ cols, s.opt \ cols, s.def \ cols, s.uniq \ cols,
            {r \in s.refs : r[1] \notin cols})

With(s, more) ==
    Columns(s.need \cup more.need, s.opt \cup more.opt, s.def \cup more.def,
            s.uniq \cup more.uniq, s.refs \cup more.refs)

PutTable(db, t, s) == [u \in DOMAIN db \cup {t} |-> IF u = t THEN s ELSE db[u]]

DropTable(db, t) == [u \in DOMAIN db \ {t} |-> db[u]]

(* createTable(..., true) skips a table that exists.                       *)
Up(m, db) ==
    IF m.new
    THEN IF m.table \in DOMAIN db THEN db ELSE PutTable(db, m.table, m.add)
    ELSE PutTable(db, m.table, With(Without(db[m.table], m.drop), m.add))

Down(m, db) ==
    IF m.new
    THEN DropTable(db, m.table)
    ELSE LET added == ColsOf(m.add) \cup m.add.uniq
             plain == [db[m.table] EXCEPT !.uniq = @ \ m.add.uniq]
         IN  PutTable(db, m.table, With(Without(plain, ColsOf(m.add)), m.back))

(* How the statements of an up end: "absent" when a table they name is not *)
(* there, "exists" when a key or a column is there already, "data" when    *)
(* the rows do not admit the change.  Tables hold rows: a column that is   *)
(* NOT NULL without a default can only come with its table.                *)
UpResult(m, db, rows) ==
    IF m.new
    THEN IF \E r \in m.add.refs : r[2] \notin DOMAIN db /\ r[2] # m.table THEN "absent"
         ELSE IF m.table \in DOMAIN db /\ m.add.refs # {} THEN "exists"
         ELSE "ok"
    ELSE IF m.table \notin DOMAIN db THEN "absent"
         ELSE IF ColsOf(m.add) \cap (ColsOf(db[m.table]) \ m.drop) # {} THEN "exists"
         ELSE IF \/ m.add.uniq \ ColsOf(m.add) # {} /\ "twins" \in rows
                 \/ m.add.need # {}
              THEN "data"
         ELSE "ok"

DownResult(m, db) ==
    IF m.new
    THEN IF \E t \in DOMAIN db \ {m.table} : \E r \in db[t].refs : r[2] = m.table
         THEN "absent" ELSE "ok"
    ELSE IF ColsOf(m.back) \cap (ColsOf(db[m.table]) \ ColsOf(m.add)) # {} THEN "exists"
         ELSE IF m.back.need # {} THEN "data" ELSE "ok"

(* What the rows say is told by one column: a number two phones share, the *)
(* complement of an address.  It is gone when a migration drops the table  *)
(* or the column, also when the column is added again.                     *)
ToldBy == [twins |-> <<"phones", "number">>, filled |-> <<"addresses", "complement">>]

AfterUps(rows, ms) ==
    {f \in rows : \A m \in ms :
                     ~m.new /\ m.table = ToldBy[f][1] => ToldBy[f][2] \notin m.drop}

AfterDown(rows, m) ==
    {f \in rows : m.table = ToldBy[f][1] => ~m.new /\ ToldBy[f][2] \notin ColsOf(m.add)}

(* migration:run applies the pending migrations one after the other in one *)
(* transaction: the first that fails rolls all of them back.               *)
RunPending(db, rows, from, to) ==
    FoldLeft(LAMBDA acc, m :
                 IF acc.result # "ok" THEN acc
                 ELSE LET r == UpResult(m, acc.db, rows)
                      IN  [result |-> r, db |-> IF r = "ok" THEN Up(m, acc.db) ELSE acc.db],
             [result |-> "ok", db |-> db],
             SubSeq(Migrations, from + 1, to))

NoTables == [t \in {} |-> {}]

(* The schema of an empty database after its first v migrations.           *)
FreshSchema == [v \in 0..Len(Migrations) |-> RunPending(NoTables, {}, 0, v).db]

-------------------------------------------------------------------------------
VARIABLES
    db,         \* the tables: a function from table names to column records
    done,       \* how many migrations the table "migrations" records
    rows,       \* "twins": two phones share a number; "filled": an address has a complement
    run         \* per runner: the call of scripts/migration.js in progress

vars == <<db, done, rows, run>>

Phase == {"idle", "loaded", "clashed", "retry", "retried", "exit0", "exit1", "unchecked"}

TypeOK ==
    /\ DOMAIN db \subseteq {Migrations[i].table : i \in 1..Len(Migrations)}
    /\ done \in 0..Len(Migrations)
    /\ rows \subseteq DOMAIN ToldBy
    /\ run \in [Runners -> [phase : Phase, target : {0} \cup Releases, base : 0..Len(Migrations)]]

Init ==
    /\ db = NoTables
    /\ done = 0
    /\ rows = {}
    /\ run = [r \in Runners |-> [phase |-> "idle", target |-> 0, base |-> 0]]

Busy(r) == run[r].phase \in {"loaded", "clashed", "retry", "retried"}

Goes(r, phase, base) ==
    run' = [run EXCEPT ![r] = [phase |-> phase, target |-> @.target, base |-> base]]
Exit(r, phase) == Goes(r, phase, 0)

(* "migration:run" reads which migrations are recorded as executed.        *)
Load(r, v) ==
    /\ ~Busy(r)
    /\ run' = [run EXCEPT ![r] = [phase |-> "loaded", target |-> v, base |-> done]]
    /\ UNCHANGED <<db, done, rows>>

(* ... and applies the others in one transaction.  A failure whose message *)
(* says "already exists" or "duplicate key" makes the script look again;   *)
(* any other one, and any one of the second attempt, ends it with 1.       *)
Execute(r) ==
    LET end == RunPending(db, rows, run[r].base, run[r].target)
    IN  /\ run[r].phase \in {"loaded", "retried"}
        /\ \/ /\ end.result = "ok"
              /\ db' = end.db
              /\ done' = IF done < run[r].target THEN run[r].target ELSE done
              /\ rows' = AfterUps(rows, {Migrations[i] : i \in run[r].base + 1..run[r].target})
              /\ Exit(r, "exit0")
           \/ /\ end.result = "exists"
              /\ run[r].phase = "loaded"
              /\ Goes(r, "clashed", 0)
              /\ UNCHANGED <<db, done, rows>>
           \/ /\ end.result # "ok"
              /\ end.result = "exists" => run[r].phase = "retried"
              /\ Exit(r, "exit1")
              /\ UNCHANGED <<db, done, rows>>

\* A mutated script that takes any clash for "the tables are there already".
ShowTrusting(r) ==
    /\ run[r].phase = "clashed"
    /\ Exit(r, "exit0")
    /\ UNCHANGED <<db, done, rows>>

(* "migration:show" after a clash: nothing pending is a success, something *)
(* pending is run once more; when the command itself fails, the script     *)
(* goes on without having checked.                                         *)
Show(r) ==
    /\ run[r].phase = "clashed"
    /\ \/ done >= run[r].target /\ Exit(r, "exit0")
       \/ done < run[r].target /\ Goes(r, "retry", 0)
       \/ Exit(r, "unchecked")
    /\ UNCHANGED <<db, done, rows>>

Reload(r) ==
    /\ run[r].phase = "retry"
    /\ Goes(r, "retried", done)
    /\ UNCHANGED <<db, done, rows>>

(* "migration:revert" undoes the last migration in a transaction.  It is   *)
(* called by hand, with no deployment under way.                           *)
Revert ==
    /\ \A r \in Runners : ~Busy(r)
    /\ done > 0
    /\ DownResult(Migrations[done], db) = "ok"
    /\ db' = Down(Migrations[done], db)
    /\ done' = done - 1
    /\ rows' = AfterDown(rows, Migrations[done])
    /\ UNCHANGED run

(* A release stores a row its schema admits; the entity Address names      *)
(* updated_at and deleted_at in every statement.                           *)
StoreRow ==
    /\ \/ /\ "phones" \in DOMAIN db
          /\ "number" \notin db["phones"].uniq
          /\ rows' = rows \cup {"twins"}
       \/ /\ "addresses" \in DOMAIN db
          /\ {"complement", "updated_at", "deleted_at"} \subseteq ColsOf(db["addresses"])
          /\ rows' = rows \cup {"filled"}
    /\ UNCHANGED <<db, done, run>>

(* Somebody gives one of two phones that share a number another one.       *)
CleanRows ==
    /\ "twins" \in rows
    /\ rows' = rows \ {"twins"}
    /\ UNCHANGED <<db, done, run>>

Next ==
    \/ \E r \in Runners :
          \/ \E v \in Releases : Load(r, v)
          \/ Execute(r)
          \/ Show(r)
          \/ Reload(r)
    \/ Revert
    \/ StoreRow
    \/ CleanRows

Spec == Init /\ [][Next]_vars

-------------------------------------------------------------------------------
(* Properties                                                              *)

(* Whatever sequence of deployments, clashes and reverts led there, a      *)
(* database that records v migrations has the tables, columns and unique   *)
(* constraints of a fresh one with v migrations.  What a revert does not   *)
(* give back is the NOT NULL of the columns it restores and the foreign    *)
(* key of phones.user_id; once UpdatePhones has run, nothing is missing.   *)
(* The rows do not follow: once UpdateAddresses has run, every complement  *)
(* that was stored is lost, although the column is there.                  *)
SchemaFollowsVersion ==
    LET fresh == FreshSchema[done]
    IN  /\ DOMAIN db = DOMAIN fresh
        /\ \A t \in DOMAIN db :
              /\ ColsOf(db[t]) = ColsOf(fresh[t])
              /\ db[t].uniq = fresh[t].uniq
              /\ fresh[t].opt \subseteq db[t].opt
              /\ db[t].refs \subseteq fresh[t].refs
              /\ fresh[t].refs \ db[t].refs # {} => t = "phones"
        /\ done >= 23 => db = fresh
        /\ done >= 24 => "filled" \notin rows

(* No call is refused for the schema's own sake: from every reachable      *)
(* database the last migration can be reverted, and what is pending can be *)
(* run unless two phones share a number.                                   *)
StuckOnlyOnRows ==
    /\ done > 0 => DownResult(Migrations[done], db) = "ok"
    /\ "twins" \notin rows =>
          \A v \in Releases : RunPending(db, rows, done, v).result = "ok"

(* A call of the script that ends with 0 after having looked leaves every  *)
(* migration of its release executed, also when another call ran them.     *)
ExitZeroMeansMigrated ==
    [][\A r \in Runners :
          run[r].phase # "exit0" /\ run'[r].phase = "exit0" => done' >= run[r].target]_vars

===============================================================================
