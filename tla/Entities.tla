------------------------------- MODULE Entities -------------------------------
(***************************************************************************)
(* The TypeORM entities of the Postgres connection and the raw statements  *)
(* of the cron jobs, set against the tables the migrations leave.  An      *)
(* entity reads and writes all its columns in every find and save.         *)
(***************************************************************************)
EXTENDS Schema

Entity(t, need, opt, def, uniq, refs) ==
    [table |-> t, cols |-> Columns(need, opt, def, uniq, refs)]

LinkEntity(t, owner, thing, more) == [table |-> t, cols |-> Link(owner, thing, more)]

User == Entity("users", {}, {"keycloak_id", "full_name"}, {"status", "created_at"},
               {"keycloak_id"}, {})

Phone == Entity("phones", {"number"}, {"type"}, {"is_verified", "created_at"}, {"number"}, {})

(* Still has the two dates that UpdateAddresses drops.                     *)
Address ==
    Entity("addresses", {"street", "number", "neighborhood", "city", "state", "zipcode"},
           {"complement", "latitude", "longitude", "deleted_at"},
           {"is_verified", "created_at", "updated_at"}, {}, {})

Email == Entity("emails", {"email"}, {}, {"is_verified", "created_at"}, {"email"}, {})

UserAddress == LinkEntity("user_addresses", OfUser, AtAddress, {"created_at"})

UserEmail == LinkEntity("user_emails", OfUser, ByEmail, {})

UserPhone == LinkEntity("user_phones", OfUser, ByPhone, {})

ProviderProfile ==
    Entity("provider_profiles", {"user_id"}, {"business_name", "description"},
           {"average_rating", "is_available"}, {"user_id"}, {OfUser})

ProviderEmail == LinkEntity("provider_emails", OfProvider, ByEmail, {})

ProviderPhone == LinkEntity("provider_phones", OfProvider, ByPhone, {})

ProviderAddress == LinkEntity("provider_addresses", OfProvider, AtAddress, {})

ProviderWorkLocation ==
    Entity("provider_work_locations", {"provider_id", "address_id"}, {"name"},
           {"is_primary", "is_active", "created_at"}, {}, {OfProvider, AtAddress})

Category == Entity("categories", {"name", "slug"}, {"icon_url"}, {"is_active"}, {"slug"}, {})

Service ==
    Entity("services", {"category_id", "name"}, {"description"}, {}, {},
           {<<"category_id", "categories">>})

ProviderService ==
    Entity("provider_services", {"provider_id", "service_id"}, {"price_base", "price_type"},
           {}, {}, {OfProvider, OfService})

\* A mutated entity: the column of the agreed price under another name.
ServiceRequestRenamed ==
    Entity("service_requests",
           {"contractor_id", "provider_id", "service_id", "address_id", "status"},
           {"description", "scheduled_at", "final_price"},
           {"contractor_confirmed", "provider_confirmed", "created_at"}, {},
           {ByUser, OfProvider, OfService, AtAddress})

ServiceRequest ==
    Entity("service_requests",
           {"contractor_id", "provider_id", "service_id", "address_id", "status"},
           {"description", "scheduled_at", "price_final"},
           {"contractor_confirmed", "provider_confirmed", "created_at"}, {},
           {ByUser, OfProvider, OfService, AtAddress})

Review ==
    Entity("reviews", {"service_request_id", "contractor_id", "provider_id", "rating"},
           {"comment", "created_at"}, {}, {"service_request_id"},
           {<<"service_request_id", "service_requests">>, ByUser, OfProvider})

Document ==
    Entity("documents", {"user_id", "document_type", "document_url", "status"},
           {"verified_at"}, {}, {}, {OfUser})

ProviderVerification ==
    Entity("provider_verifications", {"provider_id", "status"},
           {"reviewed_at", "reviewed_by", "notes"}, {"submitted_at"}, {}, {OfProvider})

ProviderVerificationLog ==
    Entity("provider_verification_logs", {"verification_id", "action"},
           {"performed_by", "previous_status", "new_status", "notes"}, {"created_at"}, {},
           {<<"verification_id", "provider_verifications">>})

ProviderDocument ==
    Entity("provider_documents", {"provider_id", "document_type", "document_url", "status"},
           {"reviewed_at", "reviewed_by", "rejection_reason"}, {"uploaded_at"}, {}, {OfProvider})

DataSource == {
    User, Phone, Address, Email, UserAddress, UserEmail, UserPhone, ProviderProfile,
    ProviderEmail, ProviderPhone, ProviderAddress, ProviderWorkLocation, Category, Service,
    ProviderService, ServiceRequest, Review, Document, ProviderVerification,
    ProviderVerificationLog, ProviderDocument }

(* The tables and columns named by a statement written in SQL.             *)
Statement(t, cols) == [table |-> t, names |-> cols]

CleanupStatements ==
    {Statement("users", {"status", "created_at"}),
     Statement("service_requests", {"contractor_id", "status"})}
    \cup {Statement(t, {"user_id"}) : t \in {"user_emails", "user_phones", "user_addresses"}}

RatingStatements == {Statement("reviews", {"provider_id", "rating", "created_at"})}

ReminderStatements ==
    {Statement("service_requests", {"contractor_id", "provider_id", "scheduled_at", "status"}),
     Statement("cron_reminder_log", {"entity_id", "reminder_type", "sent_at"})}

ReportStatements ==
    {Statement("provider_profiles", {"user_id", "is_available"}),
     Statement("service_requests", {"provider_id", "status", "price_final", "created_at"}),
     Statement("reviews", {"provider_id", "rating", "created_at"})}

Statements == CleanupStatements \cup RatingStatements \cup ReminderStatements \cup ReportStatements

-------------------------------------------------------------------------------
(* An entity fits when its finds name columns that exist, its saves fill   *)
(* every column that needs a value and store NULL only where it is         *)
(* admitted, and its constraints are the table's.                          *)
Fits(e) ==
    /\ e.table \in DOMAIN db
    /\ LET t == db[e.table]
       IN  /\ ColsOf(e.cols) \subseteq ColsOf(t)
           /\ t.need \subseteq ColsOf(e.cols)
           /\ e.cols.opt \subseteq t.opt
           /\ e.cols.uniq = t.uniq
           /\ e.cols.refs = t.refs

Answered(s) == s.table \in DOMAIN db /\ s.names \subseteq ColsOf(db[s.table])

(* With every migration executed, however the database got there, each     *)
(* entity fits its table and each raw statement finds its columns, but for *)
(* two: Address, whose finds and saves name the dropped updated_at and     *)
(* deleted_at, and the reminder query, whose cron_reminder_log no          *)
(* migration creates.                                                      *)
OnlyAddressAndReminderMisfit ==
    done = Len(Migrations) =>
        /\ \A e \in DataSource \ {Address} : Fits(e)
        /\ ColsOf(Address.cols) \ ColsOf(db["addresses"]) = {"updated_at", "deleted_at"}
        /\ {s \in Statements : ~Answered(s)} = {s \in ReminderStatements : s.table = "cron_reminder_log"}

(* The code runs on the schema of its migrations: every entity fits its    *)
(* table and every raw statement finds its tables and columns.             *)
CodeFitsSchema ==
    done = Len(Migrations) =>
        /\ \A e \in DataSource : Fits(e)
        /\ \A s \in Statements : Answered(s)

===============================================================================
