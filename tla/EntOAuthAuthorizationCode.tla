------------------------ MODULE EntOAuthAuthorizationCode ------------------------
(* The code ent generated for OAuthAuthorizationCode: which fields each part of it
   handles. EntBuilders gives the parts their meaning. *)

\* The columns but for id.
Columns ==
    {"session_type", "signature", "client_id", "user_id", "request_id",
     "scopes", "session_data", "active", "expires_at", "requested_at"}

\* The migrated columns: which hold NULL, which are unique by themselves.
Table ==
    [notNull |-> Columns \ {"user_id", "expires_at", "requested_at"},
     nullable |-> {"user_id", "expires_at", "requested_at"}, unique |-> {}]

\* init(): the mixin field each descriptor is taken from (counted from one), the
\* type its default is asserted to have, how many validators are taken from it.
Runtime ==
    [index |-> [session_type |-> 1, signature |-> 2, client_id |-> 3,
                request_id |-> 5, scopes |-> 6, session_data |-> 7,
                active |-> 8],
     defaults |-> [request_id |-> "string", scopes |-> "string",
                   session_data |-> "map", active |-> "bool"],
     validators |-> [session_type |-> 2, signature |-> 2, client_id |-> 2,
                     request_id |-> 1, scopes |-> 1]]

\* The setters of the create builder.
CreateSetters == Columns

\* defaults(): the fields given their default when they are not set.
CreateDefaults == {"request_id", "scopes", "session_data", "active"}

\* check(): the fields that must be set, the ones whose validator runs.
CreateCheck ==
    [required |-> Columns \ {"user_id", "expires_at", "requested_at"},
     validated |-> {"session_type", "signature", "client_id", "request_id",
                    "scopes"}]

\* createSpec(): the fields the INSERT names.
CreateSpec == Columns

\* The update builder's setters; "fresh" are the fields whose setter resets first.
UpdateSetters ==
    [set |-> Columns, add |-> {"user_id"},
     clear |-> {"user_id", "expires_at", "requested_at"},
     fresh |-> {"user_id"}]

\* check(): a validator runs only on a field that is set.
UpdateCheck ==
    {"session_type", "signature", "client_id", "request_id", "scopes"}

\* sqlSave(): the assignments a set, an added and a cleared field cause.
UpdateSpec ==
    [set |-> Columns, add |-> {"user_id"},
     clear |-> {"user_id", "expires_at", "requested_at"}]

\* The update-one builder's setters; "fresh" are the fields whose setter resets first.
UpdateOneSetters ==
    [set |-> Columns, add |-> {"user_id"},
     clear |-> {"user_id", "expires_at", "requested_at"},
     fresh |-> {"user_id"}]

\* check(): a validator runs only on a field that is set.
UpdateOneCheck ==
    {"session_type", "signature", "client_id", "request_id", "scopes"}

\* sqlSave(): the assignments a set, an added and a cleared field cause.
UpdateOneSpec ==
    [set |-> Columns, add |-> {"user_id"},
     clear |-> {"user_id", "expires_at", "requested_at"}]

\* The mutation's accessors: every field has Set, Old and Reset, some Add or
\* Append, some Clear.
Keys ==
    [fields |-> {"session_type", "signature", "client_id"}, add |-> {},
     clear |-> {}]

\* Its accessors, continued.
Owner == [fields |-> {"user_id"}, add |-> {"user_id"}, clear |-> {"user_id"}]

\* Its accessors, continued.
Grant ==
    [fields |-> {"request_id", "scopes", "session_data", "active"},
     add |-> {}, clear |-> {}]

\* Its accessors, continued.
Times ==
    [fields |-> {"expires_at", "requested_at"}, add |-> {},
     clear |-> {"expires_at", "requested_at"}]

\* Fields(), Field() and OldField() by name.
FieldNames == Columns

\* SetField() by name.
SetField == Columns

\* AddField() by name, the numeric fields.
AddField == {"user_id"}

\* ClearField() by name, the nullable fields.
ClearField == {"user_id", "expires_at", "requested_at"}

\* ResetField() by name.
ResetField == Columns

Accessors == <<Keys, Owner, Grant, Times>>

\* All parts together.
Entity ==
    [columns |-> Columns, table |-> Table, runtime |-> Runtime,
     create |-> [set |-> CreateSetters, defaults |-> CreateDefaults,
                 check |-> CreateCheck, spec |-> CreateSpec],
     update |-> [set |-> UpdateSetters, check |-> UpdateCheck, spec |-> UpdateSpec],
     updateOne |-> [set |-> UpdateOneSetters, check |-> UpdateOneCheck,
                    spec |-> UpdateOneSpec],
     accessors |-> Accessors,
     names |-> [old |-> FieldNames, set |-> SetField, add |-> AddField,
                clear |-> ClearField, reset |-> ResetField]]
=============================================================================
