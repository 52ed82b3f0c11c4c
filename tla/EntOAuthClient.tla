------------------------ MODULE EntOAuthClient ------------------------
(* The code ent generated for OAuthClient: which fields each part of it
   handles. EntBuilders gives the parts their meaning. *)

\* The columns but for id.
Columns ==
    {"client_id", "client_secret_hash", "redirect_uris", "grant_types",
     "response_types", "scopes", "is_public", "name", "workspace_id"}

\* The migrated columns: which hold NULL, which are unique by themselves.
Table ==
    [notNull |-> Columns \ {"workspace_id"}, nullable |-> {"workspace_id"},
     unique |-> {"client_id"}]

\* init(): the mixin field each descriptor is taken from (counted from one), the
\* type its default is asserted to have, how many validators are taken from it.
Runtime ==
    [index |-> [client_id |-> 1, client_secret_hash |-> 2,
                redirect_uris |-> 3, grant_types |-> 4, response_types |-> 5,
                scopes |-> 6, is_public |-> 7, name |-> 8],
     defaults |-> [client_secret_hash |-> "string", redirect_uris |-> "list",
                   grant_types |-> "list", response_types |-> "list",
                   scopes |-> "string", is_public |-> "bool"],
     validators |-> [client_id |-> 2, scopes |-> 1, name |-> 2]]

\* The setters of the create builder.
CreateSetters == Columns

\* defaults(): the fields given their default when they are not set.
CreateDefaults == Columns \ {"client_id", "name", "workspace_id"}

\* check(): the fields that must be set, the ones whose validator runs.
CreateCheck ==
    [required |-> Columns \ {"workspace_id"},
     validated |-> {"client_id", "scopes", "name"}]

\* createSpec(): the fields the INSERT names.
CreateSpec == Columns

\* The update builder's setters; "fresh" are the fields whose setter resets first.
UpdateSetters ==
    [set |-> Columns,
     add |-> {"redirect_uris", "grant_types", "response_types",
              "workspace_id"},
     clear |-> {"workspace_id"}, fresh |-> {"workspace_id"}]

\* check(): a validator runs only on a field that is set.
UpdateCheck == {"client_id", "scopes", "name"}

\* sqlSave(): the assignments a set, an added and a cleared field cause.
UpdateSpec ==
    [set |-> Columns,
     add |-> {"redirect_uris", "grant_types", "response_types",
              "workspace_id"},
     clear |-> {"workspace_id"}]

\* The update-one builder's setters; "fresh" are the fields whose setter resets first.
UpdateOneSetters ==
    [set |-> Columns,
     add |-> {"redirect_uris", "grant_types", "response_types",
              "workspace_id"},
     clear |-> {"workspace_id"}, fresh |-> {"workspace_id"}]

\* check(): a validator runs only on a field that is set.
UpdateOneCheck == {"client_id", "scopes", "name"}

\* sqlSave(): the assignments a set, an added and a cleared field cause.
UpdateOneSpec ==
    [set |-> Columns,
     add |-> {"redirect_uris", "grant_types", "response_types",
              "workspace_id"},
     clear |-> {"workspace_id"}]

\* The mutation's accessors: every field has Set, Old and Reset, some Add or
\* Append, some Clear.
Credentials ==
    [fields |-> {"client_id", "client_secret_hash"}, add |-> {}, clear |-> {}]

\* Its accessors, continued.
Lists ==
    [fields |-> {"redirect_uris", "grant_types", "response_types"},
     add |-> {"redirect_uris", "grant_types", "response_types"}, clear |-> {}]

\* Its accessors, continued.
Profile ==
    [fields |-> {"scopes", "is_public", "name"}, add |-> {}, clear |-> {}]

\* Its accessors, continued.
Workspace ==
    [fields |-> {"workspace_id"}, add |-> {"workspace_id"},
     clear |-> {"workspace_id"}]

\* Fields(), Field() and OldField() by name.
FieldNames == Columns

\* SetField() by name.
SetField == Columns

\* AddField() by name, the numeric fields.
AddField == {"workspace_id"}

\* ClearField() by name, the nullable fields.
ClearField == {"workspace_id"}

\* ResetField() by name.
ResetField == Columns

Accessors == <<Credentials, Lists, Profile, Workspace>>

\* All parts together.
Entity ==
    [columns |-> Columns, table |-> Table, runtime |-> Runtime,
     create |-> [set |-> CreateSetters, defaults |-> CreateDefaults,
                 check |-> CreateCheck, spec |-> CreateSpec],
     update |-> [set |-> UpdateSetters, check |-> UpdateCheck, spec |-> UpdateSpec],
     updateOne |-> [set |-> UpdateOneSetters, check |-> UpdateOneCheck,
                    spec |-> UpdateOneSpec],
     accessors |-> Accessors,
     names |-> [old |-> FieldNames, set |-> SetField, add |-> AddField,
                clear |-> ClearField, reset |-> ResetField]]
=============================================================================
