------------------------ MODULE EntPersonalAccessToken ------------------------
(* The code ent generated for PersonalAccessToken: which fields each part of it
   handles. EntBuilders gives the parts their meaning. *)

\* The columns but for id.
Columns ==
    {"user_id", "name", "token_hash", "token_prefix", "last_used_at",
     "expires_at"}

\* The migrated columns: which hold NULL, which are unique by themselves.
Table ==
    [notNull |-> Columns \ {"last_used_at", "expires_at"},
     nullable |-> {"last_used_at", "expires_at"}, unique |-> {"token_hash"}]

\* init(): the mixin field each descriptor is taken from (counted from one), the
\* type its default is asserted to have, how many validators are taken from it.
Runtime ==
    [index |-> [name |-> 2, token_hash |-> 3, token_prefix |-> 4],
     defaults |-> <<>>,
     validators |-> [name |-> 2, token_hash |-> 2, token_prefix |-> 2]]

\* The setters of the create builder.
CreateSetters == Columns

\* Save() has no defaults to give.
CreateDefaults == {}

\* check(): the fields that must be set, the ones whose validator runs.
CreateCheck ==
    [required |-> Columns \ {"last_used_at", "expires_at"},
     validated |-> {"name", "token_hash", "token_prefix"}]

\* createSpec(): the fields the INSERT names.
CreateSpec == Columns

\* The update builder's setters; "fresh" are the fields whose setter resets first.
UpdateSetters ==
    [set |-> Columns, add |-> {"user_id"},
     clear |-> {"last_used_at", "expires_at"}, fresh |-> {"user_id"}]

\* check(): a validator runs only on a field that is set.
UpdateCheck == {"name", "token_hash", "token_prefix"}

\* sqlSave(): the assignments a set, an added and a cleared field cause.
UpdateSpec ==
    [set |-> Columns, add |-> {"user_id"},
     clear |-> {"last_used_at", "expires_at"}]

\* The update-one builder's setters; "fresh" are the fields whose setter resets first.
UpdateOneSetters ==
    [set |-> Columns, add |-> {"user_id"},
     clear |-> {"last_used_at", "expires_at"}, fresh |-> {"user_id"}]

\* check(): a validator runs only on a field that is set.
UpdateOneCheck == {"name", "token_hash", "token_prefix"}

\* sqlSave(): the assignments a set, an added and a cleared field cause.
UpdateOneSpec ==
    [set |-> Columns, add |-> {"user_id"},
     clear |-> {"last_used_at", "expires_at"}]

\* The mutation's accessors: every field has Set, Old and Reset, some Add or
\* Append, some Clear.
Owner == [fields |-> {"user_id"}, add |-> {"user_id"}, clear |-> {}]

\* Its accessors, continued.
Secret ==
    [fields |-> {"name", "token_hash", "token_prefix"}, add |-> {},
     clear |-> {}]

\* Its accessors, continued.
Times ==
    [fields |-> {"last_used_at", "expires_at"}, add |-> {},
     clear |-> {"last_used_at", "expires_at"}]

\* Fields(), Field() and OldField() by name.
FieldNames == Columns

\* SetField() by name.
SetField == Columns

\* AddField() by name, the numeric fields.
AddField == {"user_id"}

\* ClearField() by name, the nullable fields.
ClearField == {"last_used_at", "expires_at"}

\* ResetField() by name.
ResetField == Columns

Accessors == <<Owner, Secret, Times>>

\* All parts together.
Entity ==
    [columns |-> Columns, table |-> Table, runtime |-> Runtime,
     create |-> [set |-> CreateSetters, defaults |-> CreateDefaults,
                 check |-> CreateCheck, spec |-> CreateSpec],
     update |-> [set |-> UpdateSetters, check |-> UpdateCheck, spec |-> UpdateSpec],
     updateOne |-> [set |-> UpdateOneSetters, check |-> UpdateOneCheck,
                    spec |-> UpdateOneSpec],
     accessors |-> Accessors,
     names |-> [old |-> FieldNames, set |-> SetField, add |-> AddField,
                clear |-> ClearField, reset |-> ResetField]]
=============================================================================
