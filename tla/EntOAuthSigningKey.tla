------------------------ MODULE EntOAuthSigningKey ------------------------
(* The code ent generated for OAuthSigningKey: which fields each part of it
   handles. EntBuilders gives the parts their meaning. *)

\* The columns but for id.
Columns ==
    {"kid", "algorithm", "private_key_pem", "public_key_pem", "is_active",
     "expires_at", "retired_at"}

\* The migrated columns: which hold NULL, which are unique by themselves.
Table ==
    [notNull |-> Columns \ {"expires_at", "retired_at"},
     nullable |-> {"expires_at", "retired_at"}, unique |-> {"kid"}]

\* init(): the mixin field each descriptor is taken from (counted from one), the
\* type its default is asserted to have, how many validators are taken from it.
Runtime ==
    [index |-> [kid |-> 1, algorithm |-> 2, is_active |-> 5],
     defaults |-> [algorithm |-> "string", is_active |-> "bool"],
     validators |-> [kid |-> 2, algorithm |-> 1]]

\* The setters of the create builder.
CreateSetters == Columns

\* defaults(): the fields given their default when they are not set.
CreateDefaults == {"algorithm", "is_active"}

\* check(): the fields that must be set, the ones whose validator runs.
CreateCheck ==
    [required |-> Columns \ {"expires_at", "retired_at"},
     validated |-> {"kid", "algorithm"}]

\* createSpec(): the fields the INSERT names.
CreateSpec == Columns

\* The update builder's setters; "fresh" are the fields whose setter resets first.
UpdateSetters ==
    [set |-> Columns, add |-> {}, clear |-> {"expires_at", "retired_at"},
     fresh |-> {}]

\* check(): a validator runs only on a field that is set.
UpdateCheck == {"kid", "algorithm"}

\* sqlSave(): the assignments a set, an added and a cleared field cause.
UpdateSpec ==
    [set |-> Columns, add |-> {}, clear |-> {"expires_at", "retired_at"}]

\* The update-one builder's setters; "fresh" are the fields whose setter resets first.
UpdateOneSetters ==
    [set |-> Columns, add |-> {}, clear |-> {"expires_at", "retired_at"},
     fresh |-> {}]

\* check(): a validator runs only on a field that is set.
UpdateOneCheck == {"kid", "algorithm"}

\* sqlSave(): the assignments a set, an added and a cleared field cause.
UpdateOneSpec ==
    [set |-> Columns, add |-> {}, clear |-> {"expires_at", "retired_at"}]

\* The mutation's accessors: every field has Set, Old and Reset, some Add or
\* Append, some Clear.
Material ==
    [fields |-> {"kid", "algorithm", "private_key_pem", "public_key_pem",
                 "is_active"},
     add |-> {}, clear |-> {}]

\* Its accessors, continued.
Times ==
    [fields |-> {"expires_at", "retired_at"}, add |-> {},
     clear |-> {"expires_at", "retired_at"}]

\* Fields(), Field() and OldField() by name.
FieldNames == Columns

\* SetField() by name.
SetField == Columns

\* AddField() by name, the numeric fields.
AddField == {}

\* ClearField() by name, the nullable fields.
ClearField == {"expires_at", "retired_at"}

\* ResetField() by name.
ResetField == Columns

Accessors == <<Material, Times>>

\* All parts together.
Entity ==
    [columns |-> Columns, table |-> Table, runtime |-> Runtime,
     create |-> [set |-> CreateSetters, defaults |-> CreateDefaults,
                 check |-> CreateCheck, spec |-> CreateSpec],
     update |-> [set |-> UpdateSetters, check |-> UpdateCheck, spec |-> UpdateSpec],
     updateOne |-> [set |-> UpdateOneSetters, check |-> UpdateOneCheck,
                    spec |-> UpdateOneSpec],
     accessors |-> Accessors,
     names |-> [old |-> FieldNames, set |-> SetField, add |-> AddField,
                clear |-> ClearField, reset |-> ResetField]]
=============================================================================
