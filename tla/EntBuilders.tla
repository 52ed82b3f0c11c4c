----------------------------- MODULE EntBuilders -----------------------------
(* The client ent generates from the schema mixins: the init() that binds
   defaults and validators, and the create, bulk, update, update-one, delete
   and delete-one builders over one table, hooks included.

   A behaviour follows ONE field of ONE entity, both chosen by Init: no builder
   call on one field reads or writes another. The other fields are set to
   values that pass. A stored value is the set of the builders that contributed
   to it, so Set replaces it and Add (or Append) joins it; "bad" marks one the
   field's validators refuse. A hook is code before and after its call of the
   next mutator, either half of which may change the mutation or fail; hooks that
   do not call the next one, or hide its error, are left out. The SQL engine and
   sqlgraph are external. *)
EXTENDS Integers, Sequences, FiniteSets

CONSTANTS Builders, Ids, MaxCalls,
          None, Null, Unread, Failed,
          ClientMixin   \* the OAuthClient fields init() finds in the mixin

Mixins == INSTANCE EntMixins
AccessToken == INSTANCE EntOAuthAccessToken
Code        == INSTANCE EntOAuthAuthorizationCode
Client      == INSTANCE EntOAuthClient
Refresh     == INSTANCE EntOAuthRefreshToken
SigningKey  == INSTANCE EntOAuthSigningKey
PAT         == INSTANCE EntPersonalAccessToken

\* The entities in the order of init().
InitOrder == <<"access", "code", "client", "refresh", "key", "pat">>

Entities == {InitOrder[i] : i \in DOMAIN InitOrder}

Entity == [access |-> AccessToken!Entity, code |-> Code!Entity,
           client |-> Client!Entity, refresh |-> Refresh!Entity,
           key |-> SigningKey!Entity, pat |-> PAT!Entity]

MixinFields == [access |-> Mixins!oauthSession, code |-> Mixins!oauthSession,
                client |-> ClientMixin, refresh |-> Mixins!oauthSession,
                key |-> Mixins!OAuthSigningKey, pat |-> Mixins!PersonalAccessToken]

VARIABLES
    booted,   \* how many entities init() has bound; None after a panic
    bound,    \* entity |-> the name of the descriptor each field is bound to
    entity,   \* the table followed, and
    field,    \* the field followed
    rows,     \* id |-> what the field holds, None where there is no row
    bld,      \* the builders
    log,      \* history: the calls on the field since the last Reset
    calls     \* calls on the builders so far

vars == <<booted, bound, entity, field, rows, bld, log, calls>>
rigid == <<booted, bound, entity, field>>

Values == SUBSET (Builders \cup {"default", "bad"})
Ops    == {"create", "update", "updateOne", "delete", "deleteOne"}
Errors == {"validation", "notFound", "constraint", "notNull", "database", "hook",
           "lateHook"}

\* nil, NULL and what OldX gives before and instead of a value.
Marks == {None, Null, Unread, Failed}
IsValue(x) == x \notin Marks

ASSUME MarksAssumption ==
    /\ Null # None /\ Unread \notin {None, Null} /\ Failed \notin {None, Null, Unread}
    /\ \A v \in Values : v \notin Marks
    /\ None \notin Builders /\ None \notin Ids /\ None \notin Ops
    /\ None \notin Errors /\ None \notin 0..Len(InitOrder)
ASSUME NamesAssumption == "default" \notin Builders /\ "bad" \notin Builders
ASSUME BoundAssumption == MaxCalls \in Nat

\* The mutation of one builder. at: where its Save is: outside ("build"), in the
\* hooks before the statement, waiting for another member of a bulk ("queued"), in
\* the hooks after the statement; id: the row of an update-one or delete-one; val,
\* add, cleared: the field's pointers and mark; done; old: the fetched old value;
\* chain: the next builder of a bulk; spec: what createSpec took, until the Save
\* ends; told: history, what its Saves reported.
Blank == [op |-> None, at |-> "build", id |-> None, val |-> None, add |-> {},
          cleared |-> FALSE, done |-> FALSE, old |-> Unread, chain |-> None,
          spec |-> None, told |-> {}]

E == Entity[entity]
AnId == CHOOSE i \in Ids : TRUE

Init ==
    /\ booted = 0
    /\ bound = [e \in Entities |-> <<>>]
    /\ entity \in Entities
    /\ field \in E.columns
    /\ rows \in {[i \in Ids |-> IF i \in seeded THEN {"default"} ELSE None] :
                    seeded \in {{}, {AnId}}}
    /\ bld = [b \in Builders |-> Blank]
    /\ log = [b \in Builders |-> <<>>]
    /\ calls = 0

-----------------------------------------------------------------------------
(* init() *)

\* What would panic in the code en generated for field f: an index past the list,
\* a default of another type, a validator that is not there.
Binds(en, mixin, f) ==
    LET i == en.runtime.index[f] IN
    /\ i \in DOMAIN mixin
    /\ f \in DOMAIN en.runtime.defaults => mixin[i].default = en.runtime.defaults[f]
    /\ f \in DOMAIN en.runtime.validators => mixin[i].validators >= en.runtime.validators[f]

\* The generated code en is of this mixin: what the mixin validates the builders
\* check, and each descriptor is bound under its own name.
Validates(en, mixin) ==
    /\ \A i \in DOMAIN mixin : mixin[i].validators > 0 =>
          /\ mixin[i].name \in en.create.check.validated
          /\ mixin[i].name \in en.update.check /\ mixin[i].name \in en.updateOne.check
          /\ mixin[i].name \in DOMAIN en.runtime.index
    /\ \A f \in DOMAIN en.runtime.index :
          en.runtime.index[f] \in DOMAIN mixin => mixin[en.runtime.index[f]].name = f

init ==
    /\ booted \in 0..(Len(InitOrder) - 1)
    /\ LET e == InitOrder[booted + 1]
           r == Entity[e].runtime
           binds(f) == Binds(Entity[e], MixinFields[e], f)
           fits == \A f \in DOMAIN r.index : binds(f)
           reached == {f \in DOMAIN r.index :
                          \A g \in DOMAIN r.index : r.index[g] < r.index[f] => binds(g)}
       IN  /\ booted' = IF fits THEN booted + 1 ELSE None
           /\ bound' = [bound EXCEPT ![e] =
                  [f \in {g \in reached : r.index[g] \in DOMAIN MixinFields[e]} |->
                      MixinFields[e][r.index[f]].name]]
    /\ UNCHANGED <<entity, field, rows, bld, log, calls>>

Ready == booted = Len(InitOrder)

-----------------------------------------------------------------------------
(* Builder calls *)

Called == calls < MaxCalls /\ calls' = calls + 1

\* Mutant: an update-one is not told its row.
NewBuilderForgetsId(b) ==
    /\ Ready
    /\ bld[b].op = None
    /\ \E op \in Ops, id \in Ids, node \in BOOLEAN :
          /\ op \in {"updateOne", "deleteOne"} \/ id = AnId
          /\ node => op = "updateOne" /\ rows[id] # None
          /\ bld' = [bld EXCEPT ![b] =
                [Blank EXCEPT !.op = op,
                              !.id = IF op = "deleteOne" THEN id ELSE None,
                              !.old = IF node THEN rows[id] ELSE Unread]]
    /\ UNCHANGED <<rigid, rows, log, calls>>

\* UpdateOne(node) and UpdateOneID(id), DeleteOneID(id) and the others: a node
\* in the caller's hands is the old value as it was loaded.
NewBuilder(b) ==
    /\ Ready
    /\ bld[b].op = None
    /\ \E op \in Ops, id \in Ids, node \in BOOLEAN :
          /\ op \in {"updateOne", "deleteOne"} \/ id = AnId
          /\ node => op = "updateOne" /\ rows[id] # None
          /\ bld' = [bld EXCEPT ![b] =
                [Blank EXCEPT !.op = op,
                              !.id = IF op \in {"updateOne", "deleteOne"} THEN id ELSE None,
                              !.old = IF node THEN rows[id] ELSE Unread]]
    /\ UNCHANGED <<rigid, rows, log, calls>>

Mutates(m) == m.op \in {"create", "update", "updateOne"}

\* The typed builder's tables; the create builder only has setters.
Api(m) == IF m.op = "create"
          THEN [set |-> E.create.set, add |-> {}, clear |-> {}, fresh |-> {}]
          ELSE IF m.op = "update" THEN E.update.set ELSE E.updateOne.set

\* The mutation's own accessors, typed or by name: open to the caller through
\* Mutation() and to the hooks.
HasAccessor(kind) == \E i \in DOMAIN E.accessors : field \in E.accessors[i][kind]
CanSet   == HasAccessor("fields") \/ field \in E.names.set
CanAdd   == HasAccessor("add") \/ field \in E.names.add
CanClear == HasAccessor("clear") \/ field \in E.names.clear
CanReset == HasAccessor("fields") \/ field \in E.names.reset

\* What a caller may pass: a good value, and a bad one if the mixin can tell.
Inputs(b) == {{b}} \cup
    (IF \E i \in DOMAIN MixinFields[entity] : LET d == MixinFields[entity][i] IN
            d.name = field /\ d.validators > 0
     THEN {{b, "bad"}} ELSE {})

\* The mutation's methods. Set forgets an Add and keeps the cleared mark.
SetX(m, v) == [m EXCEPT !.val = v, !.add = {}]
AddX(m, v) == [m EXCEPT !.add = @ \cup v]

\* Mutant: the pending value survives the Clear.
ClearXKeepsValue(m) == [m EXCEPT !.add = {}, !.cleared = TRUE]

ClearX(m)  == [m EXCEPT !.val = None, !.add = {}, !.cleared = TRUE]
ResetX(m)  == [m EXCEPT !.val = None, !.add = {}, !.cleared = FALSE]

Update(b, m, l) ==
    /\ Ready /\ Called /\ bld[b].at # "queued"
    /\ bld' = [bld EXCEPT ![b] = m]
    /\ log' = [log EXCEPT ![b] = l]
    /\ UNCHANGED <<rigid, rows>>

\* A setter of the builder: on some fields it resets the mutation first.
BuilderSet(b) ==
    LET m == bld[b]  fresh == field \in Api(m).fresh IN
    /\ Mutates(m) /\ m.at = "build" /\ field \in Api(m).set
    /\ \E v \in Inputs(b) :
          Update(b, SetX(IF fresh THEN ResetX(m) ELSE m, v),
                 IF fresh THEN <<<<"set", v>>>> ELSE Append(log[b], <<"set", v>>))

BuilderAdd(b) ==
    LET m == bld[b] IN
    /\ Mutates(m) /\ m.at = "build" /\ field \in Api(m).add
    /\ Update(b, AddX(m, {b}), Append(log[b], <<"add", {b}>>))

BuilderClear(b) ==
    LET m == bld[b] IN
    /\ Mutates(m) /\ m.at = "build" /\ field \in Api(m).clear
    /\ Update(b, ClearX(m), Append(log[b], <<"clear", {}>>))

\* The same through the mutation: by the caller, or by a hook while Save runs,
\* before the statement or after it.
MutationSet(b) ==
    /\ Mutates(bld[b]) /\ CanSet
    /\ \E v \in Inputs(b) :
          Update(b, SetX(bld[b], v), Append(log[b], <<"set", v>>))

MutationAdd(b) ==
    /\ Mutates(bld[b]) /\ CanAdd
    /\ Update(b, AddX(bld[b], {b}), Append(log[b], <<"add", {b}>>))

MutationClear(b) ==
    /\ Mutates(bld[b]) /\ CanClear
    /\ Update(b, ClearX(bld[b]), Append(log[b], <<"clear", {}>>))

MutationReset(b) ==
    /\ Mutates(bld[b]) /\ CanReset
    /\ Update(b, ResetX(bld[b]), <<>>)

\* OldX: fetched once, and whatever that gave is the answer from then on.
\* Mutant: the fetch also runs once the mutation is done.
OldValueAnyTime(m) == IF rows[m.id] = None THEN {Failed} ELSE {rows[m.id], Failed}

oldValue(m) ==
    IF m.done \/ rows[m.id] = None THEN {Failed} ELSE {rows[m.id], Failed}

OldX(b) ==
    LET m == bld[b] IN
    /\ Ready /\ Called
    /\ m.op = "updateOne" /\ m.at # "queued" /\ m.old = Unread
    /\ field \in E.names.old
    /\ \E v \in oldValue(m) : bld' = [bld EXCEPT ![b].old = v]
    /\ UNCHANGED <<rigid, rows, log>>

-----------------------------------------------------------------------------
(* Save *)

\* defaults(): before the hooks, and for creates only.
defaults(m) == IF m.val = None /\ field \in E.create.defaults
               THEN [m EXCEPT !.val = {"default"}] ELSE m

Save(b) ==
    /\ Ready /\ Called
    /\ bld[b].op # None /\ bld[b].at = "build"
    /\ bld' = [bld EXCEPT ![b] =
          [(IF bld[b].op = "create" THEN defaults(bld[b]) ELSE bld[b])
              EXCEPT !.at = "hooks", !.chain = None]]
    /\ UNCHANGED <<rigid, rows, log>>

\* CreateBulk(b, c).Save: defaults for all, then the mutators one inside the
\* other; the last one runs the batch.
SaveBulk(b, c) ==
    /\ Ready /\ Called
    /\ b # c
    /\ \A x \in {b, c} : bld[x].op = "create" /\ bld[x].at = "build"
    /\ bld' = [bld EXCEPT
          ![b] = [defaults(bld[b]) EXCEPT !.at = "hooks", !.chain = c],
          ![c] = [defaults(bld[c]) EXCEPT !.at = "queued", !.chain = None]]
    /\ UNCHANGED <<rigid, rows, log>>

\* A validator is that of the descriptor bound to the field.
Refuses(v) == "bad" \in v /\ field \in DOMAIN bound[entity] /\ bound[entity][field] = field

checkCreate(m) ==
    /\ field \in E.create.check.required => m.val # None
    /\ field \in E.create.check.validated /\ m.val # None => ~ Refuses(m.val)

\* Mutant: an update trusts the values it is given.
CheckUpdateNothing(m) == TRUE

checkUpdate(m) ==
    field \in (IF m.op = "update" THEN E.update.check ELSE E.updateOne.check)
        /\ m.val # None => ~ Refuses(m.val)

createSpec(m) == IF field \in E.create.spec /\ m.val # None THEN m.val ELSE Null

\* The assignments to the field's column; each a set with one outcome.
Assignments(m, old) ==
    LET spec == IF m.op = "update" THEN E.update.spec ELSE E.updateOne.spec IN
    (IF m.val # None /\ field \in spec.set THEN {m.val} ELSE {})
    \cup (IF m.add # {} /\ field \in spec.add
          THEN {(IF old = Null THEN {} ELSE old) \cup m.add} ELSE {})
    \cup (IF m.cleared /\ field \in spec.clear THEN {Null} ELSE {})

\* What the database may leave in the column: the assigned value; with two
\* assignments to the column any of them, or the statement is refused.
Outcomes(m, old) == IF Assignments(m, old) = {} THEN {old} ELSE Assignments(m, old)

Live == {i \in Ids : rows[i] # None}
Finished(m, r) == [m EXCEPT !.at = "build", !.chain = None, !.spec = None,
                            !.told = @ \cup {r}]

\* What the migrated table refuses of a statement that would leave new. Rows
\* that were there from the start hold {"default"}, and differ.
Refused(new) ==
    (IF field \in E.table.notNull /\ \E i \in Ids : new[i] = Null
     THEN {"notNull"} ELSE {})
    \cup (IF field \in E.table.unique
             /\ \E i, j \in Ids : i # j /\ new[i] = new[j]
                                  /\ new[i] \notin {None, Null, {"default"}}
          THEN {"constraint"} ELSE {})

\* The bulk a builder is saved in; itself, when it is saved alone.
Bulk(b) == {b} \cup {c \in Builders : bld[b].chain = c}
               \cup {c \in Builders : bld[c].chain = b /\ bld[c].at = "queued"}

\* Save returns to its caller: one result for the whole bulk.
Report(b, r) ==
    bld' = [c \in Builders |-> IF c \in Bulk(b) THEN Finished(bld[c], r) ELSE bld[c]]

\* The statement builder b runs: it takes effect, the mutation is done and its
\* hooks go on, or it is refused, or the database fails, and nothing is stored.
Statement(b, new) ==
    \/ /\ Refused(new) = {}
       /\ rows' = new
       /\ bld' = [bld EXCEPT ![b].at = "after", ![b].done = TRUE]
    \/ \E r \in Refused(new) \cup {"database"} : Report(b, r) /\ UNCHANGED rows

\* Mutant: each member of a bulk is inserted as soon as its check has passed.
InsertEach(b) ==
    \E i \in Ids \ Live :
        /\ rows' = [rows EXCEPT ![i] = createSpec(bld[b])]
        /\ bld' = [bld EXCEPT ![b].at = "queued", ![b].spec = createSpec(bld[b]),
                              ![bld[b].chain].at = "hooks"]

\* createSpec is taken now, the batch waits for the rest of the bulk.
Await(b) ==
    /\ bld' = [bld EXCEPT ![b].at = "queued", ![b].spec = createSpec(bld[b]),
                          ![bld[b].chain].at = "hooks"]
    /\ UNCHANGED rows

\* The last member runs the batch; the others are done as the hooks unwind.
Insert(b) ==
    \E at \in [Bulk(b) -> Ids \ Live] :
        /\ \A c, d \in Bulk(b) : at[c] = at[d] => c = d
        /\ LET spec(c) == IF c = b THEN createSpec(bld[b]) ELSE bld[c].spec IN
           Statement(b, [i \in Ids |-> IF \E c \in Bulk(b) : at[c] = i
                                       THEN spec(CHOOSE c \in Bulk(b) : at[c] = i)
                                       ELSE rows[i]])

sqlSaveCreate(b) ==
    /\ bld[b].op = "create" /\ bld[b].at = "hooks"
    /\ \/ ~ checkCreate(bld[b]) /\ Report(b, "validation") /\ UNCHANGED rows
       \/ checkCreate(bld[b]) /\ bld[b].chain # None /\ Await(b)
       \/ checkCreate(bld[b]) /\ bld[b].chain = None /\ Insert(b)
    /\ UNCHANGED <<rigid, log, calls>>

\* update and update-one; hit are the rows the caller's predicates select.
sqlSaveUpdate(b) ==
    LET m == bld[b] IN
    /\ m.op \in {"update", "updateOne"} /\ m.at = "hooks"
    /\ \/ ~ checkUpdate(m) /\ Report(b, "validation") /\ UNCHANGED rows
       \/ /\ checkUpdate(m)
          /\ \E hit \in SUBSET (IF m.op = "update" THEN Live ELSE Live \cap {m.id}) :
                IF m.op = "updateOne" /\ hit = {}
                THEN Report(b, "notFound") /\ UNCHANGED rows
                ELSE \E new \in {f \in [Ids -> (UNION {Outcomes(m, rows[i]) : i \in hit})
                                              \cup {rows[i] : i \in Ids}] :
                                   \A i \in Ids : IF i \in hit THEN f[i] \in Outcomes(m, rows[i])
                                                  ELSE f[i] = rows[i]} :
                        Statement(b, new)
    /\ UNCHANGED <<rigid, log, calls>>

\* sqlExec: done whatever the database said. Delete-one wants a row, and says so
\* when the hooks have returned.
sqlExecDelete(b) ==
    LET m == [bld[b] EXCEPT !.done = TRUE] IN
    /\ m.op \in {"delete", "deleteOne"} /\ m.at = "hooks"
    /\ \E hit \in SUBSET (IF m.op = "delete" THEN Live ELSE Live \cap {m.id}) :
          \/ /\ m.op = "delete" \/ hit # {}
             /\ rows' = [i \in Ids |-> IF i \in hit THEN None ELSE rows[i]]
             /\ bld' = [bld EXCEPT ![b] = [m EXCEPT !.at = "after"]]
          \/ /\ m.op = "deleteOne" /\ hit = {}
             /\ \E r \in {"notFound", "lateHook"} : bld' = [bld EXCEPT ![b] = Finished(m, r)]
             /\ UNCHANGED rows
          \/ bld' = [bld EXCEPT ![b] = Finished(m, "database")] /\ UNCHANGED rows
    /\ UNCHANGED <<rigid, log, calls>>

\* A hook fails, and with it the Save: before the statement or, too late to undo
\* it, after.
HookFails(b) ==
    /\ bld[b].at \in {"hooks", "after"}
    /\ Report(b, IF bld[b].at = "hooks" THEN "hook" ELSE "lateHook")
    /\ UNCHANGED <<rigid, rows, log, calls>>

\* The hooks of b have returned: the mutator that waits for it in a bulk is done
\* and its hooks go on, and after the outermost one Save reports success.
Return(b) ==
    LET outer == {c \in Builders : bld[c].chain = b /\ bld[c].at = "queued"} IN
    /\ bld[b].at = "after"
    /\ IF outer = {} THEN Report(b, "ok")
       ELSE bld' = [c \in Builders |->
                       CASE c = b -> [bld[b] EXCEPT !.at = "queued"]
                         [] c \in outer -> [bld[c] EXCEPT !.at = "after", !.done = TRUE]
                         [] OTHER -> bld[c]]
    /\ UNCHANGED <<rigid, rows, log, calls>>

Next ==
    \/ init
    \/ \E b \in Builders :
          \/ NewBuilder(b) \/ BuilderSet(b) \/ BuilderAdd(b) \/ BuilderClear(b)
          \/ MutationSet(b) \/ MutationAdd(b) \/ MutationClear(b) \/ MutationReset(b)
          \/ OldX(b) \/ Save(b) \/ (\E c \in Builders : SaveBulk(b, c))
          \/ sqlSaveCreate(b) \/ sqlSaveUpdate(b) \/ sqlExecDelete(b)
          \/ HookFails(b) \/ Return(b)

Spec == Init /\ [][Next]_vars

-----------------------------------------------------------------------------
(* Properties *)

OneOf(x, marks) == IF IsValue(x) THEN x \in Values ELSE x \in marks

\* Every variable stays in its type: a field's pointer is nil or a value, a
\* stored column NULL or a value, a builder in a bulk or on its own, and an
\* update-one or delete-one knows its row.
TypeOK ==
    /\ booted \in 0..Len(InitOrder) \cup {None}
    /\ entity \in Entities /\ field \in E.columns
    /\ \A i \in Ids : OneOf(rows[i], {Null, None})
    /\ \A b \in Builders :
          /\ bld[b].op \in Ops \cup {None} /\ bld[b].at \in {"build", "hooks", "queued", "after"}
          /\ bld[b].id \in Ids \cup {None}
          /\ bld[b].op \in {"updateOne", "deleteOne"} => bld[b].id \in Ids
          /\ bld[b].chain \in Builders \cup {None}
          /\ OneOf(bld[b].val, {None}) /\ bld[b].add \in Values
          /\ bld[b].cleared \in BOOLEAN /\ bld[b].done \in BOOLEAN
          /\ OneOf(bld[b].old, {Null, Unread, Failed})
          /\ OneOf(bld[b].spec, {Null, None})
          /\ bld[b].told \subseteq Errors \cup {"ok"}
    /\ calls \in 0..MaxCalls

\* Whatever a caller and the hooks do to a builder, a value its validators
\* refuse is never stored, and a NULL the column cannot hold is refused by the
\* builder's own check, never left to the database.
OnlyCheckedRowsStored ==
    /\ \A i \in Ids : IsValue(rows[i]) => "bad" \notin rows[i]
    /\ \A b \in Builders : "notNull" \notin bld[b].told

\* What a builder contributed is stored only when a Save of it succeeded, or a hook
\* failed it too late, or it has not returned yet: an error from anywhere before
\* the end of the statement, another member's of the bulk included, means that
\* nothing was stored.
StoredMeansSaved ==
    \A i \in Ids, b \in Builders : IsValue(rows[i]) /\ b \in rows[i] =>
        \/ bld[b].told \cap {"ok", "lateHook"} # {}
        \/ \E c \in Builders : bld[c].at = "after" /\ b \in Bulk(c)

\* OldX never answers with what the mutation itself wrote.
OldValueIsBefore ==
    \A b \in Builders : IsValue(bld[b].old) => b \notin bld[b].old

\* What an update may leave after the calls l since the last reset, of a column
\* that held old. Last adds to what the column holds, and the set before them, if
\* no clear is in between; a clear is never forgotten, so a later set or add
\* leaves the database two assignments to choose from.
Asked(l, old) ==
    LET adds == {i \in DOMAIN l : \A j \in i..Len(l) : l[j][1] = "add"}
        sets == {i \in DOMAIN l : l[i][1] = "set" /\ (i + 1)..Len(l) \subseteq adds}
        values == {l[i][2] : i \in sets}
            \cup (IF adds = {} THEN {}
                  ELSE {(IF old = Null THEN {} ELSE old) \cup UNION {l[i][2] : i \in adds}})
            \cup (IF \E i \in DOMAIN l : l[i][1] = "clear" THEN {Null} ELSE {})
    IN  IF values = {} THEN {old} ELSE values

\* An update-one whose statement took effect has left in the row what its calls
\* ask for: no value they replaced or reset shows through, whatever the order.
LastCallsShow ==
    [][\A b \in Builders :
          LET m == bld[b] IN
          (m.op = "updateOne" /\ m.at = "hooks" /\ bld'[b].at = "after")
          => rows'[m.id] \in Asked(log[b], rows[m.id])]_vars
=============================================================================
