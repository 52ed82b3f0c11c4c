------------------------- MODULE EntBuildersProofs -------------------------
(***************************************************************************)
(* Proofs about the generated builders for any number of builders, rows    *)
(* and calls, on every field of every entity: nothing of a builder is      *)
(* stored unless its statement took effect, bulks and failing hooks        *)
(* included, and an old value is never the mutation's own.                 *)
(*                                                                         *)
(* Neither is inductive. A statement writes what mutations hold, so the    *)
(* invariant has to say whose it is: Piece says that what the mutation of  *)
(* a builder holds, pending, added or taken for a bulk, comes from that    *)
(* builder alone, that a builder not yet made has saved nothing, and that  *)
(* past its statement a mutation is done. Lined says how the members of a  *)
(* bulk wait for each other: one Save at a time is in its hooks, and no    *)
(* builder is in two bulks, so a report reaches its own bulk only.         *)
(*                                                                         *)
(* The last two parts prove that only checked rows are stored and that an  *)
(* update leaves what its calls asked for. They rest on facts about the    *)
(* six generated tables (Complete, Validates), and on two invariants:      *)
(* CheckedInv follows a bad value from the call that passed it, and init() *)
(* from entity to entity; Followed ties the pointers of a mutation to the  *)
(* calls made on it since the last reset.                                  *)
(***************************************************************************)
EXTENDS EntBuilders, TLAPS

Places == {"build", "hooks", "queued", "after"}

Mutation ==
    [op : Ops \cup {None}, at : Places, id : Ids \cup {None},
     val : Values \cup {None}, add : Values, cleared : BOOLEAN, done : BOOLEAN,
     old : Values \cup {Null, Unread, Failed}, chain : Builders \cup {None},
     spec : Values \cup {Null, None}, told : SUBSET (Errors \cup {"ok"})]

\* Of all builders, value v comes from b alone.
Owned(b, v) == v \in Values => v \cap Builders \subseteq {b}

\* What a Save reports after a statement that took effect.
Late == {"ok", "lateHook"}

Piece(b, m) ==
    /\ m \in Mutation
    /\ Owned(b, m.val) /\ Owned(b, m.add) /\ Owned(b, m.spec)
    /\ m.op = None => (m.at = "build" /\ m.told = {})
    /\ m.op \in {"updateOne", "deleteOne"} => m.id \in Ids
    /\ m.at = "after" => m.done
    /\ (m.op # "create" /\ m.told \cap Late # {}) => m.done

Pieces == bld \in [Builders -> Mutation] /\ \A b \in Builders : Piece(b, bld[b])

\* The members of a bulk, b outside c, run in turn.
Lined ==
    /\ \A b, c \in Builders : bld[b].chain = c =>
          /\ bld[b].op = "create" /\ bld[c].op = "create" /\ bld[c].chain = None
          /\ \/ bld[b].at \in {"hooks", "after"} /\ bld[c].at = "queued"
             \/ bld[b].at = "queued" /\ bld[c].at \in {"hooks", "after"}
    /\ \A b, c, d \in Builders : bld[b].chain = d /\ bld[c].chain = d => b = c

\* The statement b was saved by took effect.
Covered(b) ==
    \/ bld[b].told \cap Late # {}
    \/ \E c \in Builders : bld[c].at = "after" /\ b \in Bulk(c)

Column == Values \cup {None, Null}

IInv ==
    /\ Pieces
    /\ Lined
    /\ rows \in [Ids -> Column]
    /\ StoredMeansSaved
    /\ OldValueIsBefore

-----------------------------------------------------------------------------
(* Values and marks *)

LEMMA ValueOrMark ==
    ASSUME NEW x
    PROVE  x \in Values => IsValue(x)
BY MarksAssumption DEF IsValue

LEMMA ColumnValue ==
    ASSUME NEW x \in Column, IsValue(x)
    PROVE  x \in Values
BY DEF Column, IsValue, Marks

LEMMA MarksOwned ==
    ASSUME NEW b
    PROVE  Owned(b, None) /\ Owned(b, Null) /\ Owned(b, {})
BY MarksAssumption DEF Owned, Marks

LEMMA InputsOwned ==
    ASSUME NEW b \in Builders, NEW v \in Inputs(b)
    PROVE  v \in Values /\ Owned(b, v)
<1>1. v \in {{b}, {b, "bad"}}
  BY DEF Inputs
<1> QED
  BY <1>1, NamesAssumption DEF Values, Owned

-----------------------------------------------------------------------------
(* The mutation's methods keep a builder's piece its own *)

\* n is the mutation m with other pointers to the field, old value or spec.
Alike(m, n) ==
    /\ n.op = m.op /\ n.at = m.at /\ n.id = m.id /\ n.done = m.done
    /\ n.chain = m.chain /\ n.told = m.told

LEMMA AlikePiece ==
    ASSUME NEW b \in Builders, NEW m, NEW n, Piece(b, m), n \in Mutation, Alike(m, n),
           Owned(b, n.val), Owned(b, n.add), Owned(b, n.spec)
    PROVE  Piece(b, n)
BY DEF Piece, Alike

LEMMA SetPiece ==
    ASSUME NEW b \in Builders, NEW m, Piece(b, m), NEW v \in Values, Owned(b, v)
    PROVE  Piece(b, SetX(m, v)) /\ Alike(m, SetX(m, v)) /\ SetX(m, v).old = m.old
<1> DEFINE n == [m EXCEPT !.val = v, !.add = {}]
<1>1. m \in Mutation /\ {} \in Values /\ Owned(b, m.spec)
  BY DEF Piece, Values
<1>2. n \in Mutation /\ n.val = v /\ n.add = {} /\ n.spec = m.spec /\ n.old = m.old
  BY <1>1 DEF Mutation
<1>3. Alike(m, n)
  BY <1>1 DEF Mutation, Alike
<1>4. SetX(m, v) = n
  BY DEF SetX
<1> HIDE DEF n
<1> QED
  BY <1>1, <1>2, <1>3, <1>4, MarksOwned, AlikePiece

LEMMA AddPiece ==
    ASSUME NEW b \in Builders, NEW m, Piece(b, m), NEW v \in Values, Owned(b, v)
    PROVE  Piece(b, AddX(m, v)) /\ Alike(m, AddX(m, v)) /\ AddX(m, v).old = m.old
<1> DEFINE n == [m EXCEPT !.add = @ \cup v]
<1>1. /\ m \in Mutation /\ m.add \in Values /\ m.add \cup v \in Values
      /\ Owned(b, m.val) /\ Owned(b, m.spec)
  BY DEF Piece, Mutation, Values
<1>2. n \in Mutation /\ n.val = m.val /\ n.add = m.add \cup v /\ n.spec = m.spec /\ n.old = m.old
  BY <1>1 DEF Mutation
<1>3. Alike(m, n)
  BY <1>1 DEF Mutation, Alike
<1>4. Owned(b, m.add \cup v)
  BY <1>1 DEF Piece, Owned
<1>5. AddX(m, v) = n
  BY DEF AddX
<1> HIDE DEF n
<1> QED
  BY <1>1, <1>2, <1>3, <1>4, <1>5, AlikePiece

LEMMA ClearPiece ==
    ASSUME NEW b \in Builders, NEW m, Piece(b, m)
    PROVE  Piece(b, ClearX(m)) /\ Alike(m, ClearX(m)) /\ ClearX(m).old = m.old
<1> DEFINE n == [m EXCEPT !.val = None, !.add = {}, !.cleared = TRUE]
<1>1. m \in Mutation /\ {} \in Values /\ Owned(b, m.spec)
  BY DEF Piece, Values
<1>2. n \in Mutation /\ n.val = None /\ n.add = {} /\ n.spec = m.spec /\ n.old = m.old
  BY <1>1 DEF Mutation
<1>3. Alike(m, n)
  BY <1>1 DEF Mutation, Alike
<1>4. ClearX(m) = n
  BY DEF ClearX
<1> HIDE DEF n
<1> QED
  BY <1>1, <1>2, <1>3, <1>4, MarksOwned, AlikePiece

LEMMA ResetPiece ==
    ASSUME NEW b \in Builders, NEW m, Piece(b, m)
    PROVE  Piece(b, ResetX(m)) /\ Alike(m, ResetX(m)) /\ ResetX(m).old = m.old
<1> DEFINE n == [m EXCEPT !.val = None, !.add = {}, !.cleared = FALSE]
<1>1. m \in Mutation /\ {} \in Values /\ Owned(b, m.spec)
  BY DEF Piece, Values
<1>2. n \in Mutation /\ n.val = None /\ n.add = {} /\ n.spec = m.spec /\ n.old = m.old
  BY <1>1 DEF Mutation
<1>3. Alike(m, n)
  BY <1>1 DEF Mutation, Alike
<1>4. ResetX(m) = n
  BY DEF ResetX
<1> HIDE DEF n
<1> QED
  BY <1>1, <1>2, <1>3, <1>4, MarksOwned, AlikePiece

LEMMA DefaultsPiece ==
    ASSUME NEW b \in Builders, NEW m, Piece(b, m)
    PROVE  Piece(b, defaults(m)) /\ Alike(m, defaults(m)) /\ defaults(m).old = m.old
<1> DEFINE n == [m EXCEPT !.val = {"default"}]
<1>1. /\ m \in Mutation /\ {"default"} \in Values /\ Owned(b, {"default"})
      /\ Owned(b, m.add) /\ Owned(b, m.spec)
  BY NamesAssumption DEF Piece, Values, Owned
<1>2. n \in Mutation /\ n.val = {"default"} /\ n.add = m.add /\ n.spec = m.spec /\ n.old = m.old
  BY <1>1 DEF Mutation
<1>3. Alike(m, n)
  BY <1>1 DEF Mutation, Alike
<1>4. defaults(m) = n \/ defaults(m) = m
  BY DEF defaults
<1>5. Alike(m, m)
  BY DEF Alike
<1> HIDE DEF n
<1> QED
  BY <1>1, <1>2, <1>3, <1>4, <1>5, AlikePiece

\* The end of a Save. Only a statement that took effect makes a report late.
LEMMA FinishedPiece ==
    ASSUME NEW b \in Builders, NEW m, Piece(b, m), NEW r \in Errors \cup {"ok"},
           m.op # None, r \in Late => m.done \/ m.op = "create"
    PROVE  /\ Piece(b, Finished(m, r))
           /\ Finished(m, r).done = m.done /\ Finished(m, r).old = m.old
           /\ Finished(m, r).op = m.op /\ Finished(m, r).at = "build"
           /\ Finished(m, r).chain = None /\ Finished(m, r).told = m.told \cup {r}
<1> DEFINE n == [m EXCEPT !.at = "build", !.chain = None, !.spec = None,
                          !.told = @ \cup {r}]
<1>1. m \in Mutation /\ m.told \in SUBSET (Errors \cup {"ok"})
  BY DEF Piece, Mutation
<1>2. n.val = m.val /\ n.add = m.add /\ n.spec = None
      /\ n.done = m.done /\ n.old = m.old /\ n.op = m.op /\ n.id = m.id /\ n.at = "build"
      /\ n.chain = None /\ n.told = m.told \cup {r}
  BY <1>1 DEF Mutation
<1>3. n \in Mutation
  <2> DEFINE t == m.told \cup {r}
  <2>1. t \in SUBSET (Errors \cup {"ok"}) /\ n = [m EXCEPT !.at = "build", !.chain = None,
                                                     !.spec = None, !.told = t]
    BY <1>1 DEF Mutation
  <2> HIDE DEF t, n
  <2> QED
    BY <1>1, <2>1 DEF Mutation, Places
<1>4. Finished(m, r) = n
  BY DEF Finished
<1> HIDE DEF n
<1>5. (n.op # "create" /\ n.told \cap Late # {}) => n.done
  BY <1>2 DEF Piece
<1> QED
  BY <1>2, <1>3, <1>4, <1>5, MarksOwned DEF Piece

\* A statement's success.
Effective(m) == [m EXCEPT !.at = "after", !.done = TRUE]

LEMMA EffectivePiece ==
    ASSUME NEW b \in Builders, NEW m, Piece(b, m), m.op # None
    PROVE  /\ Piece(b, Effective(m)) /\ Effective(m).at = "after" /\ Effective(m).done
           /\ Effective(m).old = m.old /\ Effective(m).op = m.op
           /\ Effective(m).chain = m.chain /\ Effective(m).told = m.told
<1> DEFINE n == [m EXCEPT !.at = "after", !.done = TRUE]
<1>1. m \in Mutation
  BY DEF Piece
<1>2. n.val = m.val /\ n.add = m.add /\ n.spec = m.spec
      /\ n.done /\ n.old = m.old /\ n.op = m.op /\ n.id = m.id /\ n.at = "after"
      /\ n.chain = m.chain /\ n.told = m.told
  BY <1>1 DEF Mutation
<1>3. n \in Mutation
  BY <1>1 DEF Mutation, Places
<1>4. Effective(m) = n
  BY DEF Effective
<1> HIDE DEF n
<1> QED
  BY <1>2, <1>3, <1>4 DEF Piece

\* Where a Save is and which bulk it is in.
Placed(m, l, c) == [m EXCEPT !.at = l, !.chain = c]

LEMMA PlacePiece ==
    ASSUME NEW b \in Builders, NEW m, Piece(b, m), NEW l \in Places \ {"after"},
           NEW c \in Builders \cup {None}, m.op # None
    PROVE  /\ Piece(b, Placed(m, l, c))
           /\ Placed(m, l, c).old = m.old /\ Placed(m, l, c).op = m.op
           /\ Placed(m, l, c).at = l /\ Placed(m, l, c).chain = c
           /\ Placed(m, l, c).told = m.told
<1> DEFINE n == [m EXCEPT !.at = l, !.chain = c]
<1>1. m \in Mutation /\ l \in Places
  BY DEF Piece
<1>2. n.val = m.val /\ n.add = m.add /\ n.spec = m.spec
      /\ n.done = m.done /\ n.old = m.old /\ n.op = m.op /\ n.id = m.id /\ n.at = l
      /\ n.chain = c /\ n.told = m.told
  BY <1>1 DEF Mutation
<1>3. n \in Mutation
  BY <1>1 DEF Mutation
<1>4. Placed(m, l, c) = n
  BY DEF Placed
<1> HIDE DEF n
<1> QED
  BY <1>2, <1>3, <1>4 DEF Piece, Places

-----------------------------------------------------------------------------
(* Who waits for whom *)

\* What a step may make of builder c, whatever happens to the rows.
Kept(c) ==
    /\ Piece(c, bld'[c])
    /\ bld[c].told \subseteq bld'[c].told
    /\ IsValue(bld'[c].old) => c \notin bld'[c].old

StillCovered == \A c \in Builders : Covered(c) => Covered(c)'

\* A step preserves the invariant if it keeps the pieces and the bulks, and writes
\* nothing but what is covered.
LEMMA KeptIInv ==
    ASSUME IInv, bld' = [c \in Builders |-> bld'[c]], \A c \in Builders : Kept(c),
           Lined', StillCovered, rows' \in [Ids -> Column],
           \A i \in Ids, c \in Builders : IsValue(rows'[i]) /\ c \in rows'[i] =>
              \/ \E j \in Ids : IsValue(rows[j]) /\ c \in rows[j]
              \/ Covered(c)'
    PROVE  IInv'
<1>1. Pieces'
  BY DEF Pieces, Kept, Piece
<1>2. StoredMeansSaved'
  <2>1. ASSUME NEW i \in Ids, NEW c \in Builders, IsValue(rows'[i]), c \in rows'[i]
        PROVE  Covered(c)'
    <3>1. ASSUME NEW j \in Ids, IsValue(rows[j]), c \in rows[j] PROVE Covered(c)
      BY <3>1 DEF IInv, StoredMeansSaved, Covered, Late
    <3> QED
      BY <2>1, <3>1 DEF StillCovered
  <2> QED
    BY <2>1 DEF StoredMeansSaved, Covered, Late
<1>3. OldValueIsBefore'
  BY DEF OldValueIsBefore, Kept
<1> QED
  BY <1>1, <1>2, <1>3 DEF IInv

\* Rows may go, none is written.
OnlyRemoved == rows' \in [Ids -> Column] /\ \A i \in Ids : rows'[i] \in {rows[i], None}

LEMMA NothingStored ==
    ASSUME IInv, OnlyRemoved, bld' = [c \in Builders |-> bld'[c]],
           \A c \in Builders : Kept(c), Lined', StillCovered
    PROVE  IInv'
<1>1. ASSUME NEW i \in Ids, NEW c \in Builders, IsValue(rows'[i]), c \in rows'[i]
      PROVE  \E j \in Ids : IsValue(rows[j]) /\ c \in rows[j]
  <2>1. rows'[i] = rows[i]
    BY <1>1 DEF OnlyRemoved, IsValue, Marks
  <2> QED
    BY <1>1, <2>1
<1> QED
  BY <1>1, KeptIInv DEF OnlyRemoved

LEMMA RowsKept ==
    ASSUME IInv, rows' = rows
    PROVE  OnlyRemoved
BY DEF IInv, OnlyRemoved

\* Nobody moves.
LEMMA SteadyBulks ==
    ASSUME IInv, \A c \in Builders :
              /\ bld'[c].at = bld[c].at /\ bld'[c].chain = bld[c].chain
              /\ bld[c].told \subseteq bld'[c].told
              /\ bld'[c].op = bld[c].op \/ bld[c].op = None
    PROVE  Lined' /\ StillCovered
<1>1. Lined'
  BY MarksAssumption DEF IInv, Lined, Ops
<1>2. StillCovered
  BY DEF StillCovered, Covered, Bulk
<1> QED
  BY <1>1, <1>2

\* A builder that is in no bulk moves.
LEMMA AloneMoves ==
    ASSUME IInv, NEW b \in Builders, \A c \in Builders \ {b} : bld'[c] = bld[c],
           bld[b].at = "build" \/ bld[b].op # "create", bld[b].at # "after",
           bld'[b].chain = None, bld[b].told \subseteq bld'[b].told
    PROVE  Lined' /\ StillCovered
<1>1. /\ \A c \in Builders : bld[c].chain # b
      /\ bld[b].chain \notin Builders
  BY DEF IInv, Lined
<1>2. Lined'
  BY <1>1, MarksAssumption DEF IInv, Lined
<1>3. StillCovered
  BY <1>1 DEF StillCovered, Covered, Bulk
<1> QED
  BY <1>2, <1>3

\* A statement takes effect: the bulk stays as it is.
LEMMA EffectiveMoves ==
    ASSUME IInv, NEW b \in Builders, bld[b].at = "hooks",
           \A c \in Builders \ {b} : bld'[c] = bld[c], bld'[b].at = "after",
           bld'[b].chain = bld[b].chain, bld'[b].op = bld[b].op, bld'[b].told = bld[b].told
    PROVE  Lined' /\ StillCovered /\ \A c \in Bulk(b) : Covered(c)'
<1>1. Lined'
  BY DEF IInv, Lined
<1>2. StillCovered /\ \A c \in Bulk(b) : Covered(c)'
  BY DEF StillCovered, Covered, Bulk
<1> QED
  BY <1>1, <1>2

\* One builder changes and does not move.
LEMMA OneBuilder ==
    ASSUME IInv, rows' = rows, NEW b \in Builders, NEW m, Piece(b, m),
           bld' = [bld EXCEPT ![b] = m], m.at = bld[b].at, m.chain = bld[b].chain,
           bld[b].told \subseteq m.told, m.op = bld[b].op \/ bld[b].op = None,
           IsValue(m.old) => b \notin m.old
    PROVE  IInv'
<1>1. bld \in [Builders -> Mutation]
  BY DEF IInv, Pieces
<1>2. ASSUME NEW c \in Builders
      PROVE  /\ Kept(c)
             /\ bld'[c].at = bld[c].at /\ bld'[c].chain = bld[c].chain
             /\ bld'[c].op = bld[c].op \/ bld[c].op = None
  <2>1. CASE c = b
    BY <1>1, <2>1 DEF Kept
  <2>2. CASE c # b
    BY <1>1, <2>2 DEF Kept, IInv, Pieces, OldValueIsBefore
  <2> QED
    BY <2>1, <2>2
<1>3. bld' = [c \in Builders |-> bld'[c]]
  BY <1>1
<1>4. Lined' /\ StillCovered
  BY <1>2, SteadyBulks DEF Kept
<1> QED
  BY <1>2, <1>3, <1>4, RowsKept, NothingStored

\* A call that leaves the old value alone.
LEMMA CallStep ==
    ASSUME IInv, NEW b \in Builders, NEW m, NEW l, Piece(b, m), Alike(bld[b], m),
           m.old = bld[b].old, Update(b, m, l)
    PROVE  IInv'
<1>1. rows' = rows /\ bld' = [bld EXCEPT ![b] = m]
  BY DEF Update
<1>2. IsValue(m.old) => b \notin m.old
  BY DEF IInv, OldValueIsBefore
<1> QED
  BY <1>1, <1>2, OneBuilder DEF Alike

\* A builder in hooks is in at most one bulk, whose other member waits.
LEMMA BulkFacts ==
    ASSUME Lined, NEW b \in Builders, bld[b].at \in {"hooks", "after"}
    PROVE  /\ Bulk(b) \in SUBSET Builders /\ b \in Bulk(b)
           /\ \A c \in Bulk(b) \ {b} : bld[c].op = "create" /\ bld[c].at = "queued"
           /\ \A c \in Builders, x \in Builders :
                 bld[c].chain = x => (c \in Bulk(b) <=> x \in Bulk(b))
<1>1. Bulk(b) \in SUBSET Builders /\ b \in Bulk(b)
  BY DEF Bulk
<1>2. \A c \in Bulk(b) \ {b} : bld[c].op = "create" /\ bld[c].at = "queued"
  BY DEF Bulk, Lined
<1>3. ASSUME NEW c \in Builders, NEW x \in Builders, bld[c].chain = x
      PROVE  c \in Bulk(b) <=> x \in Bulk(b)
  BY <1>3, MarksAssumption DEF Bulk, Lined
<1> QED
  BY <1>1, <1>2, <1>3

\* Save returns: its bulk is told, and no other is touched.
LEMMA ReportStep ==
    ASSUME IInv, NEW b \in Builders, NEW r \in Errors \cup {"ok"}, Report(b, r),
           \/ bld[b].at = "hooks" /\ r \notin Late
           \/ bld[b].at = "after" /\ r \in Late,
           rows' = rows
    PROVE  IInv'
<1>1. /\ Lined /\ bld \in [Builders -> Mutation] /\ bld[b].op # None
      /\ \A x \in Builders : Piece(x, bld[x]) /\ (IsValue(bld[x].old) => x \notin bld[x].old)
  BY DEF IInv, Pieces, OldValueIsBefore, Piece
<1>2. /\ Bulk(b) \in SUBSET Builders /\ b \in Bulk(b)
      /\ \A c \in Bulk(b) \ {b} : bld[c].op = "create" /\ bld[c].at = "queued"
      /\ \A c \in Builders, x \in Builders :
            bld[c].chain = x => (c \in Bulk(b) <=> x \in Bulk(b))
  BY <1>1, BulkFacts
<1> DEFINE bs == Bulk(b)
<1> HIDE DEF bs
<1>3. ASSUME NEW c \in Builders
      PROVE  /\ Kept(c)
             /\ c \notin bs => bld'[c] = bld[c]
             /\ c \in bs => bld'[c].at = "build" /\ bld'[c].chain = None
                            /\ bld'[c].told = bld[c].told \cup {r}
  <2>1. CASE c \notin bs
    <3>1. bld'[c] = bld[c]
      BY <2>1 DEF Report, bs
    <3> QED
      BY <1>1, <2>1, <3>1 DEF Kept
  <2>2. CASE c \in bs
    <3>1. bld'[c] = Finished(bld[c], r)
      BY <2>2 DEF Report, bs
    <3>2. bld[c].op # None /\ (r \in Late => bld[c].done \/ bld[c].op = "create")
      BY <1>1, <1>2, <2>2, MarksAssumption DEF bs, Ops, Piece
    <3> QED
      BY <1>1, <2>2, <3>1, <3>2, FinishedPiece DEF Kept
  <2> QED
    BY <2>1, <2>2
<1>4. Lined'
  <2>1. ASSUME NEW c \in Builders, NEW x \in Builders, bld'[c].chain = x
        PROVE  c \notin bs /\ x \notin bs /\ bld'[c] = bld[c] /\ bld'[x] = bld[x]
    BY <1>2, <1>3, <2>1, MarksAssumption DEF bs
  <2> QED
    BY <1>1, <2>1 DEF Lined
<1>5. StillCovered
  <2>1. ASSUME NEW x \in Builders, Covered(x) PROVE Covered(x)'
    <3>1. CASE bld[x].told \cap Late # {}
      BY <1>3, <3>1 DEF Kept, Covered
    <3>2. ASSUME NEW c \in Builders, bld[c].at = "after", x \in Bulk(c) PROVE Covered(x)'
      <4>1. CASE c \in bs
        <5>1. c = b /\ r \in Late
          BY <1>2, <3>2, <4>1 DEF bs
        <5> QED
          BY <1>3, <3>2, <5>1 DEF Covered, bs, Late
      <4>2. CASE c \notin bs
        <5>1. bld'[c] = bld[c] /\ bld'[x] = bld[x]
          BY <1>2, <1>3, <3>2, <4>2 DEF Bulk, bs
        <5> QED
          BY <3>2, <5>1 DEF Covered, Bulk
      <4> QED
        BY <4>1, <4>2
    <3> QED
      BY <2>1, <3>1, <3>2 DEF Covered
  <2> QED
    BY <2>1 DEF StillCovered
<1>6. bld' = [c \in Builders |-> bld'[c]]
  BY DEF Report
<1> QED
  BY <1>3, <1>4, <1>5, <1>6, RowsKept, NothingStored

\* A statement that leaves only values of its own bulk, or that were there before.
LEMMA StatementStep ==
    ASSUME IInv, NEW b \in Builders, NEW new \in [Ids -> Column], Statement(b, new),
           bld[b].at = "hooks",
           \A i \in Ids, c \in Builders : IsValue(new[i]) /\ c \in new[i] =>
              c \in Bulk(b) \/ \E j \in Ids : IsValue(rows[j]) /\ c \in rows[j]
    PROVE  IInv'
<1>1. /\ bld \in [Builders -> Mutation] /\ bld[b].op # None
      /\ \A x \in Builders : Piece(x, bld[x]) /\ (IsValue(bld[x].old) => x \notin bld[x].old)
  BY DEF IInv, Pieces, OldValueIsBefore, Piece
<1>2. CASE rows' = new /\ bld' = [bld EXCEPT ![b].at = "after", ![b].done = TRUE]
  <2> DEFINE n == Effective(bld[b])
  <2>1. bld' = [bld EXCEPT ![b] = n]
    BY <1>1, <1>2 DEF Effective, Mutation
  <2>2. /\ Piece(b, n) /\ n.at = "after" /\ n.old = bld[b].old /\ n.op = bld[b].op
        /\ n.chain = bld[b].chain /\ n.told = bld[b].told
    BY <1>1, EffectivePiece
  <2> HIDE DEF n
  <2>3. \A c \in Builders \ {b} : bld'[c] = bld[c]
    BY <1>1, <2>1
  <2>4. bld'[b] = n
    BY <1>1, <2>1
  <2>5. ASSUME NEW c \in Builders PROVE Kept(c)
    BY <1>1, <2>2, <2>3, <2>4 DEF Kept
  <2>6. Lined' /\ StillCovered /\ \A c \in Bulk(b) : Covered(c)'
    BY <2>2, <2>3, <2>4, EffectiveMoves
  <2>7. bld' = [c \in Builders |-> bld'[c]]
    BY <1>1, <2>1
  <2> QED
    BY <1>2, <2>5, <2>6, <2>7, KeptIInv
<1>3. ASSUME NEW r \in Refused(new) \cup {"database"}, rows' = rows, Report(b, r)
      PROVE  IInv'
  <2>1. r \in Errors \cup {"ok"} /\ r \notin Late
    BY <1>3 DEF Refused, Errors, Late
  <2> QED
    BY <1>3, <2>1, ReportStep
<1> QED
  BY <1>2, <1>3 DEF Statement

-----------------------------------------------------------------------------
(* One lemma per kind of action *)

\* Builder and mutation calls.
LEMMA CallsStep ==
    ASSUME IInv, NEW b \in Builders,
           \/ BuilderSet(b) \/ BuilderAdd(b) \/ BuilderClear(b)
           \/ MutationSet(b) \/ MutationAdd(b) \/ MutationClear(b) \/ MutationReset(b)
    PROVE  IInv'
<1>b. Piece(b, bld[b]) /\ {b} \in Inputs(b)
  BY DEF IInv, Pieces, Inputs
<1>1. CASE BuilderSet(b)
  <2>1. PICK v \in Inputs(b) : \E l :
           \/ Update(b, SetX(bld[b], v), l)
           \/ Update(b, SetX(ResetX(bld[b]), v), l)
    BY <1>1 DEF BuilderSet
  <2>2. v \in Values /\ Owned(b, v)
    BY InputsOwned
  <2> DEFINE n == ResetX(bld[b])
             k == SetX(n, v)
  <2>3. Piece(b, n) /\ Alike(bld[b], n) /\ n.old = bld[b].old
    BY <1>b, ResetPiece
  <2>4. ASSUME NEW l, Update(b, SetX(bld[b], v), l) PROVE IInv'
    BY <1>b, <2>2, <2>4, SetPiece, CallStep
  <2> HIDE DEF n
  <2>5. Piece(b, k) /\ Alike(bld[b], k) /\ k.old = bld[b].old
    <3>1. Piece(b, k) /\ Alike(n, k) /\ k.old = n.old
      BY <2>2, <2>3, SetPiece
    <3> HIDE DEF k
    <3> QED
      BY <2>3, <3>1 DEF Alike
  <2>6. ASSUME NEW l, Update(b, SetX(ResetX(bld[b]), v), l) PROVE IInv'
    <3>1. Update(b, k, l)
      BY <2>6 DEF n
    <3> HIDE DEF k
    <3> QED
      BY <2>5, <3>1, CallStep
  <2> QED
    BY <2>1, <2>4, <2>6
<1>2. CASE MutationSet(b)
  <2>1. PICK v \in Inputs(b) : Update(b, SetX(bld[b], v), Append(log[b], <<"set", v>>))
    BY <1>2 DEF MutationSet
  <2>2. v \in Values /\ Owned(b, v)
    BY InputsOwned
  <2> QED
    BY <1>b, <2>1, <2>2, SetPiece, CallStep
<1>3. CASE BuilderAdd(b) \/ MutationAdd(b)
  <2>1. Update(b, AddX(bld[b], {b}), Append(log[b], <<"add", {b}>>))
    BY <1>3 DEF BuilderAdd, MutationAdd
  <2>2. {b} \in Values /\ Owned(b, {b})
    BY <1>b, InputsOwned
  <2> QED
    BY <1>b, <2>1, <2>2, AddPiece, CallStep
<1>4. CASE BuilderClear(b) \/ MutationClear(b)
  <2>1. Update(b, ClearX(bld[b]), Append(log[b], <<"clear", {}>>))
    BY <1>4 DEF BuilderClear, MutationClear
  <2> QED
    BY <1>b, <2>1, ClearPiece, CallStep
<1>5. CASE MutationReset(b)
  <2>1. Update(b, ResetX(bld[b]), <<>>)
    BY <1>5 DEF MutationReset
  <2> QED
    BY <1>b, <2>1, ResetPiece, CallStep
<1> QED
  BY <1>1, <1>2, <1>3, <1>4, <1>5

\* Nothing of a builder is stored before it is made, nor of an update-one before
\* its mutation is done.
LEMMA NotStoredYet ==
    ASSUME IInv, NEW b \in Builders,
           bld[b].op = None \/ (bld[b].op = "updateOne" /\ ~ bld[b].done),
           NEW i \in Ids, IsValue(rows[i])
    PROVE  b \notin rows[i]
<1>1. Piece(b, bld[b]) /\ Lined /\ bld[b].op # "create"
  BY MarksAssumption DEF IInv, Pieces, Ops
<1>2. bld[b].told \cap Late = {}
  BY <1>1 DEF Piece
<1>3. ASSUME NEW c \in Builders, bld[c].at = "after" PROVE b \notin Bulk(c)
  <2>1. bld[b].at # "after"
    BY <1>1 DEF Piece
  <2> QED
    BY <1>1, <1>3, <2>1 DEF Bulk, Lined
<1> QED
  BY <1>2, <1>3 DEF IInv, StoredMeansSaved, Late

\* A new builder has done nothing, and the node it may be made from holds nothing
\* of it.
LEMMA NewBuilderStep ==
    ASSUME IInv, NEW b \in Builders, NewBuilder(b)
    PROVE  IInv'
<1>1. PICK op \in Ops, id \in Ids, node \in BOOLEAN :
         /\ node => op = "updateOne" /\ rows[id] # None
         /\ bld' = [bld EXCEPT ![b] =
               [Blank EXCEPT !.op = op,
                             !.id = IF op \in {"updateOne", "deleteOne"} THEN id ELSE None,
                             !.old = IF node THEN rows[id] ELSE Unread]]
  BY DEF NewBuilder
<1> DEFINE i == IF op \in {"updateOne", "deleteOne"} THEN id ELSE None
           o == IF node THEN rows[id] ELSE Unread
           m == [Blank EXCEPT !.op = op, !.id = i, !.old = o]
<1>2. bld' = [bld EXCEPT ![b] = m]
  BY <1>1, Zenon
<1>3. Piece(b, bld[b]) /\ Lined /\ bld[b].op = None
  BY DEF NewBuilder, IInv, Pieces
<1>4. o \in Values \cup {Null, Unread, Failed}
  BY <1>1 DEF IInv, Column
<1>5. IsValue(o) => b \notin o
  BY <1>3, NotStoredYet DEF IsValue, Marks
<1>6. i \in Ids \cup {None}
  OBVIOUS
<1> HIDE DEF i, o
<1>7. /\ m.op = op /\ m.at = "build" /\ m.id = i /\ m.val = None /\ m.add = {}
      /\ ~ m.done /\ m.old = o /\ m.spec = None /\ m.chain = None /\ m.told = {}
  BY DEF Blank
<1>8. {} \in Values
  BY DEF Values
<1>9. Piece(b, m)
  <2>1. m \in Mutation
    BY <1>4, <1>6, <1>8 DEF Mutation, Blank, Places
  <2>2. Owned(b, m.val) /\ Owned(b, m.add) /\ Owned(b, m.spec)
    BY <1>7, MarksOwned
  <2>3. op \in {"updateOne", "deleteOne"} => i \in Ids
    BY DEF i
  <2> HIDE DEF m
  <2> QED
    BY <1>7, <2>1, <2>2, <2>3, MarksAssumption DEF Piece
<1>10. rows' = rows
  BY DEF NewBuilder
<1>11. bld[b].at = "build" /\ bld[b].told = {} /\ bld[b].chain = None
  <2>1. bld[b].chain \in Builders \cup {None}
    BY <1>3 DEF Piece, Mutation
  <2> QED
    BY <1>3, <2>1, MarksAssumption DEF Piece, Lined, Ops
<1> HIDE DEF m
<1> QED
  BY <1>3, <1>5, <1>7, <1>9, <1>2, <1>10, <1>11, OneBuilder

\* A fetch before the mutation is done finds nothing of the builder.
LEMMA OldXStep ==
    ASSUME IInv, NEW b \in Builders, OldX(b)
    PROVE  IInv'
<1>1. PICK v \in oldValue(bld[b]) : bld' = [bld EXCEPT ![b].old = v]
  BY DEF OldX
<1>2. rows' = rows /\ bld[b].op = "updateOne"
  BY DEF OldX
<1>3. Piece(b, bld[b]) /\ bld[b] \in Mutation /\ bld \in [Builders -> Mutation]
  BY DEF IInv, Pieces, Piece
<1>4. v = Failed \/ (~ bld[b].done /\ v = rows[bld[b].id] /\ v # None)
  BY <1>1 DEF oldValue
<1>5. v \in Values \cup {Null, Unread, Failed} /\ (IsValue(v) => b \notin v)
  <2>1. CASE v = Failed
    BY <2>1 DEF IsValue, Marks
  <2>2. CASE ~ bld[b].done /\ v = rows[bld[b].id] /\ v # None
    <3>1. bld[b].id \in Ids
      BY <1>2, <1>3 DEF Piece
    <3>2. v \in Values \cup {Null, Unread, Failed}
      BY <2>2, <3>1 DEF IInv, Column
    <3> QED
      BY <1>2, <2>2, <3>1, <3>2, NotStoredYet
  <2> QED
    BY <1>4, <2>1, <2>2
<1> DEFINE m == [bld[b] EXCEPT !.old = v]
<1>6. /\ m \in Mutation /\ m.old = v /\ m.val = bld[b].val
      /\ m.add = bld[b].add /\ m.spec = bld[b].spec
  BY <1>3, <1>5 DEF Mutation
<1>7. Alike(bld[b], m)
  BY <1>3 DEF Mutation, Alike
<1>8. bld' = [bld EXCEPT ![b] = m]
  BY <1>1, <1>3
<1> HIDE DEF m
<1>9. Owned(b, m.val) /\ Owned(b, m.add) /\ Owned(b, m.spec)
  BY <1>3, <1>6 DEF Piece
<1>10. Piece(b, m)
  BY <1>3, <1>6, <1>7, <1>9, AlikePiece
<1> QED
  BY <1>2, <1>5, <1>6, <1>7, <1>8, <1>10, OneBuilder DEF Alike

\* Save and a bulk's Save fill in defaults and place the builders.
LEMMA SaveStep ==
    ASSUME IInv, NEW b \in Builders, Save(b)
    PROVE  IInv'
<1> DEFINE d == IF bld[b].op = "create" THEN defaults(bld[b]) ELSE bld[b]
           m == Placed(d, "hooks", None)
<1>1. /\ bld' = [bld EXCEPT ![b] = m] /\ rows' = rows
      /\ bld[b].op # None /\ bld[b].at = "build"
  BY DEF Save, Placed
<1>2. /\ bld \in [Builders -> Mutation]
      /\ \A x \in Builders : Piece(x, bld[x]) /\ (IsValue(bld[x].old) => x \notin bld[x].old)
  BY DEF IInv, Pieces, OldValueIsBefore
<1>3. Piece(b, d) /\ Alike(bld[b], d) /\ d.old = bld[b].old
  BY <1>2, DefaultsPiece DEF Alike
<1> HIDE DEF d
<1>4. /\ Piece(b, m) /\ m.old = bld[b].old /\ m.chain = None /\ m.told = bld[b].told
  BY <1>1, <1>3, PlacePiece DEF Alike, Places
<1> HIDE DEF m
<1>5. bld'[b] = m /\ \A x \in Builders \ {b} : bld'[x] = bld[x]
  BY <1>1, <1>2
<1>6. ASSUME NEW x \in Builders PROVE Kept(x)
  BY <1>2, <1>4, <1>5 DEF Kept
<1>7. Lined' /\ StillCovered
  BY <1>1, <1>4, <1>5, AloneMoves
<1>8. bld' = [x \in Builders |-> bld'[x]]
  BY <1>1, <1>2
<1> QED
  BY <1>1, <1>6, <1>7, <1>8, RowsKept, NothingStored

LEMMA SaveBulkStep ==
    ASSUME IInv, NEW b \in Builders, NEW c \in Builders, SaveBulk(b, c)
    PROVE  IInv'
<1> DEFINE m == Placed(defaults(bld[b]), "hooks", c)
           n == Placed(defaults(bld[c]), "queued", None)
<1>1. /\ bld' = [bld EXCEPT ![b] = m, ![c] = n] /\ rows' = rows /\ b # c
      /\ \A x \in {b, c} : bld[x].op = "create" /\ bld[x].at = "build"
  BY DEF SaveBulk, Placed
<1>2. /\ bld \in [Builders -> Mutation] /\ Lined
      /\ \A x \in Builders : Piece(x, bld[x]) /\ (IsValue(bld[x].old) => x \notin bld[x].old)
  BY DEF IInv, Pieces, OldValueIsBefore
<1>3. ASSUME NEW x \in {b, c}, NEW l \in {"hooks", "queued"}, NEW y \in Builders \cup {None}
      PROVE  LET k == Placed(defaults(bld[x]), l, y) IN
             /\ Piece(x, k) /\ k.old = bld[x].old /\ k.op = "create" /\ k.at = l
             /\ k.chain = y /\ k.told = bld[x].told
  <2> DEFINE e == defaults(bld[x])
             k == Placed(e, l, y)
  <2>1. x \in Builders /\ l \in Places \ {"after"} /\ bld[x].op = "create"
    BY <1>1 DEF Places
  <2>2. Piece(x, e) /\ Alike(bld[x], e) /\ e.old = bld[x].old
    BY <1>2, <2>1, DefaultsPiece
  <2> HIDE DEF e
  <2>3. e.op = "create" /\ e.op # None /\ e.told = bld[x].told
    BY <2>1, <2>2, MarksAssumption DEF Alike, Ops
  <2>4. /\ Piece(x, k) /\ k.old = e.old /\ k.op = e.op /\ k.at = l
        /\ k.chain = y /\ k.told = e.told
    BY <2>1, <2>2, <2>3, PlacePiece
  <2> HIDE DEF k
  <2>5. /\ Piece(x, k) /\ k.old = bld[x].old /\ k.op = "create" /\ k.at = l
        /\ k.chain = y /\ k.told = bld[x].told
    BY <2>2, <2>3, <2>4
  <2> QED
    BY <2>5 DEF k, e
<1>4. /\ Piece(b, m) /\ m.old = bld[b].old /\ m.op = "create" /\ m.at = "hooks"
      /\ m.chain = c /\ m.told = bld[b].told
  BY <1>3
<1>5. /\ Piece(c, n) /\ n.old = bld[c].old /\ n.op = "create" /\ n.at = "queued"
      /\ n.chain = None /\ n.told = bld[c].told
  BY <1>3
<1> HIDE DEF m, n
<1>6. /\ bld'[b] = m /\ bld'[c] = n
      /\ \A x \in Builders \ {b, c} : bld'[x] = bld[x]
  BY <1>1, <1>2
<1>7. ASSUME NEW x \in Builders PROVE Kept(x)
  BY <1>2, <1>4, <1>5, <1>6 DEF Kept
<1>8. \A x \in Builders : bld[x].chain \notin {b, c}
  BY <1>1, <1>2 DEF Lined
<1>9. Lined'
  BY <1>1, <1>2, <1>4, <1>5, <1>6, <1>8, MarksAssumption DEF Lined
<1>10. StillCovered
  BY <1>1, <1>2, <1>4, <1>5, <1>6, <1>8 DEF StillCovered, Covered, Bulk, Lined
<1>11. bld' = [x \in Builders |-> bld'[x]]
  BY <1>1, <1>2
<1> QED
  BY <1>1, <1>7, <1>9, <1>10, <1>11, RowsKept, NothingStored

LEMMA SpecOwned ==
    ASSUME NEW b \in Builders, NEW m, Piece(b, m)
    PROVE  createSpec(m) \in Values \cup {Null} /\ Owned(b, createSpec(m))
BY MarksOwned DEF createSpec, Piece, Mutation

\* A member of a bulk waits: createSpec is taken, nothing is stored.
LEMMA AwaitStep ==
    ASSUME IInv, NEW b \in Builders, Await(b), bld[b].chain # None, bld[b].at = "hooks"
    PROVE  IInv'
<1>1. /\ bld \in [Builders -> Mutation] /\ Lined
      /\ \A x \in Builders : Piece(x, bld[x]) /\ (IsValue(bld[x].old) => x \notin bld[x].old)
  BY DEF IInv, Pieces, OldValueIsBefore
<1> DEFINE c == bld[b].chain
           s == createSpec(bld[b])
<1>2. /\ c \in Builders /\ s \in Values \cup {Null} /\ Owned(b, s)
      /\ bld[b].op = "create" /\ bld[c].op = "create" /\ bld[c].at = "queued" /\ c # b
      /\ bld[c].chain = None
  BY <1>1, SpecOwned DEF Mutation, Lined
<1>3. rows' = rows /\ bld' = [bld EXCEPT ![b].at = "queued", ![b].spec = s, ![c].at = "hooks"]
  BY DEF Await
<1>c. bld[b].chain = c
  OBVIOUS
<1> HIDE DEF c, s
<1>4. ASSUME NEW x \in Builders
      PROVE  /\ Kept(x) /\ bld'[x].op = bld[x].op /\ bld'[x].chain = bld[x].chain
             /\ bld'[x].told = bld[x].told
             /\ bld'[x].at = IF x = c THEN "hooks" ELSE IF x = b THEN "queued" ELSE bld[x].at
  <2> DEFINE a == IF x = c THEN "hooks" ELSE IF x = b THEN "queued" ELSE bld[x].at
             t == IF x = b THEN s ELSE bld[x].spec
             n == [bld[x] EXCEPT !.at = a, !.spec = t]
  <2>1. bld[x] \in Mutation /\ Piece(x, bld[x])
    BY <1>1
  <2>2. bld'[x] = n
    <3>1. CASE x = b
      BY <1>1, <1>2, <1>3, <2>1, <3>1 DEF Mutation
    <3>2. CASE x = c
      BY <1>1, <1>2, <1>3, <2>1, <3>2 DEF Mutation
    <3>3. CASE x \notin {b, c}
      BY <1>1, <1>2, <1>3, <2>1, <3>3 DEF Mutation
    <3> QED
      BY <3>1, <3>2, <3>3
  <2>3. t \in Values \cup {Null, None} /\ Owned(x, t)
    BY <1>2, <2>1 DEF Piece, Mutation
  <2>4. a \in Places /\ (a = "after" => bld[x].at = "after") /\ (bld[x].op = None => a = bld[x].at)
    BY <1>2, <2>1, MarksAssumption DEF Mutation, Places, Ops
  <2>5. a = IF x = c THEN "hooks" ELSE IF x = b THEN "queued" ELSE bld[x].at
    OBVIOUS
  <2> HIDE DEF a, t
  <2>6. n \in Mutation
    BY <2>1, <2>3, <2>4 DEF Mutation
  <2>7. n.val = bld[x].val /\ n.add = bld[x].add /\ n.spec = t
        /\ n.done = bld[x].done /\ n.old = bld[x].old /\ n.op = bld[x].op
        /\ n.id = bld[x].id /\ n.at = a /\ n.chain = bld[x].chain /\ n.told = bld[x].told
    BY <2>1 DEF Mutation
  <2> HIDE DEF n
  <2>8. Piece(x, n)
    BY <2>1, <2>3, <2>4, <2>6, <2>7 DEF Piece
  <2> QED
    BY <1>1, <2>2, <2>5, <2>7, <2>8 DEF Kept
<1>5. Lined'
  BY <1>1, <1>2, <1>4, <1>c, MarksAssumption DEF Lined
<1>6. StillCovered
  BY <1>1, <1>2, <1>4, <1>c, MarksAssumption DEF StillCovered, Covered, Bulk, Lined
<1>7. bld' = [x \in Builders |-> bld'[x]]
  BY <1>1, <1>3
<1> QED
  BY <1>3, <1>4, <1>5, <1>6, <1>7, RowsKept, NothingStored

\* The last member of a bulk, or a create on its own, runs the INSERT: each new row
\* holds what one of the members asked for.
LEMMA InsertStep ==
    ASSUME IInv, NEW b \in Builders, Insert(b), bld[b].at = "hooks"
    PROVE  IInv'
<1>1. /\ \A x \in Builders : Piece(x, bld[x])
      /\ rows \in [Ids -> Column]
  BY DEF IInv, Pieces
<1> DEFINE spec(c) == IF c = b THEN createSpec(bld[b]) ELSE bld[c].spec
           bs == Bulk(b)
<1>2. PICK at \in [bs -> Ids \ Live] :
         Statement(b, [i \in Ids |-> IF \E c \in bs : at[c] = i
                                     THEN spec(CHOOSE c \in bs : at[c] = i) ELSE rows[i]])
  BY DEF Insert
<1> DEFINE new == [i \in Ids |-> IF \E c \in bs : at[c] = i
                                 THEN spec(CHOOSE c \in bs : at[c] = i) ELSE rows[i]]
<1>3. bs \in SUBSET Builders
  BY DEF Bulk
<1>4. ASSUME NEW c \in bs PROVE spec(c) \in Column /\ Owned(c, spec(c))
  <2>1. Piece(c, bld[c]) /\ bld[c].spec \in Values \cup {Null, None}
    BY <1>1, <1>3 DEF Piece, Mutation
  <2>2. CASE c = b
    BY <2>1, <2>2, SpecOwned DEF Column
  <2>3. CASE c # b
    BY <2>1, <2>3 DEF Column, Piece
  <2> QED
    BY <2>2, <2>3
<1>b. bs = Bulk(b)
  OBVIOUS
<1> HIDE DEF spec, bs
<1>5. ASSUME NEW i \in Ids
      PROVE  \/ new[i] = rows[i]
             \/ \E c \in bs : new[i] = spec(c)
  <2>1. CASE \E c \in bs : at[c] = i
    <3>1. (CHOOSE c \in bs : at[c] = i) \in bs
      BY <2>1
    <3> QED
      BY <2>1, <3>1
  <2>2. CASE ~ \E c \in bs : at[c] = i
    BY <2>2
  <2> QED
    BY <2>1, <2>2
<1>6. Statement(b, new)
  BY <1>2
<1>7. new = [i \in Ids |-> new[i]]
  OBVIOUS
<1> HIDE DEF new
<1>8. new \in [Ids -> Column]
  BY <1>1, <1>4, <1>5, <1>7
<1>9. ASSUME NEW i \in Ids, NEW c \in Builders, IsValue(new[i]), c \in new[i]
      PROVE  c \in Bulk(b) \/ \E j \in Ids : IsValue(rows[j]) /\ c \in rows[j]
  <2>1. CASE new[i] = rows[i]
    BY <1>9, <2>1
  <2>2. ASSUME NEW d \in bs, new[i] = spec(d)
        PROVE  c \in bs
    <3>1. spec(d) \in Values
      BY <1>4, <1>9, <2>2, ColumnValue
    <3> QED
      BY <1>4, <1>9, <2>2, <3>1 DEF Owned
  <2> QED
    BY <1>5, <1>b, <2>1, <2>2
<1> QED
  BY <1>6, <1>8, <1>9, StatementStep

LEMMA CreateStep ==
    ASSUME IInv, NEW b \in Builders, sqlSaveCreate(b)
    PROVE  IInv'
<1>1. bld[b].at = "hooks"
  BY DEF sqlSaveCreate
<1>2. CASE Report(b, "validation") /\ rows' = rows
  BY <1>1, <1>2, ReportStep DEF Errors, Late
<1>3. CASE bld[b].chain # None /\ Await(b)
  BY <1>1, <1>3, AwaitStep
<1>4. CASE bld[b].chain = None /\ Insert(b)
  BY <1>1, <1>4, InsertStep
<1> QED
  BY <1>2, <1>3, <1>4 DEF sqlSaveCreate

\* What an UPDATE leaves in a row is of its builder or was there.
LEMMA OutcomeSource ==
    ASSUME NEW b \in Builders, NEW m, Piece(b, m), NEW old \in Values \cup {Null},
           NEW v \in Outcomes(m, old)
    PROVE  /\ v \in Column
           /\ \A c \in Builders : v \in Values /\ c \in v => c = b \/ (old \in Values /\ c \in old)
<1>1. m.val \in Values \cup {None} /\ m.add \in Values /\ Owned(b, m.val) /\ Owned(b, m.add)
  BY DEF Piece, Mutation
<1> DEFINE was == IF old = Null THEN {} ELSE old
<1>2. \/ v = old \/ v = Null
      \/ v = m.val /\ m.val # None
      \/ v = was \cup m.add
  BY DEF Outcomes, Assignments
<1>3. CASE v = old
  BY <1>3 DEF Column
<1>4. CASE v = Null
  BY <1>4, MarksAssumption DEF Column, Marks
<1>5. CASE v = m.val /\ m.val # None
  BY <1>1, <1>5 DEF Column, Owned
<1>6. CASE v = was \cup m.add
  <2>1. was \in Values /\ (was = {} \/ was = old)
    BY DEF Values
  <2> HIDE DEF was
  <2>2. v \in Values
    BY <1>1, <1>6, <2>1 DEF Values
  <2>3. ASSUME NEW c \in Builders, c \in v PROVE c = b \/ (old \in Values /\ c \in old)
    BY <1>1, <1>6, <2>1, <2>3 DEF Owned
  <2> QED
    BY <2>2, <2>3 DEF Column
<1> QED
  BY <1>2, <1>3, <1>4, <1>5, <1>6

LEMMA UpdateStep ==
    ASSUME IInv, NEW b \in Builders, sqlSaveUpdate(b)
    PROVE  IInv'
<1> DEFINE m == bld[b]
           allowed == IF m.op = "update" THEN Live ELSE Live \cap {m.id}
<1>1. Piece(b, m) /\ rows \in [Ids -> Column] /\ m.at = "hooks" /\ b \in Bulk(b)
  BY DEF IInv, Pieces, sqlSaveUpdate, Bulk
<1>2. ASSUME NEW r \in {"validation", "notFound"}, rows' = rows, Report(b, r)
      PROVE  IInv'
  BY <1>1, <1>2, ReportStep DEF Errors, Late
<1>3. ASSUME NEW hit \in SUBSET allowed, NEW new \in [Ids -> (UNION {Outcomes(m, rows[i]) : i \in hit})
                                              \cup {rows[i] : i \in Ids}],
             \A i \in Ids : IF i \in hit THEN new[i] \in Outcomes(m, rows[i])
                                          ELSE new[i] = rows[i],
             Statement(b, new)
      PROVE  IInv'
  <2>1. ASSUME NEW i \in Ids
        PROVE  /\ new[i] \in Column
               /\ \A c \in Builders : IsValue(new[i]) /\ c \in new[i] =>
                     c \in Bulk(b) \/ \E j \in Ids : IsValue(rows[j]) /\ c \in rows[j]
    <3>1. CASE i \in hit
      <4>1. rows[i] \in Values \cup {Null} /\ new[i] \in Outcomes(m, rows[i])
        BY <1>1, <1>3, <3>1 DEF Column, Live
      <4>2. /\ new[i] \in Column
            /\ \A c \in Builders : new[i] \in Values /\ c \in new[i]
                                     => c = b \/ (rows[i] \in Values /\ c \in rows[i])
        BY <1>1, <4>1, OutcomeSource
      <4> QED
        BY <1>1, <4>2, ColumnValue, ValueOrMark
    <3>2. CASE i \notin hit
      <4>1. new[i] = rows[i]
        BY <1>3, <3>2
      <4> QED
        BY <1>1, <4>1
    <3> QED
      BY <3>1, <3>2
  <2>2. new \in [Ids -> Column]
    BY <1>3, <2>1
  <2> QED
    BY <1>1, <1>3, <2>1, <2>2, StatementStep
<1> QED
  BY <1>2, <1>3 DEF sqlSaveUpdate

LEMMA DeleteStep ==
    ASSUME IInv, NEW b \in Builders, sqlExecDelete(b)
    PROVE  IInv'
<1> DEFINE m == [bld[b] EXCEPT !.done = TRUE]
<1>1. /\ bld \in [Builders -> Mutation] /\ rows \in [Ids -> Column] /\ Lined
      /\ \A x \in Builders : Piece(x, bld[x]) /\ (IsValue(bld[x].old) => x \notin bld[x].old)
  BY DEF IInv, Pieces, OldValueIsBefore
<1>2. /\ m \in Mutation /\ m.op = bld[b].op /\ m.at = bld[b].at /\ m.id = bld[b].id
      /\ m.val = bld[b].val /\ m.add = bld[b].add /\ m.spec = bld[b].spec
      /\ m.old = bld[b].old /\ m.chain = bld[b].chain /\ m.told = bld[b].told /\ m.done
  <2>1. bld[b] \in Mutation
    BY <1>1
  <2> QED
    BY <2>1 DEF Mutation
<1>3. bld[b].op \in {"delete", "deleteOne"} /\ bld[b].at = "hooks"
  BY <1>2 DEF sqlExecDelete
<1>4. PICK hit :
         \/ /\ rows' = [i \in Ids |-> IF i \in hit THEN None ELSE rows[i]]
            /\ bld' = [bld EXCEPT ![b] = [m EXCEPT !.at = "after"]]
         \/ /\ \E r \in {"notFound", "lateHook", "database"} :
                  bld' = [bld EXCEPT ![b] = Finished(m, r)]
            /\ rows' = rows
  BY DEF sqlExecDelete
<1>5. Effective(bld[b]) = [m EXCEPT !.at = "after"]
  <2>1. bld[b] \in Mutation
    BY <1>1
  <2> QED
    BY <2>1 DEF Effective, Mutation
<1> HIDE DEF m
<1>6. Piece(b, m)
  BY <1>1, <1>2 DEF Piece
<1>7. OnlyRemoved
  BY <1>1, <1>4 DEF OnlyRemoved, Column
<1>8. PICK n : /\ bld' = [bld EXCEPT ![b] = n] /\ Piece(b, n) /\ n.old = bld[b].old
               /\ n.chain = None /\ bld[b].told \subseteq n.told
  <2>1. CASE bld' = [bld EXCEPT ![b] = [m EXCEPT !.at = "after"]]
    <3> DEFINE n == Effective(bld[b])
    <3>1. bld[b].chain \in Builders \cup {None} /\ bld[b].op # None
      BY <1>1, <1>3, MarksAssumption DEF Piece, Mutation, Ops
    <3>2. bld[b].chain = None
      BY <1>1, <1>3, <3>1 DEF Lined
    <3>3. Piece(b, n) /\ n.old = bld[b].old /\ n.chain = bld[b].chain /\ n.told = bld[b].told
      BY <1>1, <3>1, EffectivePiece
    <3>4. bld' = [bld EXCEPT ![b] = n]
      BY <1>5, <2>1
    <3> HIDE DEF n
    <3> QED
      BY <3>2, <3>3, <3>4
  <2>2. ASSUME NEW r \in {"notFound", "lateHook", "database"},
               bld' = [bld EXCEPT ![b] = Finished(m, r)]
        PROVE  \E n : /\ bld' = [bld EXCEPT ![b] = n] /\ Piece(b, n) /\ n.old = bld[b].old
                      /\ n.chain = None /\ bld[b].told \subseteq n.told
    <3> DEFINE n == Finished(m, r)
    <3>1. r \in Errors \cup {"ok"} /\ m.op # None
      BY <1>2, <1>3, MarksAssumption DEF Errors, Ops
    <3>2. Piece(b, n) /\ n.old = m.old /\ n.chain = None /\ n.told = m.told \cup {r}
      BY <1>2, <1>6, <3>1, FinishedPiece
    <3>3. bld' = [bld EXCEPT ![b] = n]
      BY <2>2
    <3> HIDE DEF n
    <3> QED
      BY <1>2, <3>2, <3>3
  <2> QED
    BY <1>4, <2>1, <2>2
<1>9. bld'[b] = n /\ \A x \in Builders \ {b} : bld'[x] = bld[x]
  BY <1>1, <1>8
<1>10. ASSUME NEW x \in Builders PROVE Kept(x)
  BY <1>1, <1>8, <1>9 DEF Kept
<1>11. Lined' /\ StillCovered
  BY <1>3, <1>8, <1>9, AloneMoves
<1>12. bld' = [x \in Builders |-> bld'[x]]
  BY <1>1, <1>8
<1> QED
  BY <1>7, <1>10, <1>11, <1>12, NothingStored

\* The hooks return, or fail.
LEMMA HookFailsStep ==
    ASSUME IInv, NEW b \in Builders, HookFails(b)
    PROVE  IInv'
<1>1. rows' = rows /\ bld[b].at \in {"hooks", "after"}
  BY DEF HookFails
<1>2. CASE bld[b].at = "hooks"
  <2>1. Report(b, "hook")
    BY <1>2 DEF HookFails
  <2> QED
    BY <1>1, <1>2, <2>1, ReportStep DEF Errors, Late
<1>3. CASE bld[b].at = "after"
  <2>1. Report(b, "lateHook")
    BY <1>3 DEF HookFails
  <2> QED
    BY <1>1, <1>3, <2>1, ReportStep DEF Errors, Late
<1> QED
  BY <1>1, <1>2, <1>3

LEMMA ReturnStep ==
    ASSUME IInv, NEW b \in Builders, Return(b)
    PROVE  IInv'
<1> DEFINE outer == {c \in Builders : bld[c].chain = b /\ bld[c].at = "queued"}
<1>1. rows' = rows /\ bld[b].at = "after"
  BY DEF Return
<1>2. CASE outer = {}
  <2>1. Report(b, "ok")
    BY <1>2 DEF Return
  <2> QED
    BY <1>1, <2>1, ReportStep DEF Errors, Late
<1>3. CASE outer # {}
  <2>1. /\ bld \in [Builders -> Mutation] /\ Lined
        /\ \A x \in Builders : Piece(x, bld[x]) /\ (IsValue(bld[x].old) => x \notin bld[x].old)
    BY DEF IInv, Pieces, OldValueIsBefore
  <2>2. PICK q \in Builders : bld[q].chain = b /\ bld[q].at = "queued"
    BY <1>3
  <2>3. /\ outer = {q} /\ q # b /\ bld[q].op = "create" /\ bld[b].op = "create"
        /\ bld[b].chain = None
    BY <1>1, <2>1, <2>2 DEF Lined
  <2>4. bld' = [c \in Builders |->
                   CASE c = b -> [bld[b] EXCEPT !.at = "queued"]
                     [] c \in outer -> [bld[c] EXCEPT !.at = "after", !.done = TRUE]
                     [] OTHER -> bld[c]]
    BY <1>3 DEF Return
  <2> HIDE DEF outer
  <2> DEFINE m == Effective(bld[q])
             n == Placed(bld[b], "queued", None)
  <2>5. bld'[q] = m /\ bld'[b] = n /\ \A x \in Builders \ {b, q} : bld'[x] = bld[x]
    <3>1. bld'[q] = m
      BY <2>3, <2>4 DEF Effective
    <3>2. [bld[b] EXCEPT !.at = "queued"] = n
      <4>1. bld[b] \in Mutation
        BY <2>1
      <4> QED
        BY <2>3, <4>1 DEF Placed, Mutation
    <3> QED
      BY <2>3, <2>4, <3>1, <3>2
  <2>6. /\ Piece(q, m) /\ m.at = "after" /\ m.old = bld[q].old /\ m.op = bld[q].op
        /\ m.chain = b /\ m.told = bld[q].told
    BY <2>1, <2>2, <2>3, EffectivePiece, MarksAssumption DEF Ops
  <2>7. /\ Piece(b, n) /\ n.at = "queued" /\ n.old = bld[b].old /\ n.op = bld[b].op
        /\ n.chain = None /\ n.told = bld[b].told
    BY <2>1, <2>3, PlacePiece, MarksAssumption DEF Ops, Places
  <2> HIDE DEF m, n
  <2>8. ASSUME NEW x \in Builders PROVE Kept(x)
    BY <2>1, <2>5, <2>6, <2>7 DEF Kept
  <2>9. Lined'
    BY <2>1, <2>2, <2>3, <2>5, <2>6, <2>7, MarksAssumption DEF Lined
  <2>10. StillCovered
    <3>1. ASSUME NEW x \in Builders, Covered(x) PROVE Covered(x)'
      <4>1. CASE bld[x].told \cap Late # {}
        BY <2>8, <4>1 DEF Kept, Covered
      <4>2. ASSUME NEW c \in Builders, bld[c].at = "after", x \in Bulk(c) PROVE Covered(x)'
        <5>1. CASE c = b
          <6>1. x \in {b, q}
            BY <2>1, <2>2, <2>3, <4>2, <5>1, MarksAssumption DEF Bulk, Lined
          <6> QED
            BY <2>5, <2>6, <6>1 DEF Covered, Bulk
        <5>2. CASE c # b
          <6>1. bld'[c] = bld[c] /\ (bld[x].chain = c => bld'[x] = bld[x])
            BY <2>2, <2>3, <2>5, <4>2, <5>2, MarksAssumption
          <6> QED
            BY <4>2, <6>1 DEF Covered, Bulk
        <5> QED
          BY <5>1, <5>2
      <4> QED
        BY <3>1, <4>1, <4>2 DEF Covered
    <3> QED
      BY <3>1 DEF StillCovered
  <2>11. bld' = [x \in Builders |-> bld'[x]]
    <3> DEFINE g(c) == CASE c = b -> [bld[b] EXCEPT !.at = "queued"]
                         [] c \in outer -> [bld[c] EXCEPT !.at = "after", !.done = TRUE]
                         [] OTHER -> bld[c]
    <3>1. bld' = [c \in Builders |-> g(c)]
      BY <2>4
    <3> HIDE DEF g
    <3> QED
      BY <3>1
  <2> QED
    BY <1>1, <2>8, <2>9, <2>10, <2>11, RowsKept, NothingStored
<1> QED
  BY <1>2, <1>3

-----------------------------------------------------------------------------
(* The invariant *)

LEMMA BlankPiece ==
    ASSUME NEW b \in Builders
    PROVE  /\ Piece(b, Blank) /\ Blank.old = Unread /\ Blank.chain = None
<1>1. Blank \in Mutation
  BY DEF Blank, Mutation, Values, Places
<1> QED
  BY <1>1, MarksOwned, MarksAssumption DEF Blank, Piece, Ops

LEMMA InitIInv == Init => IInv
<1> SUFFICES ASSUME Init PROVE IInv
  OBVIOUS
<1>1. bld = [b \in Builders |-> Blank]
  BY DEF Init
<1>2. Pieces
  BY <1>1, BlankPiece DEF Pieces, Piece
<1>3. OldValueIsBefore
  BY <1>1, BlankPiece DEF OldValueIsBefore, IsValue, Marks
<1>4. PICK seeded : rows = [i \in Ids |-> IF i \in seeded THEN {"default"} ELSE None]
  BY DEF Init
<1>5. rows \in [Ids -> Column]
  BY <1>4 DEF Column, Values
<1>6. StoredMeansSaved
  BY <1>4, NamesAssumption DEF StoredMeansSaved, IsValue, Marks
<1>7. Lined
  BY <1>1, BlankPiece, MarksAssumption DEF Lined
<1> QED
  BY <1>2, <1>3, <1>5, <1>6, <1>7 DEF IInv

LEMMA NextIInv == IInv /\ [Next]_vars => IInv'
<1> SUFFICES ASSUME IInv, [Next]_vars PROVE IInv'
  OBVIOUS
<1>1. CASE init \/ UNCHANGED vars
  <2>1. rows' = rows /\ bld' = bld
    BY <1>1 DEF init, vars
  <2> QED
    BY <2>1 DEF IInv, Pieces, Lined, StoredMeansSaved, OldValueIsBefore, Bulk
<1>2. ASSUME NEW b \in Builders, NewBuilder(b) PROVE IInv'
  BY <1>2, NewBuilderStep
<1>3. ASSUME NEW b \in Builders,
             \/ BuilderSet(b) \/ BuilderAdd(b) \/ BuilderClear(b)
             \/ MutationSet(b) \/ MutationAdd(b) \/ MutationClear(b) \/ MutationReset(b)
      PROVE  IInv'
  BY <1>3, CallsStep
<1>4. ASSUME NEW b \in Builders, OldX(b) PROVE IInv'
  BY <1>4, OldXStep
<1>5. ASSUME NEW b \in Builders, Save(b) PROVE IInv'
  BY <1>5, SaveStep
<1>6. ASSUME NEW b \in Builders, NEW c \in Builders, SaveBulk(b, c) PROVE IInv'
  BY <1>6, SaveBulkStep
<1>7. ASSUME NEW b \in Builders, sqlSaveCreate(b) PROVE IInv'
  BY <1>7, CreateStep
<1>8. ASSUME NEW b \in Builders, sqlSaveUpdate(b) PROVE IInv'
  BY <1>8, UpdateStep
<1>9. ASSUME NEW b \in Builders, sqlExecDelete(b) PROVE IInv'
  BY <1>9, DeleteStep
<1>10. ASSUME NEW b \in Builders, HookFails(b) PROVE IInv'
  BY <1>10, HookFailsStep
<1>11. ASSUME NEW b \in Builders, Return(b) PROVE IInv'
  BY <1>11, ReturnStep
<1> QED
  BY <1>1, <1>2, <1>3, <1>4, <1>5, <1>6, <1>7, <1>8, <1>9, <1>10, <1>11 DEF Next

\* What a builder contributed is in a row only if the statement of a Save of it
\* took effect (sqlSave, the bulk's batch insert, withHooks): its Save reported
\* success, or a hook failed it after the statement, or it is still in the hooks
\* after the statement. A bulk with one member refused, a refused statement or a
\* hook that fails first stores nothing of any of them.
THEOREM NothingStoredUnsaved == Spec => []StoredMeansSaved
<1>1. IInv => StoredMeansSaved
  BY DEF IInv
<1> QED
  BY <1>1, InitIInv, NextIInv, PTL DEF Spec

\* The OldX accessors answer with the row as it was before the mutation, never
\* with what the mutation itself wrote, in the hooks after the statement included:
\* the fetch is refused once it is done.
THEOREM OldValueNeverOwn == Spec => []OldValueIsBefore
<1>1. IInv => OldValueIsBefore
  BY DEF IInv
<1> QED
  BY <1>1, InitIInv, NextIInv, PTL DEF Spec

-----------------------------------------------------------------------------
(* Types *)

\* init() counts the entities; the followed field never changes; calls is bounded.
Counted ==
    /\ booted \in 0..6 \cup {None}
    /\ entity \in Entities /\ field \in E.columns
    /\ calls \in 0..MaxCalls

LEMMA SixEntities == Len(InitOrder) = 6
BY DEF InitOrder

LEMMA InitCounted == Init => Counted
BY BoundAssumption DEF Init, Counted

LEMMA CallCounted ==
    ASSUME calls \in 0..MaxCalls, Called
    PROVE  calls' \in 0..MaxCalls
BY BoundAssumption DEF Called

LEMMA NextCounted == Counted /\ [Next]_vars => Counted'
<1> SUFFICES ASSUME Counted, [Next]_vars PROVE Counted'
  OBVIOUS
<1>1. CASE init
  <2>1. booted' \in 0..6 \cup {None}
    <3>1. booted \in 0..(Len(InitOrder) - 1)
      BY <1>1 DEF init
    <3>2. booted' = booted + 1 \/ booted' = None
      BY <1>1, Zenon DEF init
    <3> QED
      BY <3>1, <3>2, SixEntities
  <2>2. entity' = entity /\ field' = field /\ calls' = calls
    BY <1>1 DEF init
  <2> QED
    BY <2>1, <2>2 DEF Counted, E
<1>2. CASE UNCHANGED vars
  BY <1>2 DEF Counted, vars, E
<1>3. ASSUME NEW b \in Builders,
             \/ BuilderSet(b) \/ BuilderAdd(b) \/ BuilderClear(b)
             \/ MutationSet(b) \/ MutationAdd(b) \/ MutationClear(b) \/ MutationReset(b)
             \/ OldX(b) \/ Save(b) \/ \E c \in Builders : SaveBulk(b, c)
      PROVE  Counted'
  <2>1. Called /\ UNCHANGED rigid
    BY <1>3 DEF BuilderSet, BuilderAdd, BuilderClear, MutationSet, MutationAdd, MutationClear,
                MutationReset, Update, OldX, Save, SaveBulk
  <2> QED
    BY <2>1, CallCounted DEF Counted, rigid, E
<1>4. ASSUME NEW b \in Builders,
             \/ NewBuilder(b) \/ sqlSaveCreate(b) \/ sqlSaveUpdate(b) \/ sqlExecDelete(b)
             \/ HookFails(b) \/ Return(b)
      PROVE  Counted'
  <2>1. calls' = calls /\ UNCHANGED rigid
    BY <1>4 DEF NewBuilder, sqlSaveCreate, sqlSaveUpdate, sqlExecDelete, HookFails, Return
  <2> QED
    BY <2>1 DEF Counted, rigid, E
<1> QED
  BY <1>1, <1>2, <1>3, <1>4 DEF Next

LEMMA ValueOrListed ==
    ASSUME NEW marks \in SUBSET Marks, NEW x \in Values \cup marks
    PROVE  OneOf(x, marks)
BY ValueOrMark DEF OneOf, IsValue

\* Every variable stays in its type: a field's pointer is nil or a value, a column
\* NULL or a value, and an update-one knows its row, whatever order the builders'
\* methods and the hooks are called in.
THEOREM BuildersTypeCorrect == Spec => []TypeOK
<1>1. IInv /\ Counted => TypeOK
  <2> SUFFICES ASSUME IInv, Counted PROVE TypeOK
    OBVIOUS
  <2>1. \A i \in Ids : OneOf(rows[i], {Null, None})
    BY ValueOrListed DEF IInv, Column, Marks
  <2>2. ASSUME NEW b \in Builders
        PROVE  /\ bld[b].op \in Ops \cup {None} /\ bld[b].at \in {"build", "hooks", "queued", "after"}
               /\ bld[b].id \in Ids \cup {None}
               /\ bld[b].op \in {"updateOne", "deleteOne"} => bld[b].id \in Ids
               /\ bld[b].chain \in Builders \cup {None}
               /\ OneOf(bld[b].val, {None}) /\ bld[b].add \in Values
               /\ bld[b].cleared \in BOOLEAN /\ bld[b].done \in BOOLEAN
               /\ OneOf(bld[b].old, {Null, Unread, Failed})
               /\ OneOf(bld[b].spec, {Null, None})
               /\ bld[b].told \subseteq Errors \cup {"ok"}
    <3>1. /\ bld[b] \in Mutation
          /\ bld[b].op \in {"updateOne", "deleteOne"} => bld[b].id \in Ids
      BY DEF IInv, Pieces, Piece
    <3>2. /\ bld[b].val \in Values \cup {None}
          /\ bld[b].old \in Values \cup {Null, Unread, Failed}
          /\ bld[b].spec \in Values \cup {Null, None}
      BY <3>1 DEF Mutation
    <3>3. /\ OneOf(bld[b].val, {None}) /\ OneOf(bld[b].spec, {Null, None})
          /\ OneOf(bld[b].old, {Null, Unread, Failed})
      BY <3>2, ValueOrListed DEF Marks
    <3> QED
      BY <3>1, <3>3 DEF Mutation, Places
  <2> QED
    BY <2>1, <2>2, SixEntities DEF Counted, TypeOK
<1> QED
  BY <1>1, InitIInv, NextIInv, InitCounted, NextCounted, PTL DEF Spec

-----------------------------------------------------------------------------
(* What the generated tables agree on *)

LEMMA SixTables ==
    /\ Entities = {"access", "code", "client", "refresh", "key", "pat"}
    /\ Entity["access"] = AccessToken!Entity /\ Entity["code"] = Code!Entity
    /\ Entity["client"] = Client!Entity /\ Entity["refresh"] = Refresh!Entity
    /\ Entity["key"] = SigningKey!Entity /\ Entity["pat"] = PAT!Entity
    /\ MixinFields["access"] = Mixins!oauthSession /\ MixinFields["code"] = Mixins!oauthSession
    /\ MixinFields["client"] = ClientMixin /\ MixinFields["refresh"] = Mixins!oauthSession
    /\ MixinFields["key"] = Mixins!OAuthSigningKey
    /\ MixinFields["pat"] = Mixins!PersonalAccessToken
<1>1. Entities = {"access", "code", "client", "refresh", "key", "pat"}
  BY DEF Entities, InitOrder
<1> QED
  BY <1>1 DEF Entity, MixinFields

\* Field f has an Add, or a Clear, that a caller of an update-one can reach.
Adds(en, f) ==
    \/ f \in en.updateOne.set.add \/ f \in en.names.add
    \/ \E i \in DOMAIN en.accessors : f \in en.accessors[i].add
Clears(en, f) ==
    \/ f \in en.updateOne.set.clear \/ f \in en.names.clear
    \/ \E i \in DOMAIN en.accessors : f \in en.accessors[i].clear

\* sqlSave writes what the methods leave in the mutation, and no part of the
\* generated code lets a NULL through to a NOT NULL column.
Complete(en) ==
    \A f \in en.columns :
       /\ f \in en.updateOne.spec.set
       /\ Adds(en, f) => f \in en.updateOne.spec.add
       /\ Clears(en, f) => f \in en.updateOne.spec.clear
       /\ f \in en.table.notNull => /\ f \in en.create.check.required
                                    /\ f \in en.create.spec
                                    /\ f \notin en.update.spec.clear
                                    /\ f \notin en.updateOne.spec.clear

LEMMA AllComplete == \A e \in Entities : Complete(Entity[e])
<1>1. Complete(AccessToken!Entity)
  BY DEF Complete, Adds, Clears, AccessToken!Entity, AccessToken!Columns, AccessToken!Table,
         AccessToken!CreateCheck, AccessToken!CreateSpec, AccessToken!UpdateOneSetters,
         AccessToken!UpdateSpec, AccessToken!UpdateOneSpec, AccessToken!AddField,
         AccessToken!ClearField, AccessToken!Accessors, AccessToken!Keys, AccessToken!Owner,
         AccessToken!Grant, AccessToken!Times
<1>2. Complete(Code!Entity)
  BY DEF Complete, Adds, Clears, Code!Entity, Code!Columns, Code!Table, Code!CreateCheck,
         Code!CreateSpec, Code!UpdateOneSetters, Code!UpdateSpec, Code!UpdateOneSpec,
         Code!AddField, Code!ClearField, Code!Accessors, Code!Keys, Code!Owner, Code!Grant,
         Code!Times
<1>3. Complete(Client!Entity)
  BY DEF Complete, Adds, Clears, Client!Entity, Client!Columns, Client!Table,
         Client!CreateCheck, Client!CreateSpec, Client!UpdateOneSetters, Client!UpdateSpec,
         Client!UpdateOneSpec, Client!AddField, Client!ClearField, Client!Accessors,
         Client!Credentials, Client!Lists, Client!Profile, Client!Workspace
<1>4. Complete(Refresh!Entity)
  BY DEF Complete, Adds, Clears, Refresh!Entity, Refresh!Columns, Refresh!Table,
         Refresh!CreateCheck, Refresh!CreateSpec, Refresh!UpdateOneSetters,
         Refresh!UpdateSpec, Refresh!UpdateOneSpec, Refresh!AddField, Refresh!ClearField,
         Refresh!Accessors, Refresh!Keys, Refresh!Owner, Refresh!Grant, Refresh!Times
<1>5. Complete(SigningKey!Entity)
  BY DEF Complete, Adds, Clears, SigningKey!Entity, SigningKey!Columns, SigningKey!Table,
         SigningKey!CreateCheck, SigningKey!CreateSpec, SigningKey!UpdateOneSetters,
         SigningKey!UpdateSpec, SigningKey!UpdateOneSpec, SigningKey!AddField,
         SigningKey!ClearField, SigningKey!Accessors, SigningKey!Material, SigningKey!Times
<1>6. Complete(PAT!Entity)
  BY DEF Complete, Adds, Clears, PAT!Entity, PAT!Columns, PAT!Table, PAT!CreateCheck,
         PAT!CreateSpec, PAT!UpdateOneSetters, PAT!UpdateSpec, PAT!UpdateOneSpec,
         PAT!AddField, PAT!ClearField, PAT!Accessors, PAT!Owner, PAT!Secret, PAT!Times
<1> QED
  BY <1>1, <1>2, <1>3, <1>4, <1>5, <1>6, SixTables

LEMMA OthersValidate ==
    ASSUME Validates(Client!Entity, ClientMixin)
    PROVE  \A e \in Entities : Validates(Entity[e], MixinFields[e])
<1>1. Validates(AccessToken!Entity, Mixins!oauthSession)
  BY DEF Validates, Mixins!oauthSession, Mixins!String, Mixins!Plain, Mixins!WithDefault,
         AccessToken!Entity, AccessToken!CreateCheck,
         AccessToken!UpdateCheck, AccessToken!UpdateOneCheck, AccessToken!Runtime
<1>2. Validates(Code!Entity, Mixins!oauthSession)
  BY DEF Validates, Mixins!oauthSession, Mixins!String, Mixins!Plain, Mixins!WithDefault,
         Code!Entity, Code!CreateCheck, Code!UpdateCheck, Code!UpdateOneCheck, Code!Runtime
<1>3. Validates(Refresh!Entity, Mixins!oauthSession)
  BY DEF Validates, Mixins!oauthSession, Mixins!String, Mixins!Plain, Mixins!WithDefault,
         Refresh!Entity, Refresh!CreateCheck, Refresh!UpdateCheck,
         Refresh!UpdateOneCheck, Refresh!Runtime
<1>4. Validates(SigningKey!Entity, Mixins!OAuthSigningKey)
  BY DEF Validates, Mixins!OAuthSigningKey, Mixins!String, Mixins!Plain, Mixins!WithDefault,
         SigningKey!Entity, SigningKey!CreateCheck,
         SigningKey!UpdateCheck, SigningKey!UpdateOneCheck, SigningKey!Runtime
<1>5. Validates(PAT!Entity, Mixins!PersonalAccessToken)
  <2>1. /\ PAT!Entity.create.check.validated = {"name", "token_hash", "token_prefix"}
        /\ PAT!Entity.update.check = {"name", "token_hash", "token_prefix"}
        /\ PAT!Entity.updateOne.check = {"name", "token_hash", "token_prefix"}
    BY DEF PAT!Entity, PAT!CreateCheck, PAT!UpdateCheck, PAT!UpdateOneCheck
  <2>2. PAT!Entity.runtime.index = [name |-> 2, token_hash |-> 3, token_prefix |-> 4]
    BY DEF PAT!Entity, PAT!Runtime
  <2> QED
    BY <2>1, <2>2 DEF Validates, Mixins!PersonalAccessToken, Mixins!String, Mixins!Plain,
                      Mixins!WithDefault
<1> QED
  BY <1>1, <1>2, <1>3, <1>4, <1>5, SixTables

-----------------------------------------------------------------------------
(* What only checked rows need *)

\* The mixin has a validator for the followed field; its column refuses NULL.
Judged ==
    \E i \in DOMAIN MixinFields[entity] : LET d == MixinFields[entity][i] IN
        d.name = field /\ d.validators > 0
NotNull == field \in E.table.notNull

\* init() has bound every field of its first `booted` entities to the descriptor
\* of the same name.
Bound ==
    /\ bound = [e \in Entities |-> bound[e]]
    /\ booted \in 0..6 => \A i \in 1..booted :
          \A f \in DOMAIN Entity[InitOrder[i]].runtime.index :
             f \in DOMAIN bound[InitOrder[i]] /\ bound[InitOrder[i]][f] = f

\* A cell that OnlyCheckedRowsStored allows.
Proper(v, notNull) == (v \in Values => "bad" \notin v) /\ (notNull => v # Null)

\* A mutation holds a bad value only as a pending one that its check will judge,
\* and never a NULL for a column that refuses it.
Clean(m, judged, notNull) ==
    /\ "bad" \notin m.add
    /\ m.val \in Values /\ "bad" \in m.val => judged
    /\ Proper(m.spec, notNull)
    /\ "notNull" \notin m.told

CheckedInv ==
    /\ Bound
    /\ \A b \in Builders : /\ Clean(bld[b], Judged, NotNull)
                           /\ bld[b].op # None => Ready
    /\ \A i \in Ids : Proper(rows[i], NotNull)

-----------------------------------------------------------------------------
(* What the calls need *)

Calls == {"set", "add", "clear"} \X Values

\* The last additions of the calls l, and the set before them.
Adding(l) == {i \in DOMAIN l : \A j \in i..Len(l) : l[j][1] = "add"}
Setting(l) == {i \in DOMAIN l : l[i][1] = "set" /\ (i + 1)..Len(l) \subseteq Adding(l)}

\* The pointers and the mark of mutation m are those of the calls l since the
\* last reset.
Reflects(b, m, l) ==
    /\ \A i \in DOMAIN l : l[i][1] = "add" => l[i][2] = {b}
    /\ m.add = IF Adding(l) = {} THEN {} ELSE {b}
    /\ Setting(l) = {} => m.val = None
    /\ \A i \in Setting(l) : m.val = l[i][2]
    /\ m.cleared <=> \E i \in DOMAIN l : l[i][1] = "clear"

\* An update-one holds an addition or a clear only of a field that has one.
Follows(b, m, l, adds, clears) ==
    /\ m.op = None => l = <<>>
    /\ m.op = "updateOne" => /\ Reflects(b, m, l)
                             /\ m.add # {} => adds
                             /\ m.cleared => clears

Followed ==
    /\ log \in [Builders -> Seq(Calls)]
    /\ \A b \in Builders : Follows(b, bld[b], log[b], Adds(E, field), Clears(E, field))

-----------------------------------------------------------------------------
(* The mutation's methods, field by field *)

LEMMA SetFields ==
    ASSUME NEW m \in Mutation, NEW v
    PROVE  LET n == SetX(m, v) IN
           /\ n.val = v /\ n.add = {} /\ n.cleared = m.cleared /\ n.op = m.op
           /\ n.spec = m.spec /\ n.told = m.told /\ n.chain = m.chain /\ n.at = m.at
BY DEF SetX, Mutation

LEMMA AddFields ==
    ASSUME NEW m \in Mutation, NEW v
    PROVE  LET n == AddX(m, v) IN
           /\ n.val = m.val /\ n.add = m.add \cup v /\ n.cleared = m.cleared /\ n.op = m.op
           /\ n.spec = m.spec /\ n.told = m.told /\ n.chain = m.chain /\ n.at = m.at
BY DEF AddX, Mutation

LEMMA ClearFields ==
    ASSUME NEW m \in Mutation
    PROVE  LET n == ClearX(m) IN
           /\ n.val = None /\ n.add = {} /\ n.cleared /\ n.op = m.op
           /\ n.spec = m.spec /\ n.told = m.told /\ n.chain = m.chain /\ n.at = m.at
BY DEF ClearX, Mutation

LEMMA ResetFields ==
    ASSUME NEW m \in Mutation
    PROVE  LET n == ResetX(m) IN
           /\ n.val = None /\ n.add = {} /\ ~ n.cleared /\ n.op = m.op
           /\ n.spec = m.spec /\ n.told = m.told /\ n.chain = m.chain /\ n.at = m.at
BY DEF ResetX, Mutation

\* Of a field the two invariants read, n has what m has.
SamePointers(m, n) ==
    /\ n.val = m.val /\ n.add = m.add /\ n.cleared = m.cleared /\ n.op = m.op
    /\ n.spec = m.spec /\ n.told = m.told

LEMMA OldFields ==
    ASSUME NEW m \in Mutation, NEW v
    PROVE  LET n == [m EXCEPT !.old = v] IN
           SamePointers(m, n) /\ n.chain = m.chain /\ n.at = m.at
BY DEF SamePointers, Mutation

LEMMA PlacedFields ==
    ASSUME NEW m \in Mutation, NEW l, NEW c
    PROVE  SamePointers(m, Placed(m, l, c)) /\ Placed(m, l, c).chain = c /\ Placed(m, l, c).at = l
BY DEF SamePointers, Placed, Mutation

LEMMA MovedFields ==
    ASSUME NEW m \in Mutation, NEW l
    PROVE  LET n == [m EXCEPT !.at = l] IN
           SamePointers(m, n) /\ n.chain = m.chain /\ n.at = l
BY DEF SamePointers, Mutation

LEMMA QueuedFields ==
    ASSUME NEW m \in Mutation, NEW l, NEW s
    PROVE  LET n == [m EXCEPT !.at = l, !.spec = s] IN
           /\ n.val = m.val /\ n.add = m.add /\ n.cleared = m.cleared /\ n.op = m.op
           /\ n.spec = s /\ n.told = m.told /\ n.chain = m.chain /\ n.at = l
BY DEF Mutation

LEMMA DefaultFields ==
    ASSUME NEW m \in Mutation
    PROVE  LET n == defaults(m) IN
           /\ n.val \in {m.val, {"default"}} /\ n.add = m.add /\ n.cleared = m.cleared
           /\ n.op = m.op /\ n.spec = m.spec /\ n.told = m.told
<1>1. defaults(m) \in {m, [m EXCEPT !.val = {"default"}]}
  BY DEF defaults
<1> QED
  BY <1>1 DEF Mutation

LEMMA FinishedFields ==
    ASSUME NEW m \in Mutation, NEW r
    PROVE  LET n == Finished(m, r) IN
           /\ n.val = m.val /\ n.add = m.add /\ n.cleared = m.cleared /\ n.op = m.op
           /\ n.spec = None /\ n.told = m.told \cup {r} /\ n.chain = None /\ n.at = "build"
BY DEF Finished, Mutation

\* The done mark is read by neither.
LEMMA EffectiveFields ==
    ASSUME NEW m \in Mutation
    PROVE  SamePointers(m, Effective(m)) /\ Effective(m).at = "after"
BY DEF SamePointers, Effective, Mutation

LEMMA DoneFields ==
    ASSUME NEW m \in Mutation
    PROVE  SamePointers(m, [m EXCEPT !.done = TRUE])
BY DEF SamePointers, Mutation

-----------------------------------------------------------------------------
(* Only checked rows *)

\* What the steps below are told of the state.
Held == IInv /\ Counted /\ CheckedInv

LEMMA HeldTypes ==
    ASSUME Held
    PROVE  /\ bld \in [Builders -> Mutation] /\ rows \in [Ids -> Column]
           /\ entity \in Entities /\ field \in E.columns
           /\ \A b \in Builders : /\ bld[b] \in Mutation /\ Clean(bld[b], Judged, NotNull)
                                  /\ bld[b].op # None => Ready
           /\ \A i \in Ids : Proper(rows[i], NotNull)
BY DEF Held, IInv, Pieces, Counted, CheckedInv

LEMMA MarksProper ==
    ASSUME NEW notNull
    PROVE  Proper(None, notNull) /\ (~ notNull => Proper(Null, notNull))
BY MarksAssumption DEF Proper, Marks

\* The table facts of the followed field.
LEMMA FieldComplete ==
    ASSUME Held
    PROVE  /\ field \in E.updateOne.spec.set
           /\ Adds(E, field) => field \in E.updateOne.spec.add
           /\ Clears(E, field) => field \in E.updateOne.spec.clear
           /\ NotNull => /\ field \in E.create.check.required /\ field \in E.create.spec
                         /\ field \notin E.update.spec.clear
                         /\ field \notin E.updateOne.spec.clear
<1>1. Complete(E)
  BY HeldTypes, AllComplete DEF E
<1> QED
  BY <1>1, HeldTypes DEF Complete, NotNull

LEMMA EntityBound ==
    ASSUME Held, Ready
    PROVE  \A f \in DOMAIN E.runtime.index :
              f \in DOMAIN bound[entity] /\ bound[entity][f] = f
<1>1. booted = 6 /\ \A i \in 1..6 :
         \A f \in DOMAIN Entity[InitOrder[i]].runtime.index :
            f \in DOMAIN bound[InitOrder[i]] /\ bound[InitOrder[i]][f] = f
  <2>1. booted = 6
    BY SixEntities DEF Ready
  <2>2. booted \in 0..6 /\ 1..booted = 1..6
    BY <2>1
  <2> QED
    BY <2>1, <2>2 DEF Held, CheckedInv, Bound
<1>2. \E i \in 1..6 : entity = InitOrder[i]
  <2>1. DOMAIN InitOrder = 1..6
    BY DEF InitOrder
  <2> QED
    BY <2>1, HeldTypes DEF Entities
<1> QED
  BY <1>1, <1>2 DEF E

\* Once init() is through, what the mixin judges every check refuses.
LEMMA BadRefused ==
    ASSUME Validates(Client!Entity, ClientMixin), Held, Ready, Judged, NEW v, "bad" \in v
    PROVE  /\ Refuses(v)
           /\ field \in E.create.check.validated
           /\ field \in E.update.check /\ field \in E.updateOne.check
<1>1. Validates(E, MixinFields[entity])
  BY HeldTypes, OthersValidate DEF E
<1>2. /\ field \in E.create.check.validated /\ field \in E.update.check
      /\ field \in E.updateOne.check /\ field \in DOMAIN E.runtime.index
  BY <1>1 DEF Validates, Judged
<1> QED
  BY <1>2, EntityBound DEF Refuses

\* A step other than init() leaves what Clean and Proper read of the field alone.
LEMMA CheckedBy ==
    ASSUME CheckedInv, UNCHANGED rigid,
           \A c \in Builders : /\ Clean(bld'[c], Judged, NotNull)
                               /\ bld'[c].op # None => Ready,
           \A i \in Ids : Proper(rows'[i], NotNull)
    PROVE  CheckedInv'
<1>1. entity' = entity /\ field' = field /\ booted' = booted /\ bound' = bound
  BY DEF rigid
<1>2. Judged' = Judged
  BY <1>1 DEF Judged
<1>3. NotNull' = NotNull /\ Ready' = Ready
  BY <1>1 DEF NotNull, E, Ready
<1>4. Bound'
  BY <1>1 DEF CheckedInv, Bound
<1> QED
  BY <1>2, <1>3, <1>4 DEF CheckedInv

LEMMA OneChecked ==
    ASSUME Held, UNCHANGED rigid, rows' = rows, NEW b \in Builders, NEW n,
           bld' = [bld EXCEPT ![b] = n],
           Clean(n, Judged, NotNull), n.op # None => Ready
    PROVE  CheckedInv'
<1>1. ASSUME NEW c \in Builders
      PROVE  Clean(bld'[c], Judged, NotNull) /\ (bld'[c].op # None => Ready)
  <2>1. CASE c = b
    BY <2>1, HeldTypes
  <2>2. CASE c # b
    <3>1. bld'[c] = bld[c]
      BY <2>2, HeldTypes
    <3> QED
      BY <3>1, HeldTypes
  <2> QED
    BY <2>1, <2>2
<1> QED
  BY <1>1, HeldTypes, CheckedBy DEF Held

LEMMA SameClean ==
    ASSUME NEW m, NEW n, SamePointers(m, n), NEW judged, NEW notNull, Clean(m, judged, notNull)
    PROVE  Clean(n, judged, notNull)
BY DEF SamePointers, Clean

LEMMA FinishedClean ==
    ASSUME NEW m \in Mutation, NEW judged, NEW notNull, Clean(m, judged, notNull),
           NEW r, r # "notNull"
    PROVE  Clean(Finished(m, r), judged, notNull) /\ Finished(m, r).op = m.op
BY FinishedFields, MarksProper DEF Clean

LEMMA InputJudged ==
    ASSUME NEW b \in Builders, NEW v \in Inputs(b)
    PROVE  v \in Values /\ ("bad" \in v => Judged)
<1>1. v \in Values
  BY InputsOwned
<1>2. v = {b} \/ Judged
  BY DEF Inputs, Judged
<1> QED
  BY <1>1, <1>2, NamesAssumption

LEMMA CallsChecked ==
    ASSUME Held, NEW b \in Builders,
           \/ BuilderSet(b) \/ BuilderAdd(b) \/ BuilderClear(b)
           \/ MutationSet(b) \/ MutationAdd(b) \/ MutationClear(b) \/ MutationReset(b)
    PROVE  CheckedInv'
<1>1. bld[b] \in Mutation /\ Clean(bld[b], Judged, NotNull) /\ Ready
  BY HeldTypes DEF BuilderSet, BuilderAdd, BuilderClear, MutationSet, MutationAdd,
                   MutationClear, MutationReset, Update
<1>2. ASSUME NEW n, NEW l, Update(b, n, l), Clean(n, Judged, NotNull)
      PROVE  CheckedInv'
  BY <1>1, <1>2, OneChecked DEF Update, rigid
<1>3. None \notin Values
  BY MarksAssumption DEF Marks
<1>4. CASE BuilderSet(b) \/ MutationSet(b)
  <2> DEFINE m == IF field \in Api(bld[b]).fresh THEN ResetX(bld[b]) ELSE bld[b]
  <2>1. PICK v \in Inputs(b) : \E l :
           Update(b, SetX(m, v), l) \/ Update(b, SetX(bld[b], v), l)
    BY <1>4 DEF BuilderSet, MutationSet
  <2>2. m = bld[b] \/ m = ResetX(bld[b])
    OBVIOUS
  <2>3. bld[b] \in Mutation /\ ResetX(bld[b]) \in Mutation
    BY <1>1, ResetPiece DEF Held, IInv, Pieces, Piece
  <2>4. Clean(ResetX(bld[b]), Judged, NotNull)
    BY <1>1, <1>3, ResetFields DEF Clean
  <2>5. ASSUME NEW k \in Mutation, Clean(k, Judged, NotNull)
        PROVE  Clean(SetX(k, v), Judged, NotNull)
    BY <2>5, InputJudged, SetFields DEF Clean
  <2> HIDE DEF m
  <2> QED
    BY <1>1, <1>2, <2>1, <2>2, <2>3, <2>4, <2>5
<1>5. CASE BuilderAdd(b) \/ MutationAdd(b)
  <2>1. Update(b, AddX(bld[b], {b}), Append(log[b], <<"add", {b}>>))
    BY <1>5 DEF BuilderAdd, MutationAdd
  <2>2. Clean(AddX(bld[b], {b}), Judged, NotNull)
    BY <1>1, AddFields, NamesAssumption DEF Clean
  <2> QED
    BY <1>2, <2>1, <2>2
<1>6. CASE BuilderClear(b) \/ MutationClear(b)
  <2>1. Update(b, ClearX(bld[b]), Append(log[b], <<"clear", {}>>))
    BY <1>6 DEF BuilderClear, MutationClear
  <2>2. Clean(ClearX(bld[b]), Judged, NotNull)
    BY <1>1, <1>3, ClearFields DEF Clean
  <2> QED
    BY <1>2, <2>1, <2>2
<1>7. CASE MutationReset(b)
  <2>1. Update(b, ResetX(bld[b]), <<>>)
    BY <1>7 DEF MutationReset
  <2>2. Clean(ResetX(bld[b]), Judged, NotNull)
    BY <1>1, <1>3, ResetFields DEF Clean
  <2> QED
    BY <1>2, <2>1, <2>2
<1> QED
  BY <1>4, <1>5, <1>6, <1>7

LEMMA NewBuilderChecked ==
    ASSUME Held, NEW b \in Builders, NewBuilder(b)
    PROVE  CheckedInv'
<1>1. PICK op \in Ops, id \in Ids, node \in BOOLEAN :
         bld' = [bld EXCEPT ![b] =
               [Blank EXCEPT !.op = op,
                             !.id = IF op \in {"updateOne", "deleteOne"} THEN id ELSE None,
                             !.old = IF node THEN rows[id] ELSE Unread]]
  BY DEF NewBuilder
<1> DEFINE i == IF op \in {"updateOne", "deleteOne"} THEN id ELSE None
           o == IF node THEN rows[id] ELSE Unread
           n == [Blank EXCEPT !.op = op, !.id = i, !.old = o]
<1>2. bld' = [bld EXCEPT ![b] = n]
  BY <1>1, Zenon
<1> HIDE DEF i, o
<1>0. n.val = None /\ n.add = {} /\ n.spec = None /\ n.told = {}
  BY DEF Blank
<1>3. None \notin Values
  BY MarksAssumption DEF Marks
<1>4. Clean(n, Judged, NotNull)
  BY <1>0, <1>3, MarksProper DEF Clean
<1>5. UNCHANGED rigid /\ rows' = rows /\ Ready
  BY DEF NewBuilder
<1> HIDE DEF n
<1> QED
  BY <1>2, <1>4, <1>5, OneChecked

LEMMA OldXChecked ==
    ASSUME Held, NEW b \in Builders, OldX(b)
    PROVE  CheckedInv'
<1>1. PICK v : bld' = [bld EXCEPT ![b].old = v]
  BY DEF OldX
<1> DEFINE n == [bld[b] EXCEPT !.old = v]
<1>2. bld' = [bld EXCEPT ![b] = n]
  BY <1>1, HeldTypes
<1>3. Clean(n, Judged, NotNull)
  BY HeldTypes, OldFields, SameClean
<1>4. UNCHANGED rigid /\ rows' = rows /\ Ready
  BY DEF OldX
<1> HIDE DEF n
<1> QED
  BY <1>2, <1>3, <1>4, OneChecked

\* defaults() and the place in a Save.
LEMMA PlacedClean ==
    ASSUME NEW b \in Builders, NEW m, Piece(b, m), NEW judged, NEW notNull,
           Clean(m, judged, notNull), NEW l, NEW c
    PROVE  /\ Clean(Placed(m, l, c), judged, notNull)
           /\ Clean(Placed(defaults(m), l, c), judged, notNull)
<1>1. m \in Mutation /\ defaults(m) \in Mutation
  BY DefaultsPiece DEF Piece
<1>2. Clean(defaults(m), judged, notNull)
  BY <1>1, DefaultFields DEF Clean
<1> QED
  BY <1>1, <1>2, PlacedFields, SameClean

LEMMA SaveChecked ==
    ASSUME Held, NEW b \in Builders, Save(b)
    PROVE  CheckedInv'
<1> DEFINE n == Placed(IF bld[b].op = "create" THEN defaults(bld[b]) ELSE bld[b], "hooks", None)
<1>1. bld' = [bld EXCEPT ![b] = n]
  BY DEF Save, Placed
<1>2. Piece(b, bld[b]) /\ Clean(bld[b], Judged, NotNull)
  BY HeldTypes DEF Held, IInv, Pieces
<1>3. Clean(n, Judged, NotNull)
  BY <1>2, PlacedClean
<1>4. UNCHANGED rigid /\ rows' = rows /\ Ready
  BY DEF Save
<1> HIDE DEF n
<1> QED
  BY <1>1, <1>3, <1>4, OneChecked

LEMMA SaveBulkChecked ==
    ASSUME Held, NEW b \in Builders, NEW c \in Builders, SaveBulk(b, c)
    PROVE  CheckedInv'
<1> DEFINE n == Placed(defaults(bld[b]), "hooks", c)
           k == Placed(defaults(bld[c]), "queued", None)
<1>1. bld' = [bld EXCEPT ![b] = n, ![c] = k] /\ b # c
  BY DEF SaveBulk, Placed
<1>2. \A x \in Builders : Piece(x, bld[x]) /\ Clean(bld[x], Judged, NotNull)
  BY HeldTypes DEF Held, IInv, Pieces
<1>3. Clean(n, Judged, NotNull) /\ Clean(k, Judged, NotNull)
  BY <1>2, PlacedClean
<1>4. UNCHANGED rigid /\ rows' = rows /\ Ready
  BY DEF SaveBulk
<1> HIDE DEF n, k
<1>5. ASSUME NEW x \in Builders PROVE Clean(bld'[x], Judged, NotNull)
  <2>1. bld'[x] = IF x = c THEN k ELSE IF x = b THEN n ELSE bld[x]
    BY <1>1, HeldTypes
  <2> QED
    BY <1>2, <1>3, <2>1
<1> QED
  BY <1>4, <1>5, HeldTypes, CheckedBy DEF Held

\* The end of a Save reports anything but a NULL the table refused.
LEMMA ReportChecked ==
    ASSUME Held, Ready, UNCHANGED rigid, NEW b \in Builders, NEW r, r # "notNull",
           rows' = rows, Report(b, r)
    PROVE  CheckedInv'
<1>1. ASSUME NEW c \in Builders PROVE Clean(bld'[c], Judged, NotNull)
  <2>1. bld'[c] = IF c \in Bulk(b) THEN Finished(bld[c], r) ELSE bld[c]
    BY DEF Report
  <2> QED
    BY <2>1, HeldTypes, FinishedClean
<1> QED
  BY <1>1, HeldTypes, CheckedBy DEF Held

LEMMA StatementChecked ==
    ASSUME Held, Ready, UNCHANGED rigid, NEW b \in Builders, NEW new, Statement(b, new),
           \A i \in Ids : Proper(new[i], NotNull)
    PROVE  CheckedInv'
<1>1. CASE rows' = new /\ bld' = [bld EXCEPT ![b].at = "after", ![b].done = TRUE]
  <2> DEFINE n == Effective(bld[b])
  <2>1. bld' = [bld EXCEPT ![b] = n]
    BY <1>1, HeldTypes DEF Effective, Mutation
  <2>2. Clean(n, Judged, NotNull)
    BY HeldTypes, EffectiveFields, SameClean
  <2> HIDE DEF n
  <2>3. ASSUME NEW c \in Builders PROVE Clean(bld'[c], Judged, NotNull)
    <3>1. bld'[c] = IF c = b THEN n ELSE bld[c]
      BY <2>1, HeldTypes
    <3> QED
      BY <2>2, <3>1, HeldTypes
  <2> QED
    BY <1>1, <2>3, CheckedBy DEF Held
<1>2. ASSUME NEW r \in Refused(new) \cup {"database"}, rows' = rows, Report(b, r)
      PROVE  CheckedInv'
  <2>1. r # "notNull"
    <3>1. ~ (field \in E.table.notNull /\ \E i \in Ids : new[i] = Null)
      BY DEF Proper, NotNull
    <3> QED
      BY <1>2, <3>1 DEF Refused
  <2> QED
    BY <1>2, <2>1, ReportChecked
<1> QED
  BY <1>1, <1>2 DEF Statement

LEMMA SpecProper ==
    ASSUME Validates(Client!Entity, ClientMixin), Held, Ready, NEW m \in Mutation,
           Clean(m, Judged, NotNull), checkCreate(m)
    PROVE  Proper(createSpec(m), NotNull)
<1>1. m.val \in Values \cup {None} /\ Null \notin Values
  BY MarksAssumption DEF Mutation, Marks
<1>2. NotNull => createSpec(m) # Null
  BY <1>1, FieldComplete DEF createSpec, checkCreate
<1>3. m.val # None => "bad" \notin m.val
  BY <1>1, BadRefused DEF Clean, checkCreate
<1> QED
  BY <1>1, <1>2, <1>3 DEF createSpec, Proper

\* What a bulk's member leaves of each builder when it hands on to the next.
LEMMA AwaitFields ==
    ASSUME IInv, NEW b \in Builders, Await(b), bld[b].chain # None, NEW x \in Builders
    PROVE  LET n == bld'[x] IN
           /\ n.val = bld[x].val /\ n.add = bld[x].add /\ n.cleared = bld[x].cleared
           /\ n.op = bld[x].op /\ n.told = bld[x].told /\ n.chain = bld[x].chain
           /\ n.spec = (IF x = b THEN createSpec(bld[b]) ELSE bld[x].spec)
           /\ n.at \in {"hooks", "queued", bld[x].at}
<1>1. bld \in [Builders -> Mutation] /\ bld[x] \in Mutation
  BY DEF IInv, Pieces
<1> DEFINE c == bld[b].chain
           s == createSpec(bld[b])
<1>2. c \in Builders
  BY <1>1 DEF Mutation
<1>3. bld' = [bld EXCEPT ![b].at = "queued", ![b].spec = s, ![c].at = "hooks"]
  BY DEF Await
<1> HIDE DEF c, s
<1> DEFINE a == IF x = c THEN "hooks" ELSE IF x = b THEN "queued" ELSE bld[x].at
           t == IF x = b THEN s ELSE bld[x].spec
<1>4. bld'[x] = [bld[x] EXCEPT !.at = a, !.spec = t]
  BY <1>1, <1>2, <1>3 DEF Mutation
<1>5. a \in {"hooks", "queued", bld[x].at} /\ t = (IF x = b THEN createSpec(bld[b]) ELSE bld[x].spec)
  BY DEF s
<1> HIDE DEF a, t
<1> QED
  BY <1>1, <1>4, <1>5, QueuedFields

LEMMA AwaitChecked ==
    ASSUME Validates(Client!Entity, ClientMixin), Held, NEW b \in Builders, Await(b),
           bld[b].chain # None, bld[b].op = "create", checkCreate(bld[b]), UNCHANGED rigid
    PROVE  CheckedInv'
<1>1. Ready
  BY HeldTypes, MarksAssumption DEF Ops
<1>2. Proper(createSpec(bld[b]), NotNull)
  BY <1>1, HeldTypes, SpecProper
<1>3. ASSUME NEW x \in Builders PROVE Clean(bld'[x], Judged, NotNull)
  <2>1. Clean(bld[x], Judged, NotNull)
    BY HeldTypes
  <2> QED
    BY <1>2, <2>1, AwaitFields DEF Clean, Held
<1>4. rows' = rows
  BY DEF Await
<1> QED
  BY <1>1, <1>3, <1>4, HeldTypes, CheckedBy DEF Held

\* The members of a bulk, finished by its INSERT.
LEMMA InsertChecked ==
    ASSUME Validates(Client!Entity, ClientMixin), Held, NEW b \in Builders, Insert(b),
           bld[b].op = "create", checkCreate(bld[b]), UNCHANGED rigid
    PROVE  CheckedInv'
<1>1. Ready
  BY HeldTypes, MarksAssumption DEF Ops
<1> DEFINE spec(c) == IF c = b THEN createSpec(bld[b]) ELSE bld[c].spec
           bs == Bulk(b)
<1>2. PICK at \in [bs -> Ids \ Live] :
         Statement(b, [i \in Ids |-> IF \E c \in bs : at[c] = i
                                     THEN spec(CHOOSE c \in bs : at[c] = i) ELSE rows[i]])
  BY DEF Insert
<1> DEFINE new == [i \in Ids |-> IF \E c \in bs : at[c] = i
                                 THEN spec(CHOOSE c \in bs : at[c] = i) ELSE rows[i]]
<1>3. bs \in SUBSET Builders
  BY DEF Bulk
<1>4. ASSUME NEW c \in bs PROVE Proper(spec(c), NotNull)
  <2>1. Clean(bld[c], Judged, NotNull)
    BY <1>3, HeldTypes
  <2>2. Proper(createSpec(bld[b]), NotNull)
    BY <1>1, HeldTypes, SpecProper
  <2> QED
    BY <2>1, <2>2 DEF Clean
<1> HIDE DEF spec, bs
<1>5. ASSUME NEW i \in Ids PROVE Proper(new[i], NotNull)
  <2>1. CASE \E c \in bs : at[c] = i
    <3>1. (CHOOSE c \in bs : at[c] = i) \in bs
      BY <2>1
    <3> QED
      BY <1>4, <2>1, <3>1
  <2>2. CASE ~ \E c \in bs : at[c] = i
    BY <2>2, HeldTypes
  <2> QED
    BY <2>1, <2>2
<1>6. Statement(b, new)
  BY <1>2
<1> HIDE DEF new
<1> QED
  BY <1>1, <1>5, <1>6, StatementChecked

LEMMA CreateChecked ==
    ASSUME Validates(Client!Entity, ClientMixin), Held, NEW b \in Builders, sqlSaveCreate(b)
    PROVE  CheckedInv'
<1>1. bld[b].op = "create" /\ UNCHANGED rigid /\ Ready
  BY HeldTypes, MarksAssumption DEF sqlSaveCreate, Ops
<1> QED
  BY <1>1, ReportChecked, AwaitChecked, InsertChecked DEF sqlSaveCreate

LEMMA OutcomeProper ==
    ASSUME Validates(Client!Entity, ClientMixin), Held, Ready, NEW m \in Mutation,
           Clean(m, Judged, NotNull), m.op \in {"update", "updateOne"}, checkUpdate(m),
           NEW old \in Values \cup {Null}, Proper(old, NotNull), NEW v \in Outcomes(m, old)
    PROVE  Proper(v, NotNull)
<1>1. m.val \in Values \cup {None} /\ m.add \in Values /\ Null \notin Values
  BY MarksAssumption DEF Mutation, Marks
<1>2. m.val # None => "bad" \notin m.val /\ m.val # Null
  BY <1>1, BadRefused DEF Clean, checkUpdate
<1> DEFINE was == IF old = Null THEN {} ELSE old
           clear == IF m.op = "update" THEN E.update.spec.clear ELSE E.updateOne.spec.clear
<1>3. \/ v = old \/ (v = Null /\ field \in clear)
      \/ v = m.val /\ m.val # None
      \/ v = was \cup m.add
  BY DEF Outcomes, Assignments
<1>4. NotNull => field \notin clear
  BY FieldComplete
<1>5. CASE v = was \cup m.add
  <2>1. was \in Values /\ "bad" \notin was /\ "bad" \notin m.add
    BY <1>1 DEF Values, Proper, Clean
  <2> HIDE DEF was
  <2>2. v \in Values /\ "bad" \notin v
    BY <1>1, <1>5, <2>1 DEF Values
  <2> QED
    BY <1>1, <2>2 DEF Proper
<1>6. CASE v = Null /\ field \in clear
  BY <1>1, <1>4, <1>6 DEF Proper
<1>7. CASE v = m.val /\ m.val # None
  BY <1>2, <1>7 DEF Proper
<1> QED
  BY <1>3, <1>5, <1>6, <1>7

LEMMA UpdateChecked ==
    ASSUME Validates(Client!Entity, ClientMixin), Held, NEW b \in Builders, sqlSaveUpdate(b)
    PROVE  CheckedInv'
<1> DEFINE m == bld[b]
           allowed == IF m.op = "update" THEN Live ELSE Live \cap {m.id}
<1>0. m.op \in {"update", "updateOne"} /\ UNCHANGED rigid /\ Ready
  BY HeldTypes, MarksAssumption DEF sqlSaveUpdate, Ops
<1>1. ASSUME NEW r, r # "notNull", rows' = rows, Report(b, r)
      PROVE  CheckedInv'
  BY <1>0, <1>1, ReportChecked
<1>2. ASSUME NEW hit \in SUBSET allowed, checkUpdate(m),
             NEW new \in [Ids -> (UNION {Outcomes(m, rows[i]) : i \in hit})
                                              \cup {rows[i] : i \in Ids}],
             \A i \in Ids : IF i \in hit THEN new[i] \in Outcomes(m, rows[i])
                                          ELSE new[i] = rows[i],
             Statement(b, new)
      PROVE  CheckedInv'
  <2>1. ASSUME NEW i \in Ids PROVE Proper(new[i], NotNull)
    <3>1. CASE i \in hit
      <4>1. rows[i] \in Values \cup {Null} /\ new[i] \in Outcomes(m, rows[i])
        BY <1>2, <3>1, HeldTypes DEF Column, Live
      <4> QED
        BY <1>0, <1>2, <4>1, HeldTypes, OutcomeProper
    <3>2. CASE i \notin hit
      <4>1. new[i] = rows[i]
        BY <1>2, <3>2
      <4> QED
        BY <4>1, HeldTypes
    <3> QED
      BY <3>1, <3>2
  <2> QED
    BY <1>0, <1>2, <2>1, StatementChecked
<1> QED
  BY <1>1, <1>2 DEF sqlSaveUpdate

\* What a delete leaves of the rows and the builders.
LEMMA DeleteFields ==
    ASSUME IInv, NEW b \in Builders, sqlExecDelete(b)
    PROVE  /\ bld[b].op \in {"delete", "deleteOne"}
           /\ \A i \in Ids : rows'[i] = None \/ rows'[i] = rows[i]
           /\ \A c \in Builders \ {b} : bld'[c] = bld[c]
           /\ \E m \in Mutation :
                 /\ SamePointers(bld[b], m)
                 /\ \/ bld'[b] = Effective(bld[b])
                    \/ \E r \in Errors \ {"notNull"} : bld'[b] = Finished(m, r)
<1> DEFINE m == [bld[b] EXCEPT !.done = TRUE]
<1>1. bld \in [Builders -> Mutation] /\ bld[b] \in Mutation /\ m \in Mutation
  <2>1. bld \in [Builders -> Mutation] /\ bld[b] \in Mutation
    BY DEF IInv, Pieces
  <2> QED
    BY <2>1 DEF Mutation
<1>2. SamePointers(bld[b], m)
  BY <1>1, DoneFields
<1>3. bld[b].op \in {"delete", "deleteOne"}
  BY <1>2 DEF sqlExecDelete, SamePointers
<1>4. PICK hit :
         \/ /\ rows' = [i \in Ids |-> IF i \in hit THEN None ELSE rows[i]]
            /\ bld' = [bld EXCEPT ![b] = [m EXCEPT !.at = "after"]]
         \/ /\ \E r \in {"notFound", "lateHook", "database"} :
                  bld' = [bld EXCEPT ![b] = Finished(m, r)]
            /\ rows' = rows
  BY DEF sqlExecDelete
<1>5. Effective(bld[b]) = [m EXCEPT !.at = "after"]
  BY <1>1 DEF Effective, Mutation
<1> HIDE DEF m
<1>6. \A i \in Ids : rows'[i] = None \/ rows'[i] = rows[i]
  BY <1>4
<1>7. \A c \in Builders \ {b} : bld'[c] = bld[c]
  BY <1>1, <1>4
<1>8. \/ bld'[b] = Effective(bld[b])
      \/ \E r \in Errors \ {"notNull"} : bld'[b] = Finished(m, r)
  <2>1. {"notFound", "lateHook", "database"} \subseteq Errors \ {"notNull"}
    BY DEF Errors
  <2> QED
    BY <1>1, <1>4, <1>5, <2>1
<1> QED
  BY <1>1, <1>2, <1>3, <1>6, <1>7, <1>8

LEMMA DeleteChecked ==
    ASSUME Held, NEW b \in Builders, sqlExecDelete(b)
    PROVE  CheckedInv'
<1>1. /\ bld[b].op \in {"delete", "deleteOne"}
      /\ \A i \in Ids : rows'[i] = None \/ rows'[i] = rows[i]
      /\ \A c \in Builders \ {b} : bld'[c] = bld[c]
  BY DeleteFields DEF Held
<1>2. UNCHANGED rigid /\ Ready
  BY <1>1, HeldTypes, MarksAssumption DEF sqlExecDelete, Ops
<1>3. \A i \in Ids : Proper(rows'[i], NotNull)
  BY <1>1, MarksProper, HeldTypes
<1>4. Clean(bld'[b], Judged, NotNull)
  <2>1. PICK m \in Mutation :
           /\ SamePointers(bld[b], m)
           /\ \/ bld'[b] = Effective(bld[b])
              \/ \E r \in Errors \ {"notNull"} : bld'[b] = Finished(m, r)
    BY DeleteFields DEF Held
  <2>2. Clean(m, Judged, NotNull) /\ Clean(Effective(bld[b]), Judged, NotNull)
    BY <2>1, HeldTypes, EffectiveFields, SameClean
  <2> QED
    BY <2>1, <2>2, FinishedClean
<1>5. \A c \in Builders : Clean(bld'[c], Judged, NotNull)
  BY <1>1, <1>4, HeldTypes
<1> QED
  BY <1>2, <1>3, <1>5, CheckedBy DEF Held

LEMMA HookFailsChecked ==
    ASSUME Held, NEW b \in Builders, HookFails(b)
    PROVE  CheckedInv'
<1>1. /\ rows' = rows /\ UNCHANGED rigid
      /\ \E r \in {"hook", "lateHook"} : Report(b, r)
  BY DEF HookFails
<1>2. Ready
  BY HeldTypes DEF HookFails, Held, IInv, Pieces, Piece
<1> QED
  BY <1>1, <1>2, ReportChecked

\* What the return of a bulk's inner hooks leaves of the builders.
LEMMA ReturnFields ==
    ASSUME IInv, NEW b \in Builders, Return(b)
    PROVE  \/ Report(b, "ok")
           \/ \A c \in Builders :
                 /\ SamePointers(bld[c], bld'[c])
                 /\ bld'[c].at = bld[c].at \/ (bld[c].at # "hooks")
<1> DEFINE outer == {c \in Builders : bld[c].chain = b /\ bld[c].at = "queued"}
<1>1. bld \in [Builders -> Mutation] /\ bld[b].at = "after"
  BY DEF IInv, Pieces, Return
<1>2. CASE outer = {}
  BY <1>2 DEF Return
<1>3. CASE outer # {}
  <2>1. bld' = [c \in Builders |->
                   CASE c = b -> [bld[b] EXCEPT !.at = "queued"]
                     [] c \in outer -> [bld[c] EXCEPT !.at = "after", !.done = TRUE]
                     [] OTHER -> bld[c]]
    BY <1>3 DEF Return
  <2>o. b \notin outer
    BY <1>1
  <2> HIDE DEF outer
  <2>2. ASSUME NEW c \in Builders
        PROVE  /\ SamePointers(bld[c], bld'[c])
               /\ bld'[c].at = bld[c].at \/ (bld[c].at # "hooks")
    <3>1. CASE c = b
      <4>1. bld'[c] = [bld[c] EXCEPT !.at = "queued"]
        BY <2>1, <2>o, <3>1
      <4> QED
        BY <1>1, <3>1, <4>1, MovedFields
    <3>2. CASE c # b /\ c \in outer
      <4>1. bld'[c] = Effective(bld[c])
        BY <2>1, <3>2 DEF Effective
      <4> QED
        BY <1>1, <3>2, <4>1, EffectiveFields DEF outer
    <3>3. CASE c # b /\ c \notin outer
      <4>1. bld'[c] = bld[c]
        BY <2>1, <3>3
      <4> QED
        BY <4>1 DEF SamePointers
    <3> QED
      BY <3>1, <3>2, <3>3
  <2> QED
    BY <2>2
<1> QED
  BY <1>2, <1>3

LEMMA ReturnChecked ==
    ASSUME Held, NEW b \in Builders, Return(b)
    PROVE  CheckedInv'
<1>1. rows' = rows /\ UNCHANGED rigid /\ Ready
  BY HeldTypes DEF Return, Held, IInv, Pieces, Piece
<1>2. CASE Report(b, "ok")
  BY <1>1, <1>2, ReportChecked
<1>3. CASE \A c \in Builders : SamePointers(bld[c], bld'[c])
  <2>1. \A c \in Builders : Clean(bld'[c], Judged, NotNull)
    BY <1>3, HeldTypes, SameClean
  <2> QED
    BY <1>1, <2>1, HeldTypes, CheckedBy DEF Held
<1> QED
  BY <1>2, <1>3, ReturnFields DEF Held

\* init() binds the next entity's fields, each to the descriptor of its name.
LEMMA InitBinds ==
    ASSUME Validates(Client!Entity, ClientMixin), Held, init
    PROVE  Bound'
<1> DEFINE e == InitOrder[booted + 1]
           r == Entity[e].runtime
           binds(f) == Binds(Entity[e], MixinFields[e], f)
           fits == \A f \in DOMAIN r.index : binds(f)
           reached == {f \in DOMAIN r.index :
                          \A g \in DOMAIN r.index : r.index[g] < r.index[f] => binds(g)}
           names == [f \in {g \in reached : r.index[g] \in DOMAIN MixinFields[e]} |->
                        MixinFields[e][r.index[f]].name]
<1>0. booted \in 0..5
  <2>1. booted \in 0..(Len(InitOrder) - 1)
    BY Zenon DEF init
  <2> QED
    BY <2>1, SixEntities
<1>1. booted' = (IF fits THEN booted + 1 ELSE None) /\ bound' = [bound EXCEPT ![e] = names]
  BY Zenon DEF init
<1>2. e \in Entities
  <2>1. DOMAIN InitOrder = 1..6
    BY DEF InitOrder
  <2>2. booted + 1 \in 1..6
    BY <1>0
  <2> QED
    BY <2>1, <2>2 DEF Entities
<1>3. bound' = [x \in Entities |-> bound'[x]]
  BY <1>1 DEF Held, CheckedInv, Bound
<1>4. bound'[e] = names /\ \A x \in Entities \ {e} : bound'[x] = bound[x]
  BY <1>1, <1>2 DEF Held, CheckedInv, Bound
<1>5. CASE ~ fits
  <2>1. booted' \notin 0..6
    BY <1>1, <1>5, SixEntities, MarksAssumption
  <2> QED
    BY <1>3, <2>1 DEF Bound
<1>6. CASE fits
  <2>1. booted' = booted + 1
    BY <1>1, <1>6
  <2>2. Validates(Entity[e], MixinFields[e])
    BY <1>2, OthersValidate
  <2>3. ASSUME NEW f \in DOMAIN r.index
        PROVE  f \in DOMAIN names /\ names[f] = f
    <3>1. r.index[f] \in DOMAIN MixinFields[e] /\ f \in reached
      BY <1>6 DEF Binds
    <3>2. MixinFields[e][r.index[f]].name = f
      BY <2>2, <3>1 DEF Validates
    <3> QED
      BY <3>1, <3>2
  <2> HIDE DEF names, fits, reached
  <2>4. ASSUME NEW i \in 1..(booted + 1), NEW f \in DOMAIN Entity[InitOrder[i]].runtime.index
        PROVE  f \in DOMAIN bound'[InitOrder[i]] /\ bound'[InitOrder[i]][f] = f
    <3>1. CASE InitOrder[i] = e
      BY <1>4, <2>3, <3>1
    <3>2. CASE InitOrder[i] # e
      <4>1. i \in 1..booted /\ booted \in 0..6
        BY <1>0, <2>4, <3>2
      <4>2. f \in DOMAIN bound[InitOrder[i]] /\ bound[InitOrder[i]][f] = f
        BY <2>4, <4>1 DEF Held, CheckedInv, Bound
      <4>3. InitOrder[i] \in Entities
        <5>1. DOMAIN InitOrder = 1..6 /\ i \in 1..6
          BY <4>1 DEF InitOrder
        <5> QED
          BY <5>1 DEF Entities
      <4> QED
        BY <1>4, <3>2, <4>2, <4>3
    <3> QED
      BY <3>1, <3>2
  <2> QED
    BY <1>3, <2>1, <2>4 DEF Bound
<1> QED
  BY <1>5, <1>6

LEMMA CheckedStep ==
    ASSUME Validates(Client!Entity, ClientMixin), Held, [Next]_vars
    PROVE  CheckedInv'
<1>1. CASE init
  <2>1. /\ entity' = entity /\ field' = field /\ rows' = rows /\ bld' = bld
        /\ booted \in 0..(Len(InitOrder) - 1)
    BY <1>1 DEF init
  <2>2. ~ Ready
    BY <2>1, SixEntities DEF Ready
  <2>3. Judged' = Judged
    BY <2>1 DEF Judged
  <2>4. NotNull' = NotNull
    BY <2>1 DEF NotNull, E
  <2> QED
    BY <1>1, <2>1, <2>2, <2>3, <2>4, InitBinds, HeldTypes DEF CheckedInv
<1>2. CASE UNCHANGED vars
  BY <1>2, HeldTypes, CheckedBy DEF vars, rigid, Held
<1>3. ASSUME NEW b \in Builders,
             \/ NewBuilder(b) \/ BuilderSet(b) \/ BuilderAdd(b) \/ BuilderClear(b)
             \/ MutationSet(b) \/ MutationAdd(b) \/ MutationClear(b) \/ MutationReset(b)
             \/ OldX(b) \/ Save(b) \/ (\E c \in Builders : SaveBulk(b, c))
      PROVE  CheckedInv'
  BY <1>3, NewBuilderChecked, CallsChecked, OldXChecked, SaveChecked, SaveBulkChecked
<1>4. ASSUME NEW b \in Builders,
             \/ sqlSaveCreate(b) \/ sqlSaveUpdate(b) \/ sqlExecDelete(b)
             \/ HookFails(b) \/ Return(b)
      PROVE  CheckedInv'
  BY <1>4, CreateChecked, UpdateChecked, DeleteChecked, HookFailsChecked, ReturnChecked
<1> QED
  BY <1>1, <1>2, <1>3, <1>4 DEF Next

LEMMA CheckedInit == Init => CheckedInv
<1> SUFFICES ASSUME Init PROVE CheckedInv
  OBVIOUS
<1>1. Bound
  BY DEF Init, Bound
<1>2. /\ None \notin Values
      /\ Blank.val = None /\ Blank.add = {} /\ Blank.spec = None /\ Blank.told = {}
      /\ Blank.op = None
  BY MarksAssumption DEF Marks, Blank
<1>3. ASSUME NEW b \in Builders
      PROVE  Clean(bld[b], Judged, NotNull) /\ bld[b].op = None
  <2>1. bld[b] = Blank
    BY DEF Init
  <2> QED
    BY <1>2, <2>1, MarksProper DEF Clean
<1>4. ASSUME NEW i \in Ids PROVE Proper(rows[i], NotNull)
  <2>1. rows[i] = {"default"} \/ rows[i] = None
    BY DEF Init
  <2>2. {"default"} # Null
    BY MarksAssumption DEF Values, Marks
  <2> QED
    BY <2>1, <2>2, MarksProper DEF Proper
<1> QED
  BY <1>1, <1>3, <1>4 DEF CheckedInv

\* create.check, update.check and init(): no value a validator refuses is stored
\* and no NULL reaches a NOT NULL column, for any calls of the caller and the
\* hooks on any field of the six entities, provided that the OAuthClient mixin
\* init() finds is the one its code was generated from; the other five are shown
\* to be. CurrentMixinPanics shows that the repository's is not.
THEOREM OnlyCheckedStored ==
    ASSUME Validates(Client!Entity, ClientMixin)
    PROVE  Spec => []OnlyCheckedRowsStored
<1>1. Init => IInv /\ Counted /\ CheckedInv
  BY InitIInv, InitCounted, CheckedInit
<1>2. IInv /\ Counted /\ CheckedInv /\ [Next]_vars => (IInv /\ Counted /\ CheckedInv)'
  BY NextIInv, NextCounted, CheckedStep DEF Held
<1>3. IInv /\ CheckedInv => OnlyCheckedRowsStored
  BY ColumnValue DEF IInv, CheckedInv, Clean, Proper, OnlyCheckedRowsStored
<1> QED
  BY <1>1, <1>2, <1>3, PTL DEF Spec

-----------------------------------------------------------------------------
(* The last calls show *)

\* One more call.
LEMMA AppendFacts ==
    ASSUME NEW S, NEW l \in Seq(S), NEW e \in S
    PROVE  LET k == Append(l, e) IN
           /\ k \in Seq(S) /\ Len(k) = Len(l) + 1 /\ Len(l) \in Nat
           /\ DOMAIN k = 1..Len(k) /\ DOMAIN l = 1..Len(l) /\ k[Len(k)] = e
           /\ \A i \in DOMAIN l : i \in DOMAIN k /\ k[i] = l[i]
           /\ \A i \in DOMAIN k : i \in DOMAIN l \/ i = Len(k)
OBVIOUS

\* After it the last additions and the set before them.
LEMMA AppendAsked ==
    ASSUME NEW l \in Seq(Calls), NEW e \in Calls
    PROVE  LET k == Append(l, e) IN
           /\ e[1] = "add" => Adding(k) = Adding(l) \cup {Len(k)} /\ Setting(k) = Setting(l)
           /\ e[1] # "add" => Adding(k) = {}
           /\ e[1] = "set" => Setting(k) = {Len(k)}
           /\ e[1] = "clear" => Setting(k) = {}
<1> DEFINE k == Append(l, e)
<1>1. /\ Len(k) = Len(l) + 1 /\ Len(l) \in Nat
      /\ DOMAIN k = 1..Len(k) /\ DOMAIN l = 1..Len(l) /\ k[Len(k)] = e
      /\ \A i \in DOMAIN l : i \in DOMAIN k /\ k[i] = l[i]
      /\ \A i \in DOMAIN k : i \in DOMAIN l \/ i = Len(k)
  BY AppendFacts
<1> HIDE DEF k
<1>2. ASSUME e[1] # "add" PROVE Adding(k) = {}
  BY <1>1, <1>2 DEF Adding
<1>3. ASSUME e[1] = "add" PROVE Adding(k) = Adding(l) \cup {Len(k)}
  BY <1>1, <1>3 DEF Adding
<1>4. ASSUME e[1] = "add" PROVE Setting(k) = Setting(l)
  <2>1. Len(k) \notin Setting(k)
    BY <1>1, <1>4 DEF Setting
  <2>2. ASSUME NEW i \in DOMAIN l
        PROVE  (i + 1)..Len(k) \subseteq Adding(k) <=> (i + 1)..Len(l) \subseteq Adding(l)
    <3>1. (i + 1)..Len(k) = ((i + 1)..Len(l)) \cup {Len(k)}
      BY <1>1, <2>2
    <3>2. Len(k) \notin (i + 1)..Len(l)
      BY <1>1
    <3> QED
      BY <1>3, <1>4, <3>1, <3>2
  <2> QED
    BY <1>1, <2>1, <2>2 DEF Setting
<1>5. ASSUME e[1] # "add", NEW i \in Setting(k) PROVE i = Len(k) /\ e[1] = "set"
  <2>1. (i + 1)..Len(k) = {} /\ i \in DOMAIN k /\ k[i][1] = "set"
    BY <1>2, <1>5 DEF Setting
  <2>2. i = Len(k)
    <3>1. i + 1 \notin (i + 1)..Len(k)
      BY <2>1
    <3>2. i \in 1..Len(k) /\ Len(k) \in Nat
      BY <1>1, <2>1
    <3> QED
      BY <3>1, <3>2
  <2> QED
    BY <1>1, <2>1, <2>2
<1>6. ASSUME e[1] = "set" PROVE Len(k) \in Setting(k)
  <2>1. (Len(k) + 1)..Len(k) = {}
    BY <1>1
  <2> QED
    BY <1>1, <1>6, <2>1 DEF Setting
<1> QED
  BY <1>2, <1>3, <1>4, <1>5, <1>6 DEF k

\* What each method does to a mutation that reflects its calls.
LEMMA SetReflects ==
    ASSUME NEW b, NEW m \in Mutation, NEW l \in Seq(Calls), Reflects(b, m, l), NEW v \in Values
    PROVE  Reflects(b, SetX(m, v), Append(l, <<"set", v>>))
<1> DEFINE e == <<"set", v>>
           k == Append(l, e)
           n == SetX(m, v)
<1>1. e \in Calls /\ e[1] = "set" /\ e[2] = v
  BY DEF Calls
<1> HIDE DEF e
<1>2. /\ k[Len(k)] = e
      /\ \A i \in DOMAIN l : i \in DOMAIN k /\ k[i] = l[i]
      /\ \A i \in DOMAIN k : i \in DOMAIN l \/ i = Len(k)
      /\ Adding(k) = {} /\ Setting(k) = {Len(k)}
  BY <1>1, AppendFacts, AppendAsked
<1>3. n.val = v /\ n.add = {} /\ n.cleared = m.cleared
  BY SetFields
<1> HIDE DEF k, n
<1>4. Reflects(b, n, k)
  BY <1>1, <1>2, <1>3 DEF Reflects
<1> QED
  BY <1>4 DEF k, n, e

LEMMA AddReflects ==
    ASSUME NEW b, {b} \in Values, NEW m \in Mutation, NEW l \in Seq(Calls), Reflects(b, m, l)
    PROVE  Reflects(b, AddX(m, {b}), Append(l, <<"add", {b}>>))
<1> DEFINE e == <<"add", {b}>>
           k == Append(l, e)
           n == AddX(m, {b})
<1>1. e \in Calls /\ e[1] = "add" /\ e[2] = {b}
  BY DEF Calls
<1> HIDE DEF e
<1>2. /\ k[Len(k)] = e
      /\ \A i \in DOMAIN l : i \in DOMAIN k /\ k[i] = l[i]
      /\ \A i \in DOMAIN k : i \in DOMAIN l \/ i = Len(k)
      /\ Adding(k) # {} /\ Setting(k) = Setting(l)
  BY <1>1, AppendFacts, AppendAsked
<1>3. n.val = m.val /\ n.add = m.add \cup {b} /\ n.cleared = m.cleared
  BY AddFields
<1> HIDE DEF k, n
<1>4. n.add = {b}
  BY <1>3 DEF Reflects
<1>5. \A i \in Setting(k) : i \in DOMAIN l /\ k[i] = l[i]
  BY <1>2 DEF Setting
<1>6. \A i \in DOMAIN k : k[i][1] = "add" => k[i][2] = {b}
  BY <1>1, <1>2 DEF Reflects
<1>7. (\E i \in DOMAIN k : k[i][1] = "clear") <=> \E i \in DOMAIN l : l[i][1] = "clear"
  BY <1>1, <1>2
<1>8. Reflects(b, n, k)
  BY <1>2, <1>3, <1>4, <1>5, <1>6, <1>7 DEF Reflects
<1> QED
  BY <1>8 DEF k, n, e

LEMMA ClearReflects ==
    ASSUME NEW b, NEW m \in Mutation, NEW l \in Seq(Calls), Reflects(b, m, l)
    PROVE  Reflects(b, ClearX(m), Append(l, <<"clear", {}>>))
<1> DEFINE e == <<"clear", {}>>
           k == Append(l, e)
           n == ClearX(m)
<1>1. e \in Calls /\ e[1] = "clear"
  BY DEF Calls, Values
<1> HIDE DEF e
<1>2. /\ k[Len(k)] = e /\ Len(k) \in DOMAIN k
      /\ \A i \in DOMAIN l : i \in DOMAIN k /\ k[i] = l[i]
      /\ \A i \in DOMAIN k : i \in DOMAIN l \/ i = Len(k)
      /\ Adding(k) = {} /\ Setting(k) = {}
  BY <1>1, AppendFacts, AppendAsked
<1>3. n.val = None /\ n.add = {} /\ n.cleared
  BY ClearFields
<1> HIDE DEF k, n
<1>4. Reflects(b, n, k)
  BY <1>1, <1>2, <1>3 DEF Reflects
<1> QED
  BY <1>4 DEF k, n, e

LEMMA ResetReflects ==
    ASSUME NEW b, NEW m \in Mutation
    PROVE  Reflects(b, ResetX(m), <<>>)
BY ResetFields DEF Reflects, Adding, Setting

\* What the steps below are told of the state.
Following == IInv /\ Counted /\ Followed

LEMMA FollowingTypes ==
    ASSUME Following
    PROVE  /\ bld \in [Builders -> Mutation] /\ log \in [Builders -> Seq(Calls)]
           /\ \A b \in Builders :
                /\ Piece(b, bld[b]) /\ bld[b] \in Mutation /\ log[b] \in Seq(Calls)
                /\ Follows(b, bld[b], log[b], Adds(E, field), Clears(E, field))
BY DEF Following, IInv, Pieces, Followed, Mutation

LEMMA FollowedBy ==
    ASSUME UNCHANGED rigid, log' \in [Builders -> Seq(Calls)],
           \A b \in Builders : Follows(b, bld'[b], log'[b], Adds(E, field), Clears(E, field))
    PROVE  Followed'
<1>1. E' = E /\ field' = field
  BY DEF rigid, E
<1>2. Adds(E, field)' = Adds(E, field) /\ Clears(E, field)' = Clears(E, field)
  BY <1>1 DEF Adds, Clears
<1> QED
  BY <1>2 DEF Followed

\* A step that is no call: only a create's field changes.
Unasked(c) ==
    /\ bld'[c].op = bld[c].op
    /\ bld[c].op # "create" => /\ bld'[c].val = bld[c].val /\ bld'[c].add = bld[c].add
                               /\ bld'[c].cleared = bld[c].cleared

\* No statement of an update-one takes effect.
Idle(c) == bld[c].op = "updateOne" /\ bld[c].at = "hooks" => bld'[c].at # "after"

LEMMA FollowedKept ==
    ASSUME Following, UNCHANGED rigid, log' = log, \A c \in Builders : Unasked(c)
    PROVE  Followed'
<1>1. ASSUME NEW b \in Builders
      PROVE  Follows(b, bld'[b], log'[b], Adds(E, field), Clears(E, field))
  <2>1. Follows(b, bld[b], log[b], Adds(E, field), Clears(E, field)) /\ Unasked(b)
    BY FollowingTypes
  <2> QED
    BY <2>1 DEF Follows, Reflects, Unasked
<1> QED
  BY <1>1, FollowingTypes, FollowedBy

\* A step that changes builder b alone.
LEMMA OneFollowed ==
    ASSUME Following, UNCHANGED rigid, NEW b \in Builders, NEW n, NEW l \in Seq(Calls),
           bld' = [bld EXCEPT ![b] = n], log' = [log EXCEPT ![b] = l],
           Follows(b, n, l, Adds(E, field), Clears(E, field))
    PROVE  Followed'
<1>1. \A c \in Builders : bld'[c] = (IF c = b THEN n ELSE bld[c])
                          /\ log'[c] = (IF c = b THEN l ELSE log[c])
  BY FollowingTypes
<1>2. log' \in [Builders -> Seq(Calls)]
  BY FollowingTypes
<1>3. \A c \in Builders : Follows(c, bld'[c], log'[c], Adds(E, field), Clears(E, field))
  BY <1>1, FollowingTypes
<1> QED
  BY <1>2, <1>3, FollowedBy

\* The callers' Adds and Clears are among those Adds and Clears name.
LEMMA AccessorsNamed ==
    /\ CanAdd => Adds(E, field)
    /\ CanClear => Clears(E, field)
    /\ \A m : m.op = "updateOne" => /\ field \in Api(m).add => Adds(E, field)
                                    /\ field \in Api(m).clear => Clears(E, field)
<1>1. (CanAdd => Adds(E, field)) /\ (CanClear => Clears(E, field))
  BY DEF CanAdd, CanClear, HasAccessor, Adds, Clears
<1>2. ASSUME NEW m, m.op = "updateOne" PROVE Api(m) = E.updateOne.set
  BY <1>2 DEF Api
<1> QED
  BY <1>1, <1>2 DEF Adds, Clears

LEMMA CallsFollowed ==
    ASSUME Following, NEW b \in Builders,
           \/ BuilderSet(b) \/ BuilderAdd(b) \/ BuilderClear(b)
           \/ MutationSet(b) \/ MutationAdd(b) \/ MutationClear(b) \/ MutationReset(b)
    PROVE  Followed'
<1> DEFINE m == bld[b]
           one == m.op = "updateOne"
<1>1. /\ m \in Mutation /\ log[b] \in Seq(Calls)
      /\ one => /\ Reflects(b, m, log[b])
                /\ m.add # {} => Adds(E, field)
                /\ m.cleared => Clears(E, field)
  BY FollowingTypes DEF Follows
<1>2. m.op # None
  BY MarksAssumption DEF BuilderSet, BuilderAdd, BuilderClear, MutationSet, MutationAdd,
                         MutationClear, MutationReset, Mutates, Ops
<1>3. ASSUME NEW n, NEW l \in Seq(Calls), Update(b, n, l), n.op = m.op,
             one => Reflects(b, n, l) /\ (n.add # {} => Adds(E, field))
                                      /\ (n.cleared => Clears(E, field))
      PROVE  Followed'
  <2>1. /\ UNCHANGED rigid /\ bld' = [bld EXCEPT ![b] = n] /\ log' = [log EXCEPT ![b] = l]
    BY <1>3 DEF Update, rigid
  <2>2. Follows(b, n, l, Adds(E, field), Clears(E, field))
    BY <1>2, <1>3 DEF Follows
  <2> QED
    BY <1>3, <2>1, <2>2, OneFollowed
<1>4. ResetX(m) \in Mutation
  BY ResetPiece, FollowingTypes DEF Piece
<1>5. ASSUME NEW v \in Inputs(b), Update(b, SetX(m, v), Append(log[b], <<"set", v>>))
      PROVE  Followed'
  <2> DEFINE n == SetX(m, v)
             l == Append(log[b], <<"set", v>>)
  <2>1. v \in Values
    BY InputsOwned
  <2>2. l \in Seq(Calls)
    BY <1>1, <2>1, AppendFacts DEF Calls
  <2>3. n.add = {} /\ n.cleared = m.cleared /\ n.op = m.op
    BY <1>1, SetFields
  <2>4. one => Reflects(b, n, l)
    BY <1>1, <2>1, SetReflects
  <2> HIDE DEF n, l
  <2> QED
    BY <1>1, <1>3, <1>5, <2>2, <2>3, <2>4 DEF n, l
<1>6. ASSUME NEW v \in Inputs(b), Update(b, SetX(ResetX(m), v), <<<<"set", v>>>>)
      PROVE  Followed'
  <2> DEFINE n == SetX(ResetX(m), v)
             l == Append(<<>>, <<"set", v>>)
  <2>1. v \in Values
    BY InputsOwned
  <2>2. l \in Seq(Calls) /\ l = <<<<"set", v>>>>
    <3>1. <<"set", v>> \in Calls
      BY <2>1 DEF Calls
    <3> DEFINE e == <<"set", v>>
    <3> HIDE DEF e
    <3>2. Append(<<>>, e) = <<e>> /\ (e \in Calls => <<e>> \in Seq(Calls))
      OBVIOUS
    <3> QED
      BY <3>1, <3>2 DEF e
  <2>3. n.add = {} /\ ~ n.cleared /\ n.op = m.op
    BY <1>1, <1>4, SetFields, ResetFields
  <2>4. Reflects(b, n, l)
    <3> DEFINE z == <<>>
               k == ResetX(m)
    <3>1. z \in Seq(Calls)
      OBVIOUS
    <3>2. Reflects(b, k, z)
      BY <1>1, ResetReflects
    <3> HIDE DEF z, k
    <3>3. Reflects(b, SetX(k, v), Append(z, <<"set", v>>))
      BY <1>4, <2>1, <3>1, <3>2, SetReflects DEF k
    <3> QED
      BY <3>3 DEF z, k
  <2>5. Update(b, n, l)
    BY <1>6, <2>2
  <2> HIDE DEF n, l
  <2> QED
    BY <1>3, <2>2, <2>3, <2>4, <2>5
<1>7. CASE BuilderSet(b) \/ MutationSet(b)
  BY <1>5, <1>6, <1>7 DEF BuilderSet, MutationSet
<1>8. CASE BuilderAdd(b) \/ MutationAdd(b)
  <2> DEFINE n == AddX(m, {b})
             l == Append(log[b], <<"add", {b}>>)
  <2>1. Update(b, n, l) /\ (one => Adds(E, field))
    BY <1>8, AccessorsNamed DEF BuilderAdd, MutationAdd
  <2>2. {b} \in Values
    BY DEF Values
  <2>3. l \in Seq(Calls)
    BY <1>1, <2>2, AppendFacts DEF Calls
  <2>4. n.cleared = m.cleared /\ n.op = m.op
    BY <1>1, AddFields
  <2>5. one => Reflects(b, n, l)
    BY <1>1, <2>2, AddReflects
  <2> HIDE DEF n, l
  <2> QED
    BY <1>1, <1>3, <2>1, <2>3, <2>4, <2>5
<1>9. CASE BuilderClear(b) \/ MutationClear(b)
  <2> DEFINE n == ClearX(m)
             l == Append(log[b], <<"clear", {}>>)
  <2>1. Update(b, n, l) /\ (one => Clears(E, field))
    BY <1>9, AccessorsNamed DEF BuilderClear, MutationClear
  <2>2. {} \in Values
    BY DEF Values
  <2>3. l \in Seq(Calls)
    BY <1>1, <2>2, AppendFacts DEF Calls
  <2>4. n.add = {} /\ n.op = m.op
    BY <1>1, ClearFields
  <2>5. one => Reflects(b, n, l)
    BY <1>1, ClearReflects
  <2> HIDE DEF n, l
  <2> QED
    BY <1>1, <1>3, <2>1, <2>3, <2>4, <2>5
<1>10. CASE MutationReset(b)
  <2> DEFINE n == ResetX(m)
  <2>1. Update(b, n, <<>>) /\ <<>> \in Seq(Calls)
    BY <1>10 DEF MutationReset
  <2>2. n.add = {} /\ ~ n.cleared /\ n.op = m.op
    BY <1>1, ResetFields
  <2>3. Reflects(b, n, <<>>)
    BY <1>1, ResetReflects
  <2> HIDE DEF n
  <2> QED
    BY <1>3, <2>1, <2>2, <2>3
<1> QED
  BY <1>7, <1>8, <1>9, <1>10

LEMMA NewBuilderFollowed ==
    ASSUME Following, NEW b \in Builders, NewBuilder(b)
    PROVE  Followed'
<1>1. PICK op \in Ops, id \in Ids, node \in BOOLEAN :
         bld' = [bld EXCEPT ![b] =
               [Blank EXCEPT !.op = op,
                             !.id = IF op \in {"updateOne", "deleteOne"} THEN id ELSE None,
                             !.old = IF node THEN rows[id] ELSE Unread]]
  BY DEF NewBuilder
<1> DEFINE i == IF op \in {"updateOne", "deleteOne"} THEN id ELSE None
           o == IF node THEN rows[id] ELSE Unread
           n == [Blank EXCEPT !.op = op, !.id = i, !.old = o]
<1>2. bld' = [bld EXCEPT ![b] = n]
  BY <1>1, Zenon
<1> HIDE DEF i, o
<1>3. n.val = None /\ n.add = {} /\ ~ n.cleared /\ n.op = op
  BY DEF Blank
<1>4. UNCHANGED rigid /\ log' = log /\ bld[b].op = None
  BY DEF NewBuilder
<1> HIDE DEF n
<1>5. log[b] = <<>> /\ log[b] \in Seq(Calls) /\ log' = [log EXCEPT ![b] = log[b]]
  BY <1>4, FollowingTypes DEF Follows
<1>6. Follows(b, n, log[b], Adds(E, field), Clears(E, field))
  <2>1. Reflects(b, n, <<>>)
    BY <1>3 DEF Reflects, Adding, Setting
  <2> QED
    BY <1>3, <1>5, <2>1, MarksAssumption DEF Follows
<1> QED
  BY <1>2, <1>3, <1>4, <1>5, <1>6, OneFollowed

LEMMA SameUnasked ==
    ASSUME NEW c, bld'[c] = bld[c]
    PROVE  Unasked(c) /\ Idle(c)
BY DEF Unasked, Idle

LEMMA OldXFollowed ==
    ASSUME Following, NEW b \in Builders, OldX(b)
    PROVE  Followed' /\ \A c \in Builders : Idle(c)
<1>1. PICK v : bld' = [bld EXCEPT ![b].old = v]
  BY DEF OldX
<1>2. UNCHANGED rigid /\ log' = log
  BY DEF OldX
<1>3. ASSUME NEW c \in Builders PROVE Unasked(c) /\ Idle(c)
  <2> DEFINE n == [bld[c] EXCEPT !.old = v]
  <2>1. bld'[c] = n \/ bld'[c] = bld[c]
    BY <1>1, FollowingTypes
  <2>2. SamePointers(bld[c], n) /\ n.at = bld[c].at
    BY OldFields, FollowingTypes
  <2> HIDE DEF n
  <2>3. CASE bld'[c] = n
    BY <2>2, <2>3 DEF Unasked, Idle, SamePointers
  <2> QED
    BY <2>1, <2>3, SameUnasked
<1> QED
  BY <1>2, <1>3, FollowedKept

LEMMA SaveFollowed ==
    ASSUME Following, NEW b \in Builders, Save(b)
    PROVE  Followed' /\ \A c \in Builders : Idle(c)
<1> DEFINE d == IF bld[b].op = "create" THEN defaults(bld[b]) ELSE bld[b]
           n == Placed(d, "hooks", None)
<1>1. bld' = [bld EXCEPT ![b] = n] /\ UNCHANGED rigid /\ log' = log
  BY DEF Save, Placed
<1>2. /\ d \in Mutation /\ d.op = bld[b].op
      /\ bld[b].op # "create" => d = bld[b]
  BY DefaultsPiece, FollowingTypes DEF Piece, Alike
<1> HIDE DEF d
<1>3. SamePointers(d, n) /\ n.at = "hooks"
  BY <1>2, PlacedFields
<1> HIDE DEF n
<1>4. ASSUME NEW c \in Builders PROVE Unasked(c) /\ Idle(c)
  <2>1. CASE c = b
    <3>1. bld'[c] = n
      BY <1>1, <2>1, FollowingTypes
    <3> QED
      BY <1>2, <1>3, <2>1, <3>1 DEF Unasked, Idle, SamePointers
  <2>2. CASE c # b
    <3>1. bld'[c] = bld[c]
      BY <1>1, <2>2, FollowingTypes
    <3> QED
      BY <3>1, SameUnasked
  <2> QED
    BY <2>1, <2>2
<1> QED
  BY <1>1, <1>4, FollowedKept

LEMMA SaveBulkFollowed ==
    ASSUME Following, NEW b \in Builders, NEW c \in Builders, SaveBulk(b, c)
    PROVE  Followed' /\ \A x \in Builders : Idle(x)
<1> DEFINE n == Placed(defaults(bld[b]), "hooks", c)
           k == Placed(defaults(bld[c]), "queued", None)
<1>1. /\ bld' = [bld EXCEPT ![b] = n, ![c] = k] /\ UNCHANGED rigid /\ log' = log
      /\ b # c /\ bld[b].op = "create" /\ bld[c].op = "create"
  BY DEF SaveBulk, Placed
<1>2. \A x \in Builders : defaults(bld[x]) \in Mutation /\ defaults(bld[x]).op = bld[x].op
  BY DefaultsPiece, FollowingTypes DEF Piece, Alike
<1>3. n.op = "create" /\ k.op = "create"
  BY <1>1, <1>2, PlacedFields DEF SamePointers
<1> HIDE DEF n, k
<1>4. ASSUME NEW x \in Builders PROVE Unasked(x) /\ Idle(x)
  <2>1. bld'[x] = IF x = c THEN k ELSE IF x = b THEN n ELSE bld[x]
    BY <1>1, FollowingTypes
  <2>2. CASE x \in {b, c}
    BY <1>1, <1>3, <2>1, <2>2 DEF Unasked, Idle
  <2>3. CASE x \notin {b, c}
    BY <2>1, <2>3, SameUnasked
  <2> QED
    BY <2>2, <2>3
<1> QED
  BY <1>1, <1>4, FollowedKept

\* The end of a Save changes neither a builder's field nor its kind.
LEMMA ReportFollowed ==
    ASSUME Following, UNCHANGED rigid, log' = log, NEW b \in Builders, NEW r, Report(b, r)
    PROVE  Followed' /\ \A c \in Builders : Idle(c)
<1>1. ASSUME NEW c \in Builders PROVE Unasked(c) /\ Idle(c)
  <2> DEFINE f == Finished(bld[c], r)
  <2>1. bld'[c] = f \/ bld'[c] = bld[c]
    BY DEF Report
  <2>2. /\ f.val = bld[c].val /\ f.add = bld[c].add /\ f.cleared = bld[c].cleared
        /\ f.op = bld[c].op /\ f.at = "build"
    BY FinishedFields, FollowingTypes
  <2> HIDE DEF f
  <2>3. CASE bld'[c] = f
    BY <2>2, <2>3 DEF Unasked, Idle
  <2> QED
    BY <2>1, <2>3, SameUnasked
<1> QED
  BY <1>1, FollowedKept

\* A statement changes at most where its builder is.
LEMMA StatementFollowed ==
    ASSUME Following, UNCHANGED rigid, log' = log, NEW b \in Builders, NEW new,
           Statement(b, new)
    PROVE  /\ Followed'
           /\ \A c \in Builders \ {b} : Idle(c)
           /\ Idle(b) \/ rows' = new
<1>1. CASE rows' = new /\ bld' = [bld EXCEPT ![b].at = "after", ![b].done = TRUE]
  <2> DEFINE n == Effective(bld[b])
  <2>1. bld' = [bld EXCEPT ![b] = n]
    BY <1>1, FollowingTypes DEF Effective, Mutation
  <2>2. SamePointers(bld[b], n)
    BY FollowingTypes, EffectiveFields
  <2> HIDE DEF n
  <2>3. bld'[b] = n /\ \A c \in Builders \ {b} : bld'[c] = bld[c]
    BY <2>1, FollowingTypes
  <2>4. Unasked(b)
    BY <2>2, <2>3 DEF Unasked, SamePointers
  <2> QED
    BY <1>1, <2>3, <2>4, SameUnasked, FollowedKept
<1>2. ASSUME NEW r, Report(b, r)
      PROVE  Followed' /\ \A c \in Builders : Idle(c)
  BY <1>2, ReportFollowed
<1> QED
  BY <1>1, <1>2 DEF Statement

\* A create leaves builders of other kinds where they are.
LEMMA CreateFollowed ==
    ASSUME Following, NEW b \in Builders, sqlSaveCreate(b)
    PROVE  Followed' /\ \A c \in Builders : Idle(c)
<1>1. bld[b].op = "create" /\ UNCHANGED rigid /\ log' = log
  BY DEF sqlSaveCreate
<1>2. ASSUME bld[b].chain # None, Await(b)
      PROVE  Followed' /\ \A c \in Builders : Idle(c)
  <2>1. ASSUME NEW c \in Builders PROVE Unasked(c) /\ Idle(c)
    BY <1>2, AwaitFields DEF Following, Unasked, Idle
  <2> QED
    BY <1>1, <2>1, FollowedKept
<1>3. ASSUME Insert(b)
      PROVE  Followed' /\ \A c \in Builders : Idle(c)
  <2>1. PICK new : Statement(b, new)
    BY <1>3 DEF Insert
  <2>2. Idle(b)
    BY <1>1 DEF Idle
  <2> QED
    BY <1>1, <2>1, <2>2, StatementFollowed
<1> QED
  BY <1>1, <1>2, <1>3, ReportFollowed DEF sqlSaveCreate

\* An update-one whose statement takes effect, as LastCallsShow states it.
CallsKept(b) ==
    LET m == bld[b] IN
    (m.op = "updateOne" /\ m.at = "hooks" /\ bld'[b].at = "after")
    => rows'[m.id] \in Asked(log[b], rows[m.id])

\* What the UPDATE of a mutation that reflects its calls leaves in the row.
LEMMA OutcomeAsked ==
    ASSUME Following, NEW b \in Builders, bld[b].op = "updateOne",
           NEW old \in Values \cup {Null}, NEW v \in Outcomes(bld[b], old)
    PROVE  v \in Asked(log[b], old)
<1> DEFINE m == bld[b]
           l == log[b]
           was == IF old = Null THEN {} ELSE old
<1>1. /\ Reflects(b, m, l) /\ l \in Seq(Calls)
      /\ m.add # {} => Adds(E, field)
      /\ m.cleared => Clears(E, field)
  BY FollowingTypes DEF Follows
<1>2. Complete(E) /\ field \in E.columns
  BY AllComplete DEF Following, Counted, E
<1>3. /\ field \in E.updateOne.spec.set
      /\ m.add # {} => field \in E.updateOne.spec.add
      /\ m.cleared => field \in E.updateOne.spec.clear
  BY <1>1, <1>2 DEF Complete
<1>4. Assignments(m, old) = (IF m.val # None THEN {m.val} ELSE {})
                            \cup (IF m.add # {} THEN {was \cup m.add} ELSE {})
                            \cup (IF m.cleared THEN {Null} ELSE {})
  BY <1>3 DEF Assignments
<1>5. \A i \in DOMAIN l : l[i][2] \in Values
  BY <1>1 DEF Calls
<1>6. None \notin Values
  BY MarksAssumption DEF Marks
<1>7. Outcomes(m, old) = IF Assignments(m, old) = {} THEN {old} ELSE Assignments(m, old)
  BY DEF Outcomes
<1> DEFINE values == {l[i][2] : i \in Setting(l)}
                     \cup (IF Adding(l) = {} THEN {}
                           ELSE {was \cup UNION {l[i][2] : i \in Adding(l)}})
                     \cup (IF \E i \in DOMAIN l : l[i][1] = "clear" THEN {Null} ELSE {})
<1>8. Asked(l, old) = IF values = {} THEN {old} ELSE values
  BY DEF Asked, Adding, Setting
<1> HIDE DEF m, l, was
<1>9. {l[i][2] : i \in Setting(l)} = IF m.val # None THEN {m.val} ELSE {}
  <2>1. CASE Setting(l) = {}
    BY <1>1, <2>1 DEF Reflects
  <2>2. CASE Setting(l) # {}
    <3>1. \A i \in Setting(l) : m.val = l[i][2] /\ m.val # None
      BY <1>1, <1>5, <1>6 DEF Reflects, Setting
    <3> QED
      BY <2>2, <3>1
  <2> QED
    BY <2>1, <2>2
<1>10. Adding(l) # {} => m.add = {b} /\ UNION {l[i][2] : i \in Adding(l)} = {b}
  <2> SUFFICES ASSUME Adding(l) # {}
               PROVE  m.add = {b} /\ UNION {l[i][2] : i \in Adding(l)} = {b}
    OBVIOUS
  <2>1. ASSUME NEW i \in Adding(l) PROVE l[i][2] = {b}
    <3>1. i \in DOMAIN l /\ i \in i..Len(l)
      BY <1>1, <2>1 DEF Adding
    <3> QED
      BY <1>1, <2>1, <3>1 DEF Adding, Reflects
  <2>2. {l[i][2] : i \in Adding(l)} = {{b}}
    BY <2>1
  <2>3. m.add = {b}
    BY <1>1 DEF Reflects
  <2> QED
    BY <2>2, <2>3
<1>11. Adding(l) = {} => m.add = {}
  BY <1>1 DEF Reflects
<1>12. m.cleared <=> \E i \in DOMAIN l : l[i][1] = "clear"
  BY <1>1 DEF Reflects
<1>13. values = Assignments(m, old)
  <2>1. (IF Adding(l) = {} THEN {} ELSE {was \cup UNION {l[i][2] : i \in Adding(l)}})
        = (IF m.add # {} THEN {was \cup m.add} ELSE {})
    BY <1>10, <1>11
  <2>2. (IF \E i \in DOMAIN l : l[i][1] = "clear" THEN {Null} ELSE {})
        = (IF m.cleared THEN {Null} ELSE {})
    BY <1>12
  <2> QED
    BY <1>4, <1>9, <2>1, <2>2
<1> HIDE DEF values
<1> QED
  BY <1>7, <1>8, <1>13 DEF m, l

LEMMA UpdateFollowed ==
    ASSUME Following, NEW b \in Builders, sqlSaveUpdate(b)
    PROVE  Followed' /\ CallsKept(b) /\ \A c \in Builders \ {b} : Idle(c)
<1> DEFINE m == bld[b]
           allowed == IF m.op = "update" THEN Live ELSE Live \cap {m.id}
<1>0. UNCHANGED rigid /\ log' = log
  BY DEF sqlSaveUpdate
<1>i. Idle(b) => CallsKept(b)
  BY DEF Idle, CallsKept
<1>1. ASSUME NEW r, Report(b, r)
      PROVE  Followed' /\ CallsKept(b) /\ \A c \in Builders \ {b} : Idle(c)
  BY <1>0, <1>1, <1>i, ReportFollowed
<1>2. ASSUME NEW hit \in SUBSET allowed, m.op = "updateOne" => hit # {},
             NEW new \in [Ids -> (UNION {Outcomes(m, rows[i]) : i \in hit})
                                              \cup {rows[i] : i \in Ids}],
             \A i \in Ids : IF i \in hit THEN new[i] \in Outcomes(m, rows[i])
                                          ELSE new[i] = rows[i],
             Statement(b, new)
      PROVE  Followed' /\ CallsKept(b) /\ \A c \in Builders \ {b} : Idle(c)
  <2>1. Followed' /\ (\A c \in Builders \ {b} : Idle(c)) /\ (Idle(b) \/ rows' = new)
    BY <1>0, <1>2, StatementFollowed
  <2>2. ASSUME m.op = "updateOne", rows' = new
        PROVE  rows'[m.id] \in Asked(log[b], rows[m.id])
    <3>1. m.id \in hit /\ m.id \in Ids /\ rows[m.id] # None
      BY <1>2, <2>2 DEF Live
    <3>2. rows[m.id] \in Values \cup {Null} /\ new[m.id] \in Outcomes(m, rows[m.id])
      BY <1>2, <3>1 DEF Following, IInv, Column
    <3> QED
      BY <2>2, <3>2, OutcomeAsked
  <2>3. rows' = new => CallsKept(b)
    BY <2>2 DEF CallsKept
  <2> QED
    BY <1>i, <2>1, <2>3
<1> QED
  BY <1>1, <1>2 DEF sqlSaveUpdate

LEMMA DeleteFollowed ==
    ASSUME Following, NEW b \in Builders, sqlExecDelete(b)
    PROVE  Followed' /\ \A c \in Builders : Idle(c)
<1>1. UNCHANGED rigid /\ log' = log
  BY DEF sqlExecDelete
<1>2. bld[b].op \in {"delete", "deleteOne"} /\ \A c \in Builders \ {b} : bld'[c] = bld[c]
  BY DeleteFields DEF Following
<1>3. PICK m \in Mutation :
         /\ SamePointers(bld[b], m)
         /\ bld'[b] = Effective(bld[b]) \/ \E r : bld'[b] = Finished(m, r)
  BY DeleteFields DEF Following
<1>4. SamePointers(bld[b], Effective(bld[b]))
  BY EffectiveFields, FollowingTypes
<1>5. Unasked(b) /\ Idle(b)
  <2>1. CASE bld'[b] = Effective(bld[b])
    BY <1>2, <1>4, <2>1 DEF Unasked, Idle, SamePointers
  <2>2. ASSUME NEW r, bld'[b] = Finished(m, r) PROVE Unasked(b) /\ Idle(b)
    <3> DEFINE f == Finished(m, r)
    <3>1. /\ f.val = m.val /\ f.add = m.add /\ f.cleared = m.cleared /\ f.op = m.op
      BY FinishedFields
    <3>2. bld'[b] = f
      BY <2>2
    <3> HIDE DEF f
    <3> QED
      BY <1>2, <1>3, <3>1, <3>2 DEF Unasked, Idle, SamePointers
  <2> QED
    BY <1>3, <2>1, <2>2
<1>6. ASSUME NEW c \in Builders PROVE Unasked(c) /\ Idle(c)
  BY <1>2, <1>5, SameUnasked
<1> QED
  BY <1>1, <1>6, FollowedKept

\* The hooks after the statement, and those that fail.
LEMMA HooksFollowed ==
    ASSUME Following, NEW b \in Builders, HookFails(b) \/ Return(b)
    PROVE  Followed' /\ \A c \in Builders : Idle(c)
<1>1. UNCHANGED rigid /\ log' = log
  BY DEF HookFails, Return
<1>2. ASSUME NEW r, Report(b, r) PROVE Followed' /\ \A c \in Builders : Idle(c)
  BY <1>1, <1>2, ReportFollowed
<1>3. CASE \A c \in Builders : /\ SamePointers(bld[c], bld'[c])
                               /\ bld'[c].at = bld[c].at \/ (bld[c].at # "hooks")
  <2>1. ASSUME NEW c \in Builders PROVE Unasked(c) /\ Idle(c)
    BY <1>3 DEF Unasked, Idle, SamePointers
  <2> QED
    BY <1>1, <2>1, FollowedKept
<1>4. CASE HookFails(b)
  BY <1>2, <1>4 DEF HookFails
<1>5. CASE Return(b)
  BY <1>2, <1>3, <1>5, ReturnFields DEF Following
<1> QED
  BY <1>4, <1>5

\* A call on a builder leaves its Save where it is.
LEMMA CallsStay ==
    ASSUME Following, NEW b \in Builders,
           \/ BuilderSet(b) \/ BuilderAdd(b) \/ BuilderClear(b)
           \/ MutationSet(b) \/ MutationAdd(b) \/ MutationClear(b) \/ MutationReset(b),
           NEW c \in Builders
    PROVE  bld'[c].at = bld[c].at
<1>1. bld \in [Builders -> Mutation] /\ bld[b] \in Mutation /\ ResetX(bld[b]) \in Mutation
  BY FollowingTypes, ResetPiece DEF Piece
<1>2. ASSUME NEW n, NEW l, Update(b, n, l), n.at = bld[b].at
      PROVE  bld'[c].at = bld[c].at
  BY <1>1, <1>2 DEF Update
<1>3. \A v : SetX(bld[b], v).at = bld[b].at /\ SetX(ResetX(bld[b]), v).at = bld[b].at
             /\ AddX(bld[b], v).at = bld[b].at
  BY <1>1, SetFields, AddFields, ResetFields
<1>4. ClearX(bld[b]).at = bld[b].at /\ ResetX(bld[b]).at = bld[b].at
  BY <1>1, ClearFields, ResetFields
<1>5. CASE BuilderSet(b) \/ MutationSet(b)
  <2>1. PICK v : \E l : Update(b, SetX(bld[b], v), l) \/ Update(b, SetX(ResetX(bld[b]), v), l)
    BY <1>5 DEF BuilderSet, MutationSet
  <2> QED
    BY <1>2, <1>3, <2>1
<1>6. CASE BuilderAdd(b) \/ MutationAdd(b)
  <2>1. \E l : Update(b, AddX(bld[b], {b}), l)
    BY <1>6 DEF BuilderAdd, MutationAdd
  <2> QED
    BY <1>2, <1>3, <2>1
<1>7. CASE BuilderClear(b) \/ MutationClear(b) \/ MutationReset(b)
  <2>1. \E l : Update(b, ClearX(bld[b]), l) \/ Update(b, ResetX(bld[b]), l)
    BY <1>7 DEF BuilderClear, MutationClear, MutationReset
  <2> QED
    BY <1>2, <1>4, <2>1
<1> QED
  BY <1>5, <1>6, <1>7

LEMMA FollowedStep ==
    ASSUME Following, [Next]_vars
    PROVE  Followed' /\ \A b \in Builders : CallsKept(b)
<1>1. ASSUME \A b \in Builders : Idle(b)
      PROVE  \A b \in Builders : CallsKept(b)
  BY <1>1 DEF CallsKept, Idle
<1>2. CASE init \/ UNCHANGED vars
  <2>1. /\ bld' = bld /\ log' = log /\ entity' = entity /\ field' = field
    BY <1>2 DEF init, vars
  <2>2. E' = E
    BY <2>1 DEF E
  <2>3. Adds(E, field)' = Adds(E, field) /\ Clears(E, field)' = Clears(E, field)
    BY <2>1, <2>2 DEF Adds, Clears
  <2> QED
    BY <1>1, <2>1, <2>3 DEF Following, Followed, Idle
<1>3. ASSUME NEW b \in Builders, NewBuilder(b)
      PROVE  Followed' /\ \A c \in Builders : CallsKept(c)
  <2>1. bld[b].op = None /\ \A c \in Builders \ {b} : bld'[c] = bld[c]
    BY <1>3, FollowingTypes DEF NewBuilder
  <2>2. None # "updateOne"
    BY MarksAssumption DEF Ops
  <2>3. \A c \in Builders : Idle(c)
    BY <2>1, <2>2 DEF Idle
  <2> QED
    BY <1>1, <1>3, <2>3, NewBuilderFollowed
<1>4. ASSUME NEW b \in Builders,
             \/ BuilderSet(b) \/ BuilderAdd(b) \/ BuilderClear(b)
             \/ MutationSet(b) \/ MutationAdd(b) \/ MutationClear(b) \/ MutationReset(b)
      PROVE  Followed' /\ \A c \in Builders : CallsKept(c)
  <2>1. \A c \in Builders : Idle(c)
    BY <1>4, CallsStay DEF Idle
  <2> QED
    BY <1>1, <1>4, <2>1, CallsFollowed
<1>5. ASSUME NEW b \in Builders, OldX(b) \/ Save(b) \/ \E c \in Builders : SaveBulk(b, c)
      PROVE  Followed' /\ \A c \in Builders : CallsKept(c)
  BY <1>1, <1>5, OldXFollowed, SaveFollowed, SaveBulkFollowed
<1>6. ASSUME NEW b \in Builders,
             sqlSaveCreate(b) \/ sqlExecDelete(b) \/ HookFails(b) \/ Return(b)
      PROVE  Followed' /\ \A c \in Builders : CallsKept(c)
  BY <1>1, <1>6, CreateFollowed, DeleteFollowed, HooksFollowed
<1>7. ASSUME NEW b \in Builders, sqlSaveUpdate(b)
      PROVE  Followed' /\ \A c \in Builders : CallsKept(c)
  <2>1. ASSUME NEW c \in Builders PROVE CallsKept(c)
    BY <1>7, UpdateFollowed DEF CallsKept, Idle
  <2> QED
    BY <1>7, <2>1, UpdateFollowed
<1> QED
  BY <1>2, <1>3, <1>4, <1>5, <1>6, <1>7 DEF Next

LEMMA FollowedInit == Init => Followed
<1> SUFFICES ASSUME Init PROVE Followed
  OBVIOUS
<1>1. /\ bld = [b \in Builders |-> Blank] /\ log = [b \in Builders |-> <<>>]
  BY DEF Init
<1>2. Blank.op = None /\ None # "updateOne"
  BY MarksAssumption DEF Blank, Ops
<1>3. log \in [Builders -> Seq(Calls)]
  BY <1>1
<1>4. \A b \in Builders : Follows(b, bld[b], log[b], Adds(E, field), Clears(E, field))
  BY <1>1, <1>2 DEF Follows
<1> QED
  BY <1>3, <1>4 DEF Followed

\* The update builders' setters and sqlSave: an update-one whose statement takes
\* effect leaves in the row one of the outcomes its calls ask for, for every
\* sequence of Set, Add, Clear and Reset by caller and hooks in any order, on every
\* field of the six entities. After a Set, then Adds, or a lone Clear there is one
\* such outcome or, for a Set followed by Adds, two; a Clear that a Set or an Add
\* follows is still one of them, since the mutation keeps its cleared mark.
THEOREM LastCallsAlwaysShow == Spec => LastCallsShow
<1>1. Init => IInv /\ Counted /\ Followed
  BY InitIInv, InitCounted, FollowedInit
<1>2. IInv /\ Counted /\ Followed /\ [Next]_vars => (IInv /\ Counted /\ Followed)'
  BY NextIInv, NextCounted, FollowedStep DEF Following
<1>3. IInv /\ Counted /\ Followed /\ [Next]_vars =>
         [\A b \in Builders :
             LET m == bld[b] IN
             (m.op = "updateOne" /\ m.at = "hooks" /\ bld'[b].at = "after")
             => rows'[m.id] \in Asked(log[b], rows[m.id])]_vars
  BY FollowedStep DEF Following, CallsKept
<1> QED
  BY <1>1, <1>2, <1>3, PTL DEF Spec, LastCallsShow
=============================================================================
