--------------------------- MODULE RegistryProofs ---------------------------
(***************************************************************************)
(* Proofs about Registry, for any number of processes, sources and         *)
(* versions of the file, and without a bound on syncs and migrations:      *)
(* type correctness with the CHECK on kind, the refinement of SourceTable, *)
(* SyncMirrors and RowsUsable.                                             *)
(***************************************************************************)
EXTENDS Registry, FiniteSetTheorems, TLAPS

(***************************************************************************)
(* Rows.                                                                   *)
(***************************************************************************)
\* A row with all its columns.
IsRow(r) == r = [c \in Columns |-> r[c]]

LEMMA FileRows ==
  ASSUME NEW spec
  PROVE  /\ IsRow(Row(spec)) /\ DOMAIN Row(spec) = Columns
         /\ Row(spec).kind = spec.kind /\ Row(spec).params = spec.params
         /\ Row(spec).rest = spec.rest /\ Row(spec).active = spec.active
BY DEF IsRow, Row, Table!Row, Columns

LEMMA RowDomain == ASSUME NEW r, IsRow(r) PROVE DOMAIN r = Columns
BY DEF IsRow

LEMMA RowsEqual ==
  ASSUME NEW r, NEW s, IsRow(r), IsRow(s), \A c \in Columns : r[c] = s[c]
  PROVE  r = s
BY DEF IsRow

\* A file has one entry per id.
LEMMA OneSpec ==
  ASSUME NEW f \in Files, NEW id
  PROVE  /\ id \in Listed(f) => /\ SpecOf(f, id).id = id /\ Table!SpecsOf(f, id) = {SpecOf(f, id)}
                                /\ Usable(SpecOf(f, id).kind, SpecOf(f, id).params)
                                /\ id \in Ids
         /\ id \notin Listed(f) => Table!SpecsOf(f, id) = {}
<1>1. ASSUME id \in Listed(f)
      PROVE  /\ Place(f, id) \in DOMAIN f /\ f[Place(f, id)].id = id
             /\ \A i \in DOMAIN f : f[i].id = id => i = Place(f, id)
  BY <1>1, RegistryConstants DEF Listed, Place
<1>2. ASSUME id \in Listed(f)
      PROVE  /\ SpecOf(f, id).id = id /\ Table!SpecsOf(f, id) = {SpecOf(f, id)}
             /\ Usable(SpecOf(f, id).kind, SpecOf(f, id).params)
             /\ id \in Ids
  BY <1>1, <1>2, RegistryConstants DEF SpecOf, Table!SpecsOf
<1>3. ASSUME id \notin Listed(f) PROVE Table!SpecsOf(f, id) = {}
  BY <1>3 DEF Listed, Table!SpecsOf
<1> QED BY <1>2, <1>3

\* What a statement may write to a row.
LEMMA Targets ==
  ASSUME NEW f, NEW id
  PROVE  /\ id \in Listed(f) => /\ Target(f, id) = Row(SpecOf(f, id))
                                /\ DOMAIN Target(f, id) = Columns
         /\ id \notin Listed(f) => /\ DOMAIN Target(f, id) = {"active"}
                                   /\ Target(f, id)["active"] = FALSE
         /\ DOMAIN Target(f, id) \subseteq Columns
<1>1. CASE id \in Listed(f)
  BY <1>1, FileRows DEF Target
<1>2. CASE id \notin Listed(f)
  BY <1>2 DEF Target, Columns
<1> QED BY <1>1, <1>2

LEMMA OverlayRow ==
  ASSUME NEW columns, NEW row, DOMAIN columns \cup DOMAIN row = Columns
  PROVE  IsRow(Overlay(columns, row))
BY DEF IsRow, Overlay

\* A transaction sees the committed rows with its columns over them.
LEMMA SeenRows ==
  ASSUME NEW a
  PROVE  /\ DOMAIN Seen(a) = DOMAIN rows \cup DOMAIN tx[a]
         /\ \A id \in DOMAIN rows \cap DOMAIN tx[a] : Seen(a)[id] = Overlay(tx[a][id], rows[id])
         /\ \A id \in DOMAIN rows \ DOMAIN tx[a] : IsRow(rows[id]) => Seen(a)[id] = rows[id]
         /\ \A id \in DOMAIN tx[a] \ DOMAIN rows : Seen(a)[id] = Overlay(tx[a][id], << >>)
<1>1. DOMAIN Seen(a) = DOMAIN rows \cup DOMAIN tx[a]
  BY DEF Seen
<1>2. ASSUME NEW id \in DOMAIN rows \cap DOMAIN tx[a] PROVE Seen(a)[id] = Overlay(tx[a][id], rows[id])
  BY <1>2 DEF Seen
<1>3. ASSUME NEW id \in DOMAIN tx[a] \ DOMAIN rows PROVE Seen(a)[id] = Overlay(tx[a][id], << >>)
  BY <1>3 DEF Seen
<1>4. ASSUME NEW id \in DOMAIN rows \ DOMAIN tx[a], IsRow(rows[id]) PROVE Seen(a)[id] = rows[id]
  <2>1. Seen(a)[id] = Overlay(<< >>, rows[id])
    BY <1>4 DEF Seen
  <2>2. IsRow(Seen(a)[id])
    BY <1>4, <2>1, OverlayRow, RowDomain
  <2>3. DOMAIN rows[id] = Columns
    BY <1>4, RowDomain
  <2>4. \A c \in Columns : Seen(a)[id][c] = rows[id][c]
    BY <2>1, <2>3 DEF Overlay
  <2> QED BY <1>4, <2>2, <2>4, RowsEqual
<1> QED BY <1>1, <1>2, <1>3, <1>4
-----------------------------------------------------------------------------
(***************************************************************************)
(* The inductive invariant.                                                *)
(***************************************************************************)
Writes == [id : Ids, insert : BOOLEAN, columns : SUBSET Columns]
Steps == Writes \cup [id : Ids]

Types ==
  /\ revision \in {2, 3} /\ DOMAIN rows \subseteq Ids
  /\ rows = [id \in DOMAIN rows |-> rows[id]] /\ \A id \in DOMAIN rows : IsRow(rows[id])
  /\ pc \in [Actors -> {"idle", "flush", "convert", "alter", "altered"}]
  /\ file \in [Procs -> Files \cup {<< >>}]
  /\ todo \in [Actors -> Seq(Steps)]
  /\ tx = [a \in Actors |-> tx[a]] /\ \A a \in Actors : DOMAIN tx[a] \subseteq Ids
  /\ alone \in [Procs -> BOOLEAN] /\ torn \in BOOLEAN

\* What is left of a flush, and what it wrote, is what the file says of stored
\* rows, and all of it for rows that are not stored.
ToDo(p) ==
  \A i \in DOMAIN todo[p] :
    LET s == todo[p][i]
    IN  /\ s \in Writes
        /\ IF s.insert THEN s.id \in Listed(file[p]) /\ s.columns = Columns
           ELSE s.id \in DOMAIN rows /\ s.columns \subseteq DOMAIN Target(file[p], s.id)

Written(p) ==
  \A id \in DOMAIN tx[p] :
    /\ DOMAIN tx[p][id] \subseteq DOMAIN Target(file[p], id)
    /\ \A c \in DOMAIN tx[p][id] : tx[p][id][c] = Target(file[p], id)[c]
    /\ "kind" \in DOMAIN tx[p][id] => tx[p][id]["kind"] \in Kinds(revision)
    /\ id \notin DOMAIN rows => id \in Listed(file[p]) /\ DOMAIN tx[p][id] = Columns

Flushing(p) ==
  /\ pc[p] \in {"idle", "flush"}
  /\ pc[p] = "flush" => file[p] \in Files /\ ToDo(p) /\ Written(p)
  /\ pc[p] = "idle" => DOMAIN tx[p] = {}

\* The rows the downgrade converted are locked, so they stay as it read them;
\* once the table has been altered nobody is between two statements.
Migrating ==
  /\ pc[Migrator] \in {"idle", "convert", "alter", "altered"}
  /\ pc[Migrator] = "convert" => revision = 3
  /\ pc[Migrator] = "idle" \/ revision = 2 => DOMAIN tx[Migrator] = {}
  /\ \A i \in DOMAIN todo[Migrator] : todo[Migrator][i].id \in DOMAIN rows
  /\ \A id \in DOMAIN tx[Migrator] :
       /\ id \in DOMAIN rows /\ Convertible(rows[id])
       /\ tx[Migrator][id] = Conversion(rows[id])
  /\ pc[Migrator] = "altered" =>
       /\ \A p \in Procs : pc[p] # "flush"
       /\ \A id \in DOMAIN Seen(Migrator) : Seen(Migrator)[id].kind \in Kinds(5 - revision)

Disjoint == \A a, b \in Actors : a # b => DOMAIN tx[a] \cap DOMAIN tx[b] = {}

Inv ==
  /\ Types /\ Table!KindsValid
  /\ \A p \in Procs : Flushing(p)
  /\ Migrating /\ Disjoint

LEMMA InvTypeOK == Inv => TypeOK
<1> SUFFICES ASSUME Inv PROVE TypeOK
  OBVIOUS
<1>1. \A id \in DOMAIN rows : DOMAIN rows[id] = Columns
  BY RowDomain DEF Inv, Types
<1> QED BY <1>1 DEF Inv, Types, TypeOK, Flushing, Migrating, Actors

LEMMA InvInit == Init => Inv
<1> SUFFICES ASSUME Init PROVE Inv
  OBVIOUS
<1>1. /\ DOMAIN rows \subseteq Ids /\ rows = [id \in DOMAIN rows |-> rows[id]]
      /\ \A id \in DOMAIN rows : IsRow(rows[id])
  <2>1. CASE rows = << >>
    <3>1. DOMAIN rows = {}
      BY <2>1
    <3>2. rows = [id \in {} |-> rows[id]]
      BY <2>1
    <3> QED BY <3>1, <3>2
  <2>2. ASSUME NEW f \in Files, rows = [id \in Listed(f) |-> Row(SpecOf(f, id))]
        PROVE  /\ DOMAIN rows \subseteq Ids /\ rows = [id \in DOMAIN rows |-> rows[id]]
               /\ \A id \in DOMAIN rows : IsRow(rows[id])
    <3>1. DOMAIN rows = Listed(f) /\ Listed(f) \subseteq Ids
      BY <2>2, OneSpec
    <3>2. \A id \in DOMAIN rows : IsRow(rows[id])
      BY <2>2, FileRows
    <3> QED BY <2>2, <3>1, <3>2
  <2> QED BY <2>1, <2>2 DEF Init
<1>2. Types
  <2>1. todo \in [Actors -> Seq(Steps)] /\ tx = [a \in Actors |-> tx[a]]
    BY DEF Init
  <2>2. \A a \in Actors : DOMAIN tx[a] \subseteq Ids
    BY DEF Init
  <2>3. pc \in [Actors -> {"idle", "flush", "convert", "alter", "altered"}]
    BY DEF Init
  <2>4. file \in [Procs -> Files \cup {<< >>}] /\ alone \in [Procs -> BOOLEAN] /\ torn \in BOOLEAN
    BY DEF Init
  <2> QED BY <1>1, <2>1, <2>2, <2>3, <2>4 DEF Init, Types
<1>3. \A a \in Actors : DOMAIN tx[a] = {} /\ pc[a] = "idle" /\ DOMAIN todo[a] = {}
  BY DEF Init
<1>4. Migrating
  BY <1>3 DEF Init, Migrating, Actors
<1>5. \A p \in Procs : Flushing(p)
  BY <1>3 DEF Flushing, Actors
<1>6. Disjoint
  BY <1>3 DEF Disjoint
<1> QED BY <1>2, <1>4, <1>5, <1>6 DEF Init, Inv
-----------------------------------------------------------------------------
(***************************************************************************)
(* Every step preserves it.                                                *)
(***************************************************************************)
LEMMA FlushingKept ==
  ASSUME NEW q, Flushing(q), file'[q] = file[q], pc'[q] = pc[q], todo'[q] = todo[q],
         tx'[q] = tx[q], DOMAIN rows \subseteq DOMAIN rows', revision' = revision \/ pc[q] = "idle"
  PROVE  Flushing(q)'
<1>1. ASSUME ToDo(q) PROVE ToDo(q)'
  BY <1>1 DEF ToDo
<1>2. ASSUME Written(q), revision' = revision PROVE Written(q)'
  BY <1>2 DEF Written
<1> QED BY <1>1, <1>2 DEF Flushing

LEMMA MigratingKept ==
  ASSUME Migrating, rows' = rows, revision' = revision, pc'[Migrator] = pc[Migrator],
         tx'[Migrator] = tx[Migrator], todo'[Migrator] = todo[Migrator],
         \A p \in Procs : pc'[p] = "flush" => pc[p] = "flush" \/ pc[Migrator] # "altered"
  PROVE  Migrating'
<1>1. Seen(Migrator)' = Seen(Migrator)
  BY DEF Seen
<1> QED BY <1>1 DEF Migrating

LEMMA Roles == ASSUME NEW p \in Procs PROVE p \in Actors /\ p # Migrator /\ Migrator \in Actors
BY RegistryConstants DEF Actors

LEMMA StartTodo ==
  ASSUME Types, NEW f \in Files, NEW order \in Orders(Needed(f)), NEW i \in DOMAIN order
  PROVE  /\ DOMAIN order = 1..Cardinality(Needed(f)) /\ Cardinality(Needed(f)) \in Nat
         /\ order[i] \in Needed(f) /\ Needed(f) \subseteq Ids
         /\ Statement(f, order[i]) \in Writes
<1>1. Needed(f) \subseteq Ids
  BY OneSpec DEF Needed, Types
<1>2. Cardinality(Needed(f)) \in Nat
  BY <1>1, RegistryConstants, FS_Subset, FS_CardinalityType
<1>3. order \in [1..Cardinality(Needed(f)) -> Needed(f)]
  BY DEF Orders, Bijection, Injection
<1>4. Changed(f, order[i]) \subseteq Columns
  BY Targets DEF Changed
<1> QED BY <1>1, <1>2, <1>3, <1>4 DEF Statement, Writes

LEMMA InvStart == ASSUME Inv, NEW p \in Procs, Start(p) PROVE Inv'
<1> USE DEF Inv
<1>0. PICK f \in Files :
        /\ file' = [file EXCEPT ![p] = f]
        /\ \E order \in Orders(Needed(f)) :
             todo' = [todo EXCEPT ![p] = [i \in DOMAIN order |-> Statement(f, order[i])]]
  BY DEF Start
<1>1. PICK order \in Orders(Needed(f)) :
        /\ file' = [file EXCEPT ![p] = f]
        /\ todo' = [todo EXCEPT ![p] = [i \in DOMAIN order |-> Statement(f, order[i])]]
  BY <1>0
<1> DEFINE list == [i \in DOMAIN order |-> Statement(f, order[i])]
           n == Cardinality(Needed(f))
<1>2. list \in Seq(Steps)
  <2>1. n \in Nat /\ DOMAIN order = 1..n
    BY OneSpec, RegistryConstants, FS_Subset, FS_CardinalityType
       DEF Needed, Types, Orders, Bijection, Injection
  <2>2. \A i \in DOMAIN order : Statement(f, order[i]) \in Steps
    BY StartTodo DEF Steps
  <2>3. list \in [1..n -> Steps]
    BY <2>1, <2>2
  <2> HIDE DEF list, n
  <2> QED BY <2>1, <2>3
<1>3. /\ DOMAIN list = DOMAIN order /\ \A i \in DOMAIN order : list[i] = Statement(f, order[i])
  OBVIOUS
<1>4. /\ pc[p] = "idle" /\ pc[Migrator] # "altered" /\ pc' = [pc EXCEPT ![p] = "flush"]
      /\ alone' = [alone EXCEPT ![p] = TRUE]
      /\ UNCHANGED <<rows, revision, tx, torn>>
  BY DEF Start
<1>5. file'[p] = f /\ todo'[p] = list /\ pc'[p] = "flush" /\ DOMAIN tx'[p] = {}
  BY <1>1, <1>4, Roles DEF Types, Flushing
<1>6. Types'
  <2>1. todo' \in [Actors -> Seq(Steps)]
    BY <1>1, <1>2, Roles DEF Types
  <2> QED BY <1>1, <1>4, <2>1 DEF Types
<1>7. ToDo(p)'
  <2> SUFFICES ASSUME NEW i \in DOMAIN order
               PROVE  /\ list[i] \in Writes
                      /\ IF list[i].insert THEN list[i].id \in Listed(f) /\ list[i].columns = Columns
                         ELSE list[i].id \in DOMAIN rows /\ list[i].columns \subseteq DOMAIN Target(f, list[i].id)
    <3> HIDE DEF list
    <3> QED BY <1>3, <1>4, <1>5 DEF ToDo
  <2>1. Statement(f, order[i]) \in Writes /\ order[i] \in Needed(f)
    BY StartTodo
  <2> QED BY <2>1, <1>3 DEF Statement, Needed, Changed
<1>8. Flushing(p)'
  BY <1>5, <1>7 DEF Flushing, Written
<1>9. ASSUME NEW q \in Procs \ {p} PROVE Flushing(q)'
  <2>1. /\ file'[q] = file[q] /\ pc'[q] = pc[q] /\ todo'[q] = todo[q] /\ tx'[q] = tx[q]
        /\ DOMAIN rows \subseteq DOMAIN rows' /\ revision' = revision
    BY <1>1, <1>4, Roles DEF Types
  <2> QED BY <2>1, FlushingKept
<1>10. Migrating'
  BY <1>1, <1>4, MigratingKept, Roles DEF Types
<1>11. Disjoint' /\ Table!KindsValid'
  BY <1>4 DEF Disjoint, Table!KindsValid
<1> QED BY <1>6, <1>8, <1>9, <1>10, <1>11

LEMMA InvRollsBack == ASSUME Inv, NEW a \in Actors, RollsBack(a) PROVE Inv'
<1> USE DEF Inv
<1>1. /\ pc' = [pc EXCEPT ![a] = "idle"]
      /\ todo' = [todo EXCEPT ![a] = << >>] /\ tx' = [tx EXCEPT ![a] = << >>]
      /\ UNCHANGED <<rows, revision, file, alone, torn>>
  BY DEF RollsBack, Ends
<1>2. pc'[a] = "idle" /\ DOMAIN tx'[a] = {} /\ DOMAIN todo'[a] = {}
  BY <1>1 DEF Types
<1>3. Types'
  <2>1. todo' \in [Actors -> Seq(Steps)]
    BY <1>1 DEF Types
  <2>2. tx' = [b \in Actors |-> tx'[b]]
    BY <1>1 DEF Types
  <2>3. \A b \in Actors : DOMAIN tx'[b] \subseteq Ids
    BY <1>1, <1>2 DEF Types
  <2> QED BY <1>1, <2>1, <2>2, <2>3 DEF Types
<1>4. ASSUME NEW q \in Procs PROVE Flushing(q)'
  <2>1. CASE q = a
    BY <1>2, <2>1 DEF Flushing
  <2>2. CASE q # a
    <3>1. /\ file'[q] = file[q] /\ pc'[q] = pc[q] /\ todo'[q] = todo[q] /\ tx'[q] = tx[q]
          /\ DOMAIN rows \subseteq DOMAIN rows' /\ revision' = revision
      BY <1>1, <2>2, Roles DEF Types
    <3> QED BY <3>1, FlushingKept
  <2> QED BY <2>1, <2>2
<1>5. Migrating'
  <2>1. CASE a = Migrator
    BY <1>2, <2>1 DEF Migrating
  <2>2. CASE a # Migrator
    <3>1. pc'[Migrator] = pc[Migrator] /\ tx'[Migrator] = tx[Migrator] /\ todo'[Migrator] = todo[Migrator]
      BY <1>1, <2>2 DEF Types, Actors
    <3>2. \A p \in Procs : pc'[p] = "flush" => pc[p] = "flush"
      BY <1>1, Roles DEF Types
    <3> QED BY <1>1, <3>1, <3>2, MigratingKept
  <2> QED BY <2>1, <2>2
<1>6. Disjoint'
  BY <1>1, <1>2 DEF Disjoint, Types
<1>7. Table!KindsValid'
  BY <1>1 DEF Table!KindsValid
<1> QED BY <1>3, <1>4, <1>5, <1>6, <1>7

\* A statement of the flush that succeeds.
LEMMA InvWrite == ASSUME Inv, NEW p \in Procs, Write(p) PROVE Inv'
<1> USE DEF Inv
<1> DEFINE s == Head(todo[p])
           values == [c \in s.columns |-> Target(file[p], s.id)[c]]
           refused == \/ s.insert /\ s.id \in DOMAIN rows
                      \/ "kind" \in s.columns /\ values.kind \notin Kinds(revision)
           written == [id \in DOMAIN tx[p] \cup {s.id} |-> IF id = s.id THEN values ELSE tx[p][id]]
<1>1. CASE refused
  <2>1. RollsBack(p)
    BY <1>1 DEF Write
  <2> QED BY <2>1, InvRollsBack, Roles
<1>2. CASE ~refused
  <2>1. /\ pc[p] = "flush" /\ todo[p] # << >> /\ ~Locked(p, s.id)
        /\ tx' = [tx EXCEPT ![p] = written] /\ todo' = [todo EXCEPT ![p] = Tail(todo[p])]
        /\ UNCHANGED <<rows, revision, pc, file, alone, torn>>
    BY <1>2 DEF Write
  <2>2. /\ file[p] \in Files /\ ToDo(p) /\ Written(p) /\ todo[p] \in Seq(Steps)
        /\ DOMAIN tx[p] \subseteq Ids
    BY <2>1, Roles DEF Flushing, Types
  <2>3. /\ s = todo[p][1] /\ 1 \in DOMAIN todo[p] /\ Tail(todo[p]) \in Seq(Steps)
        /\ DOMAIN Tail(todo[p]) = 1..(Len(todo[p]) - 1) /\ DOMAIN todo[p] = 1..Len(todo[p])
        /\ \A i \in DOMAIN Tail(todo[p]) : i + 1 \in DOMAIN todo[p] /\ Tail(todo[p])[i] = todo[p][i + 1]
    BY <2>1, <2>2
  <2>4. /\ s \in Writes /\ s.id \in Ids /\ s.columns \subseteq Columns
        /\ IF s.insert THEN s.id \in Listed(file[p]) /\ s.columns = Columns
           ELSE s.id \in DOMAIN rows /\ s.columns \subseteq DOMAIN Target(file[p], s.id)
    BY <2>2, <2>3 DEF ToDo, Writes
  <2>5. /\ DOMAIN values = s.columns
        /\ \A c \in s.columns : values[c] = Target(file[p], s.id)[c]
        /\ "kind" \in s.columns => values["kind"] \in Kinds(revision)
        /\ s.columns \subseteq DOMAIN Target(file[p], s.id)
        /\ s.id \notin DOMAIN rows => s.id \in Listed(file[p]) /\ s.columns = Columns
    BY <1>2, <2>4, Targets
  <2> HIDE DEF s, values, refused
  <2>6. /\ DOMAIN written = DOMAIN tx[p] \cup {s.id} /\ written[s.id] = values
        /\ \A id \in DOMAIN tx[p] \ {s.id} : written[id] = tx[p][id]
    OBVIOUS
  <2> HIDE DEF written
  <2>7. /\ tx'[p] = written /\ todo'[p] = Tail(todo[p])
        /\ \A a \in Actors \ {p} : tx'[a] = tx[a] /\ todo'[a] = todo[a]
        /\ tx' = [a \in Actors |-> tx'[a]] /\ todo' \in [Actors -> Seq(Steps)]
    BY <2>1, <2>3, Roles DEF Types
  <2>8. Types'
    BY <2>1, <2>2, <2>4, <2>6, <2>7 DEF Types
  <2>9. ToDo(p)'
    BY <2>1, <2>2, <2>3, <2>7 DEF ToDo
  <2>10. Written(p)'
    <3> SUFFICES ASSUME NEW id \in DOMAIN written
                 PROVE  /\ DOMAIN written[id] \subseteq DOMAIN Target(file[p], id)
                        /\ \A c \in DOMAIN written[id] : written[id][c] = Target(file[p], id)[c]
                        /\ "kind" \in DOMAIN written[id] => written[id]["kind"] \in Kinds(revision)
                        /\ id \notin DOMAIN rows => id \in Listed(file[p]) /\ DOMAIN written[id] = Columns
      BY <2>1, <2>7 DEF Written
    <3>1. CASE id = s.id
      BY <3>1, <2>5, <2>6
    <3>2. CASE id # s.id
      BY <3>2, <2>2, <2>6 DEF Written
    <3> QED BY <3>1, <3>2
  <2>11. Flushing(p)'
    BY <2>1, <2>2, <2>9, <2>10 DEF Flushing
  <2>12. ASSUME NEW q \in Procs \ {p} PROVE Flushing(q)'
    BY <2>1, <2>7, FlushingKept, Roles
  <2>13. Migrating'
    BY <2>1, <2>7, MigratingKept, Roles
  <2>14. Disjoint'
    BY <2>1, <2>6, <2>7 DEF Disjoint, Locked
  <2>15. Table!KindsValid'
    BY <2>1 DEF Table!KindsValid
  <2> QED BY <2>8, <2>11, <2>12, <2>13, <2>14, <2>15
<1> QED BY <1>1, <1>2

\* What a commit of a flush does to a row.
LEMMA CommittedRow ==
  ASSUME Inv, NEW p \in Procs, Commit(p), NEW id
  PROVE  /\ DOMAIN rows' = DOMAIN rows \cup DOMAIN tx[p]
         /\ id \in DOMAIN rows' => IsRow(rows'[id])
         /\ id \in DOMAIN rows \ DOMAIN tx[p] => rows'[id] = rows[id]
         /\ id \in DOMAIN tx[p] =>
              /\ \A c \in DOMAIN tx[p][id] : rows'[id][c] = Target(file[p], id)[c]
              /\ \A c \in Columns \ DOMAIN tx[p][id] : id \in DOMAIN rows /\ rows'[id][c] = rows[id][c]
              /\ rows'[id].kind \in Kinds(revision)
<1> USE DEF Inv
<1>1. rows' = Seen(p) /\ file[p] \in Files /\ Written(p)
  BY DEF Commit, Flushing
<1>2. DOMAIN rows' = DOMAIN rows \cup DOMAIN tx[p]
  BY <1>1, SeenRows
<1>3. \A i \in DOMAIN rows : IsRow(rows[i]) /\ DOMAIN rows[i] = Columns
  BY RowDomain DEF Types
<1>4. CASE id \in DOMAIN rows \ DOMAIN tx[p]
  BY <1>1, <1>2, <1>3, <1>4, SeenRows
<1>5. CASE id \in DOMAIN tx[p] \cap DOMAIN rows
  <2>1. rows'[id] = Overlay(tx[p][id], rows[id])
    BY <1>1, <1>5, SeenRows
  <2>2. DOMAIN tx[p][id] \subseteq Columns
    BY <1>1, <1>5, Targets DEF Written
  <2>3. IsRow(rows'[id])
    BY <1>3, <1>5, <2>1, <2>2, OverlayRow
  <2>4. /\ \A c \in DOMAIN tx[p][id] : rows'[id][c] = tx[p][id][c]
        /\ \A c \in Columns \ DOMAIN tx[p][id] : rows'[id][c] = rows[id][c]
    BY <1>3, <1>5, <2>1 DEF Overlay
  <2>5. "kind" \in Columns /\ rows[id]["kind"] \in Kinds(revision)
    BY <1>5 DEF Columns, Table!KindsValid, Kinds
  <2> QED BY <1>1, <1>2, <1>5, <2>3, <2>4, <2>5 DEF Written
<1>6. CASE id \in DOMAIN tx[p] \ DOMAIN rows
  <2>1. rows'[id] = Overlay(tx[p][id], << >>) /\ DOMAIN tx[p][id] = Columns
    BY <1>1, <1>6, SeenRows DEF Written
  <2>2. IsRow(rows'[id])
    BY <2>1, OverlayRow
  <2>3. \A c \in DOMAIN tx[p][id] : rows'[id][c] = tx[p][id][c]
    BY <2>1 DEF Overlay
  <2> QED BY <1>1, <1>2, <1>6, <2>1, <2>2, <2>3 DEF Written, Columns
<1> QED BY <1>2, <1>4, <1>5, <1>6

LEMMA CommittedColumn ==
  ASSUME Inv, NEW p \in Procs, Commit(p), NEW id \in DOMAIN tx[p], NEW c \in Columns
  PROVE  /\ c \in DOMAIN tx[p][id] => rows'[id][c] = Target(file[p], id)[c]
         /\ c \notin DOMAIN tx[p][id] => id \in DOMAIN rows /\ rows'[id][c] = rows[id][c]
<1>1. /\ \A x \in DOMAIN tx[p][id] : rows'[id][x] = Target(file[p], id)[x]
      /\ \A x \in Columns \ DOMAIN tx[p][id] : id \in DOMAIN rows /\ rows'[id][x] = rows[id][x]
  <2>1. id \in DOMAIN tx[p] =>
          /\ \A x \in DOMAIN tx[p][id] : rows'[id][x] = Target(file[p], id)[x]
          /\ \A x \in Columns \ DOMAIN tx[p][id] : id \in DOMAIN rows /\ rows'[id][x] = rows[id][x]
    BY CommittedRow
  <2> QED BY <2>1
<1> QED BY <1>1

LEMMA InvCommit == ASSUME Inv, NEW p \in Procs, Commit(p) PROVE Inv'
<1> USE DEF Inv
<1>1. /\ pc[p] = "flush" /\ rows' = Seen(p)
      /\ pc' = [pc EXCEPT ![p] = "idle"]
      /\ todo' = [todo EXCEPT ![p] = << >>] /\ tx' = [tx EXCEPT ![p] = << >>]
      /\ UNCHANGED <<revision, file>>
  BY DEF Commit, Ends
<1>2. DOMAIN rows' = DOMAIN rows \cup DOMAIN tx[p] /\ rows' = [id \in DOMAIN rows' |-> rows'[id]]
  BY <1>1, CommittedRow DEF Seen
<1>3. /\ pc'[p] = "idle" /\ DOMAIN tx'[p] = {}
      /\ \A a \in Actors \ {p} : tx'[a] = tx[a] /\ todo'[a] = todo[a] /\ pc'[a] = pc[a]
      /\ tx' = [a \in Actors |-> tx'[a]]
  <2>1. pc'[p] = "idle" /\ tx'[p] = << >>
    BY <1>1, Roles DEF Types
  <2>2. DOMAIN tx'[p] = {}
    BY <2>1
  <2>3. \A a \in Actors \ {p} : tx'[a] = tx[a] /\ todo'[a] = todo[a] /\ pc'[a] = pc[a]
    BY <1>1 DEF Types
  <2>4. tx' = [a \in Actors |-> tx'[a]]
    BY <1>1 DEF Types
  <2> QED BY <2>1, <2>2, <2>3, <2>4
<1>4. Types'
  <2>1. todo' \in [Actors -> Seq(Steps)]
    BY <1>1, Roles DEF Types
  <2>2. alone' \in [Procs -> BOOLEAN] /\ torn' \in BOOLEAN
    <3>1. CASE UNCHANGED <<alone, torn>>
      BY <3>1 DEF Types
    <3>2. CASE /\ torn' = ~alone[p]
               /\ alone' = [q \in Procs |-> alone[q] /\ file[q] = file[p]]
      BY <3>2 DEF Types
    <3> QED BY <3>1, <3>2 DEF Commit
  <2>3. DOMAIN rows' \subseteq Ids /\ \A a \in Actors : DOMAIN tx'[a] \subseteq Ids
    BY <1>2, <1>3, Roles DEF Types
  <2>4. \A id \in DOMAIN rows' : IsRow(rows'[id])
    BY CommittedRow
  <2>5. pc' \in [Actors -> {"idle", "flush", "convert", "alter", "altered"}]
    BY <1>1 DEF Types
  <2> QED BY <1>1, <1>2, <1>3, <2>1, <2>2, <2>3, <2>4, <2>5 DEF Types, IsRow
<1>5. ASSUME NEW q \in Procs PROVE Flushing(q)'
  <2>1. CASE q = p
    BY <1>3, <2>1 DEF Flushing
  <2>2. CASE q # p
    BY <1>1, <1>2, <1>3, <2>2, FlushingKept, Roles
  <2> QED BY <2>1, <2>2
<1>6. Migrating'
  <2>1. /\ tx'[Migrator] = tx[Migrator] /\ todo'[Migrator] = todo[Migrator]
        /\ pc'[Migrator] = pc[Migrator] /\ pc[Migrator] # "altered"
    BY <1>1, <1>3, Roles DEF Migrating
  <2>2. \A id \in DOMAIN tx[Migrator] : id \in DOMAIN rows \ DOMAIN tx[p]
    BY Roles DEF Migrating, Disjoint
  <2>3. \A id \in DOMAIN tx[Migrator] : id \in DOMAIN rows' /\ rows'[id] = rows[id]
    BY <2>2, CommittedRow
  <2>4. \A i \in DOMAIN todo'[Migrator] : todo'[Migrator][i].id \in DOMAIN rows'
    BY <1>2, <2>1 DEF Migrating
  <2>5. \A id \in DOMAIN tx'[Migrator] :
          /\ id \in DOMAIN rows' /\ Convertible(rows'[id])
          /\ tx'[Migrator][id] = Conversion(rows'[id])
    BY <2>1, <2>3 DEF Migrating
  <2> QED BY <1>1, <2>1, <2>4, <2>5 DEF Migrating, Convertible, Conversion
<1>7. Disjoint'
  BY <1>3, Roles DEF Disjoint
<1>8. Table!KindsValid'
  <2>1. ASSUME NEW id \in DOMAIN rows' PROVE rows'[id].kind \in Kinds(revision)
    <3>1. CASE id \in DOMAIN tx[p]
      BY <3>1, CommittedRow
    <3>2. CASE id \notin DOMAIN tx[p]
      BY <3>2, <1>2, CommittedRow DEF Table!KindsValid, Kinds
    <3> QED BY <3>1, <3>2
  <2> QED BY <1>1, <2>1 DEF Table!KindsValid, Kinds, Table!Kinds
<1> QED BY <1>4, <1>5, <1>6, <1>7, <1>8
-----------------------------------------------------------------------------
(* The migration. *)

\* A step of the migration that writes no row, before the ALTER TABLE is done.
LEMMA InvMigratorMoves ==
  ASSUME Inv, UNCHANGED <<rows, revision, file, tx, alone, torn>>,
         NEW at \in {"convert", "alter"}, pc' = [pc EXCEPT ![Migrator] = at],
         at = "convert" => revision = 3, todo' \in [Actors -> Seq(Steps)],
         \A a \in Actors \ {Migrator} : todo'[a] = todo[a],
         \A i \in DOMAIN todo'[Migrator] : todo'[Migrator][i].id \in DOMAIN rows,
         pc[Migrator] # "idle" \/ DOMAIN tx[Migrator] = {}
  PROVE  Inv'
<1> USE DEF Inv
<1>1. Types'
  BY DEF Types
<1>2. pc'[Migrator] = at /\ \A p \in Procs : pc'[p] = pc[p] /\ todo'[p] = todo[p]
  BY Roles DEF Types, Actors
<1>3. \A p \in Procs : Flushing(p)'
  BY <1>2, FlushingKept
<1>4. Migrating'
  BY <1>2 DEF Migrating, Convertible, Conversion
<1>5. Disjoint' /\ Table!KindsValid'
  BY DEF Disjoint, Table!KindsValid
<1> QED BY <1>1, <1>3, <1>4, <1>5

LEMMA InvStartUpgrade == ASSUME Inv, StartUpgrade PROVE Inv'
<1>1. /\ pc' = [pc EXCEPT ![Migrator] = "alter"] /\ pc[Migrator] = "idle"
      /\ UNCHANGED <<rows, revision, file, todo, tx, alone, torn>>
  BY DEF StartUpgrade
<1>2. todo' \in [Actors -> Seq(Steps)] /\ DOMAIN tx[Migrator] = {}
      /\ \A i \in DOMAIN todo'[Migrator] : todo'[Migrator][i].id \in DOMAIN rows
  BY <1>1 DEF Inv, Types, Migrating
<1> QED BY <1>1, <1>2, InvMigratorMoves

LEMMA InvStartDowngrade == ASSUME Inv, StartDowngrade PROVE Inv'
<1> DEFINE found == {id \in DOMAIN rows : Convertible(rows[id])}
<1>1. /\ pc' = [pc EXCEPT ![Migrator] = "convert"] /\ pc[Migrator] = "idle" /\ revision = 3
      /\ UNCHANGED <<rows, revision, file, tx, alone, torn>>
  BY DEF StartDowngrade
<1>2. PICK order \in Orders(found) :
        todo' = [todo EXCEPT ![Migrator] = [i \in DOMAIN order |-> [id |-> order[i]]]]
  BY DEF StartDowngrade
<1> DEFINE n == Cardinality(found)
           list == [i \in DOMAIN order |-> [id |-> order[i]]]
<1>3. found \subseteq Ids /\ found \subseteq DOMAIN rows
  BY DEF Inv, Types
<1>4. n \in Nat /\ order \in [1..n -> found]
  BY <1>3, RegistryConstants, FS_Subset, FS_CardinalityType DEF Orders, Bijection, Injection
<1>5. list \in [1..n -> Steps] /\ \A i \in DOMAIN list : list[i].id \in DOMAIN rows
  BY <1>3, <1>4 DEF Steps
<1> HIDE DEF n, list
<1>6. list \in Seq(Steps)
  BY <1>4, <1>5
<1>7. /\ todo' \in [Actors -> Seq(Steps)] /\ todo'[Migrator] = list
      /\ \A a \in Actors \ {Migrator} : todo'[a] = todo[a]
  BY <1>2, <1>6 DEF Inv, Types, Actors, list
<1>8. DOMAIN tx[Migrator] = {}
  BY <1>1 DEF Inv, Migrating
<1> QED BY <1>1, <1>5, <1>7, <1>8, InvMigratorMoves

LEMMA InvConvert == ASSUME Inv, Convert PROVE Inv'
<1> USE DEF Inv
<1> DEFINE id == Head(todo[Migrator]).id
           converted == [i \in DOMAIN tx[Migrator] \cup {id} |->
                           IF i = id THEN Conversion(rows[id]) ELSE tx[Migrator][i]]
<1>1. /\ pc[Migrator] = "convert" /\ todo[Migrator] # << >> /\ ~Locked(Migrator, id)
      /\ tx' = IF Convertible(rows[id]) THEN [tx EXCEPT ![Migrator] = converted] ELSE tx
      /\ todo' = [todo EXCEPT ![Migrator] = Tail(todo[Migrator])]
      /\ UNCHANGED <<rows, revision, pc, file, alone, torn>>
  BY DEF Convert
<1>2. Migrator \in Actors /\ todo[Migrator] \in Seq(Steps)
  BY DEF Types, Actors
<1>3. /\ id \in DOMAIN rows /\ Tail(todo[Migrator]) \in Seq(Steps)
      /\ \A i \in DOMAIN Tail(todo[Migrator]) : Tail(todo[Migrator])[i].id \in DOMAIN rows
  <2>1. /\ Head(todo[Migrator]) = todo[Migrator][1] /\ 1 \in DOMAIN todo[Migrator]
        /\ Tail(todo[Migrator]) \in Seq(Steps)
        /\ \A i \in DOMAIN Tail(todo[Migrator]) :
             i + 1 \in DOMAIN todo[Migrator] /\ Tail(todo[Migrator])[i] = todo[Migrator][i + 1]
    BY <1>1, <1>2
  <2> QED BY <2>1 DEF Migrating
<1> HIDE DEF id
<1>4. /\ DOMAIN converted = DOMAIN tx[Migrator] \cup {id} /\ converted[id] = Conversion(rows[id])
      /\ \A i \in DOMAIN tx[Migrator] \ {id} : converted[i] = tx[Migrator][i]
  OBVIOUS
<1> HIDE DEF converted
<1>5. /\ tx' = [a \in Actors |-> tx'[a]] /\ \A a \in Actors \ {Migrator} : tx'[a] = tx[a]
      /\ tx'[Migrator] = IF Convertible(rows[id]) THEN converted ELSE tx[Migrator]
  BY <1>1, <1>2 DEF Types
<1>6. /\ todo' \in [Actors -> Seq(Steps)] /\ todo'[Migrator] = Tail(todo[Migrator])
      /\ \A a \in Actors \ {Migrator} : todo'[a] = todo[a]
  BY <1>1, <1>2, <1>3 DEF Types
<1>7. DOMAIN tx'[Migrator] \subseteq DOMAIN tx[Migrator] \cup {id}
  BY <1>4, <1>5
<1>8. Types'
  <2>1. \A a \in Actors : DOMAIN tx'[a] \subseteq Ids
    BY <1>3, <1>5, <1>7 DEF Types
  <2> QED BY <1>1, <1>5, <1>6, <2>1 DEF Types
<1>9. \A p \in Procs : Flushing(p)'
  BY <1>1, <1>5, <1>6, FlushingKept, Roles
<1>10. Migrating'
  <2>1. \A i \in DOMAIN tx'[Migrator] :
          i \in DOMAIN rows /\ Convertible(rows[i]) /\ tx'[Migrator][i] = Conversion(rows[i])
    BY <1>3, <1>4, <1>5 DEF Migrating
  <2>2. \A i \in DOMAIN todo'[Migrator] : todo'[Migrator][i].id \in DOMAIN rows
    BY <1>3, <1>6
  <2> QED BY <1>1, <2>1, <2>2 DEF Migrating, Convertible, Conversion
<1>11. Disjoint'
  BY <1>1, <1>5, <1>7 DEF Disjoint, Locked
<1>12. Table!KindsValid'
  BY <1>1 DEF Table!KindsValid
<1> QED BY <1>8, <1>9, <1>10, <1>11, <1>12

LEMMA InvCheckConverted == ASSUME Inv, CheckConverted PROVE Inv'
<1>1. CASE RollsBack(Migrator)
  BY <1>1, InvRollsBack DEF Actors
<1>2. CASE /\ pc' = [pc EXCEPT ![Migrator] = "alter"]
           /\ UNCHANGED <<rows, revision, file, todo, tx, alone, torn>>
  <2>1. /\ todo' \in [Actors -> Seq(Steps)] /\ pc[Migrator] = "convert"
        /\ \A i \in DOMAIN todo'[Migrator] : todo'[Migrator][i].id \in DOMAIN rows
    BY <1>2 DEF Inv, Types, Migrating, CheckConverted
  <2> QED BY <1>2, <2>1, InvMigratorMoves
<1> QED BY <1>1, <1>2 DEF CheckConverted

LEMMA InvAlter == ASSUME Inv, Alter PROVE Inv'
<1> USE DEF Inv
<1>1. CASE RollsBack(Migrator)
  BY <1>1, InvRollsBack DEF Actors
<1>2. CASE /\ \A id \in DOMAIN Seen(Migrator) : Seen(Migrator)[id].kind \in Kinds(5 - revision)
           /\ pc' = [pc EXCEPT ![Migrator] = "altered"]
           /\ UNCHANGED <<rows, revision, file, todo, tx, alone, torn>>
  <2>1. Seen(Migrator)' = Seen(Migrator)
    BY <1>2 DEF Seen
  <2>2. pc'[Migrator] = "altered" /\ \A p \in Procs : pc'[p] = pc[p] /\ pc[p] # "flush"
    BY <1>2, Roles DEF Alter, Types, Actors
  <2>3. Types' /\ Disjoint' /\ Table!KindsValid'
    BY <1>2 DEF Types, Disjoint, Table!KindsValid
  <2>4. \A p \in Procs : Flushing(p)'
    BY <1>2, <2>2, FlushingKept
  <2>5. Kinds(5 - revision)' = Kinds(5 - revision)
    BY <1>2 DEF Kinds, Table!Kinds
  <2>6. Migrating'
    BY <1>2, <2>1, <2>2, <2>5 DEF Migrating, Convertible, Conversion, Alter
  <2> QED BY <2>3, <2>4, <2>6
<1> QED BY <1>1, <1>2 DEF Alter

\* What the commit of a migration does to a row.
LEMMA MigratedRow ==
  ASSUME Inv, CommitMigration, NEW id \in DOMAIN rows
  PROVE  /\ DOMAIN rows' = DOMAIN rows /\ IsRow(rows'[id])
         /\ rows'[id] = IF revision = 3 THEN Table!Converted(rows[id]) ELSE rows[id]
         /\ rows'[id].kind \in Kinds(5 - revision)
<1> USE DEF Inv
<1>1. rows' = Seen(Migrator) /\ pc[Migrator] = "altered"
  BY DEF CommitMigration
<1>2. DOMAIN rows' = DOMAIN rows /\ \A i \in DOMAIN rows : rows'[i].kind \in Kinds(5 - revision)
  BY <1>1, SeenRows DEF Migrating
<1>3. IsRow(rows[id]) /\ DOMAIN rows[id] = Columns
  BY RowDomain DEF Types
<1>4. CASE id \in DOMAIN tx[Migrator]
  <2>1. /\ Convertible(rows[id]) /\ revision = 3
        /\ rows'[id] = Overlay(Conversion(rows[id]), rows[id])
    <3>1. rows'[id] = Overlay(tx[Migrator][id], rows[id])
      BY <1>1, <1>4, SeenRows
    <3>2. revision \in {2, 3}
      BY DEF Types
    <3> QED BY <1>4, <3>1, <3>2 DEF Migrating
  <2>2. DOMAIN Conversion(rows[id]) = {"kind", "params"}
    BY DEF Conversion
  <2>3. IsRow(rows'[id])
    BY <1>3, <2>1, <2>2, OverlayRow DEF Columns
  <2>4. Table!Converted(rows[id]) =
          [rows[id] EXCEPT !.kind = "arxiv_category", !.params = [category |-> Tail(rows[id].params.set)]]
    BY <2>1 DEF Table!Converted, Convertible
  <2>5. IsRow(Table!Converted(rows[id]))
    BY <1>3, <2>4 DEF IsRow
  <2>6. \A c \in Columns : rows'[id][c] = Table!Converted(rows[id])[c]
    <3> SUFFICES ASSUME NEW c \in Columns PROVE rows'[id][c] = Table!Converted(rows[id])[c]
      OBVIOUS
    <3> DEFINE params == [category |-> Tail(rows[id].params.set)]
    <3>1. rows'[id][c] = IF c \in {"kind", "params"} THEN Conversion(rows[id])[c] ELSE rows[id][c]
      BY <1>3, <2>1, <2>2 DEF Overlay
    <3>2. Conversion(rows[id]) = [kind |-> "arxiv_category", params |-> params]
      BY DEF Conversion
    <3>3. Table!Converted(rows[id]) = [rows[id] EXCEPT !.kind = "arxiv_category", !.params = params]
      BY <2>4
    <3> HIDE DEF params
    <3>4. CASE c = "kind"
      BY <1>3, <3>1, <3>2, <3>3, <3>4 DEF Columns
    <3>5. CASE c = "params"
      BY <1>3, <3>1, <3>2, <3>3, <3>5 DEF Columns
    <3>6. CASE c \notin {"kind", "params"}
      BY <1>3, <3>1, <3>3, <3>6
    <3> QED BY <3>4, <3>5, <3>6
  <2> QED BY <1>2, <2>1, <2>3, <2>5, <2>6, RowsEqual
<1>5. CASE id \notin DOMAIN tx[Migrator]
  <2>1. rows'[id] = rows[id]
    BY <1>1, <1>3, <1>5, SeenRows
  <2>2. revision = 3 => rows[id].kind # "arxiv_oai"
    BY <1>2, <2>1 DEF Kinds, Table!Kinds
  <2> QED BY <1>2, <1>3, <2>1, <2>2 DEF Table!Converted
<1> QED BY <1>4, <1>5

LEMMA InvCommitMigration == ASSUME Inv, CommitMigration PROVE Inv'
<1> USE DEF Inv
<1>1. /\ pc[Migrator] = "altered" /\ rows' = Seen(Migrator) /\ revision' = 5 - revision
      /\ pc' = [pc EXCEPT ![Migrator] = "idle"]
      /\ todo' = [todo EXCEPT ![Migrator] = << >>] /\ tx' = [tx EXCEPT ![Migrator] = << >>]
      /\ UNCHANGED <<file, alone, torn>>
  BY DEF CommitMigration, Ends
<1>2. DOMAIN rows' = DOMAIN rows /\ rows' = [id \in DOMAIN rows' |-> rows'[id]]
  BY <1>1, SeenRows DEF Migrating, Seen
<1>3. Migrator \in Actors /\ tx'[Migrator] = << >> /\ pc'[Migrator] = "idle" /\ todo'[Migrator] = << >>
  BY <1>1 DEF Types, Actors
<1>4. DOMAIN tx'[Migrator] = {} /\ DOMAIN todo'[Migrator] = {}
  BY <1>3
<1>5. \A a \in Actors \ {Migrator} : tx'[a] = tx[a] /\ todo'[a] = todo[a] /\ pc'[a] = pc[a]
  BY <1>1 DEF Types
<1>6. Types'
  <2>1. tx' = [a \in Actors |-> tx'[a]]
    BY <1>1 DEF Types
  <2>2. todo' \in [Actors -> Seq(Steps)]
    BY <1>1, <1>3 DEF Types
  <2>3. \A a \in Actors : DOMAIN tx'[a] \subseteq Ids
    BY <1>4, <1>5 DEF Types
  <2>4. \A id \in DOMAIN rows' : IsRow(rows'[id])
    BY <1>2, MigratedRow
  <2>5. revision' \in {2, 3}
    BY <1>1 DEF Types
  <2> QED BY <1>1, <1>2, <2>1, <2>2, <2>3, <2>4, <2>5 DEF Types, IsRow
<1>7. \A p \in Procs : Flushing(p)'
  <2> SUFFICES ASSUME NEW p \in Procs PROVE Flushing(p)'
    OBVIOUS
  <2>1. pc[p] = "idle"
    BY <1>1 DEF Migrating, Flushing
  <2> QED BY <1>1, <1>2, <1>5, <2>1, FlushingKept, Roles
<1>8. Migrating'
  BY <1>3, <1>4 DEF Migrating
<1>9. Disjoint'
  BY <1>4, <1>5 DEF Disjoint
<1>10. Table!KindsValid'
  BY <1>1, <1>2, MigratedRow DEF Table!KindsValid, Kinds
<1> QED BY <1>6, <1>7, <1>8, <1>9, <1>10

LEMMA InvNext == Inv /\ [Next]_vars => Inv'
<1> SUFFICES ASSUME Inv, [Next]_vars PROVE Inv'
  OBVIOUS
<1>1. ASSUME NEW p \in Procs, Start(p) \/ Sync(p) PROVE Inv'
  <2>1. CASE Start(p)
    BY <2>1, InvStart
  <2>2. CASE Write(p)
    BY <2>2, InvWrite
  <2>3. CASE Commit(p)
    BY <2>3, InvCommit
  <2>4. CASE Victim(p)
    BY <2>4, InvRollsBack, Roles DEF Victim
  <2> QED BY <1>1, <2>1, <2>2, <2>3, <2>4 DEF Sync
<1>2. CASE StartUpgrade
  BY <1>2, InvStartUpgrade
<1>3. CASE StartDowngrade
  BY <1>3, InvStartDowngrade
<1>4. CASE Migrate
  <2>1. CASE Victim(Migrator)
    BY <2>1, InvRollsBack DEF Victim, Actors
  <2> QED BY <1>4, <2>1, InvConvert, InvCheckConverted, InvAlter, InvCommitMigration DEF Migrate
<1>5. ASSUME NEW a \in Actors, Kill(a) PROVE Inv'
  BY <1>5, InvRollsBack DEF Kill
<1>6. CASE UNCHANGED vars
  <2>1. Seen(Migrator)' = Seen(Migrator)
    BY <1>6 DEF Seen, vars
  <2>2. Types' /\ Disjoint' /\ Table!KindsValid' /\ Migrating'
    BY <1>6, <2>1 DEF Inv, Types, Disjoint, Table!KindsValid, Migrating, Convertible, Conversion, vars
  <2>3. \A p \in Procs : Flushing(p)'
    BY <1>6, FlushingKept DEF Inv, vars
  <2> QED BY <2>2, <2>3 DEF Inv
<1> QED BY <1>1, <1>2, <1>3, <1>4, <1>5, <1>6 DEF Next

(* Every reachable state satisfies Inv: locked rows stay as their            *)
(* transaction saw them, and nobody is between two statements once ALTER     *)
(* TABLE has been let in.                                                    *)
THEOREM Invariance == Spec => []Inv
BY InvInit, InvNext, PTL DEF Spec

(* Committed rows are whole and of a kind the schema in force allows,        *)
(* whatever syncs run while the schema is migrated.                          *)
THEOREM TypeCorrect == Spec => []TypeOK
BY Invariance, InvTypeOK, PTL
-----------------------------------------------------------------------------
(***************************************************************************)
(* Registry implements SourceTable.                                        *)
(***************************************************************************)
LEMMA TableInit == Init => Table!Init
<1> SUFFICES ASSUME Init PROVE Table!Init
  OBVIOUS
<1>1. CASE rows = << >>
  BY <1>1 DEF Table!Init
<1>2. ASSUME NEW f \in Files, rows = [id \in Listed(f) |-> Row(SpecOf(f, id))]
      PROVE  Table!Init
  <2>1. \A id \in DOMAIN rows : \E spec \in Table!SpecsOf(f, id) : rows[id] = Table!Row(spec)
    BY <1>2, OneSpec DEF Row
  <2> QED BY <2>1 DEF Table!Init
<1> QED BY <1>1, <1>2 DEF Init

\* A row the file does not list.
LEMMA UnlistedRow ==
  ASSUME Inv, NEW p \in Procs, Commit(p), NEW id \in DOMAIN rows, id \notin Listed(file[p])
  PROVE  rows'[id] \in {rows[id], [rows[id] EXCEPT !.active = FALSE]}
<1>1. IsRow(rows[id]) /\ DOMAIN rows[id] = Columns /\ IsRow(rows'[id]) /\ id \in DOMAIN rows'
  BY CommittedRow, RowDomain DEF Inv, Types
<1>2. CASE id \notin DOMAIN tx[p]
  BY <1>2, CommittedRow
<1>3. CASE id \in DOMAIN tx[p]
  <2>1. DOMAIN tx[p][id] \subseteq {"active"} /\ Target(file[p], id)["active"] = FALSE
    <3>1. Written(p)
      BY DEF Inv, Flushing, Commit
    <3>2. DOMAIN tx[p][id] \subseteq DOMAIN Target(file[p], id)
      BY <1>3, <3>1 DEF Written
    <3> QED BY <3>2, Targets
  <2>2. \A c \in Columns :
          /\ c \in DOMAIN tx[p][id] => rows'[id][c] = Target(file[p], id)[c]
          /\ c \notin DOMAIN tx[p][id] => rows'[id][c] = rows[id][c]
    BY <1>3, CommittedColumn
  <2>3. CASE "active" \notin DOMAIN tx[p][id]
    <3>1. \A c \in Columns : rows'[id][c] = rows[id][c]
      BY <2>1, <2>2, <2>3
    <3> QED BY <1>1, <3>1, RowsEqual
  <2>4. CASE "active" \in DOMAIN tx[p][id]
    <3> DEFINE off == [rows[id] EXCEPT !.active = FALSE]
    <3>1. IsRow(off)
      BY <1>1 DEF IsRow
    <3>2. \A c \in Columns : off[c] = IF c = "active" THEN FALSE ELSE rows[id][c]
      BY <1>1
    <3> HIDE DEF off
    <3>3. \A c \in Columns : rows'[id][c] = off[c]
      BY <2>1, <2>2, <2>4, <3>2
    <3>4. rows'[id] = off
      BY <1>1, <3>1, <3>3, RowsEqual
    <3> QED BY <3>4 DEF off
  <2> QED BY <2>3, <2>4
<1> QED BY <1>2, <1>3

LEMMA TableSync == ASSUME Inv, NEW p \in Procs, Commit(p) PROVE Table!Sync(file[p])
<1> DEFINE f == file[p]
<1>1. f \in Files /\ Written(p) /\ revision' = revision /\ DOMAIN rows' = DOMAIN rows \cup DOMAIN tx[p]
  BY CommittedRow DEF Inv, Flushing, Commit
<1>2. ASSUME NEW id \in DOMAIN rows, id \in Listed(f), NEW column \in DOMAIN rows[id]
      PROVE  rows'[id][column] \in {rows[id][column], Row(SpecOf(f, id))[column]}
  <2>1. column \in Columns /\ Target(f, id) = Row(SpecOf(f, id))
    BY <1>2, RowDomain, Targets DEF Inv, Types
  <2>2. CASE id \in DOMAIN tx[p]
    <3>1. rows'[id][column] \in {rows[id][column], Target(f, id)[column]}
      BY <2>1, <2>2, CommittedColumn
    <3> QED BY <2>1, <3>1
  <2>3. CASE id \notin DOMAIN tx[p]
    BY <2>3, CommittedRow
  <2> QED BY <2>2, <2>3
<1>3. ASSUME NEW id \in DOMAIN rows' \ DOMAIN rows
      PROVE  id \in Listed(f) /\ rows'[id] = Row(SpecOf(f, id))
  <2>1. id \in DOMAIN tx[p] /\ id \in Listed(f) /\ DOMAIN tx[p][id] = Columns
    BY <1>1, <1>3 DEF Written
  <2>2. Target(f, id) = Row(SpecOf(f, id)) /\ IsRow(Row(SpecOf(f, id)))
    BY <2>1, Targets, FileRows
  <2>3. IsRow(rows'[id])
    BY <1>3, CommittedRow
  <2>4. \A c \in Columns : rows'[id][c] = Target(f, id)[c]
    BY <2>1, CommittedColumn
  <2> QED BY <2>1, <2>2, <2>3, <2>4, RowsEqual
<1>4. ASSUME NEW id \in DOMAIN rows'
      PROVE  IF id \in DOMAIN rows
             THEN IF Table!SpecsOf(f, id) = {}
                  THEN rows'[id] \in {rows[id], [rows[id] EXCEPT !.active = FALSE]}
                  ELSE \A spec \in Table!SpecsOf(f, id), column \in DOMAIN rows[id] :
                         rows'[id][column] \in {rows[id][column], Table!Row(spec)[column]}
             ELSE \E spec \in Table!SpecsOf(f, id) : rows'[id] = Table!Row(spec)
  <2>1. CASE id \in Listed(f)
    <3>1. Table!SpecsOf(f, id) = {SpecOf(f, id)}
      BY <1>1, <2>1, OneSpec
    <3> QED BY <1>2, <1>3, <2>1, <3>1 DEF Row
  <2>2. CASE id \notin Listed(f)
    <3>1. Table!SpecsOf(f, id) = {} /\ id \in DOMAIN rows
      BY <1>1, <1>3, <2>2, OneSpec
    <3> QED BY <2>2, <3>1, UnlistedRow
  <2> QED BY <2>1, <2>2
<1> QED BY <1>1, <1>4 DEF Table!Sync

LEMMA TableMigration == ASSUME Inv, CommitMigration PROVE Table!Upgrade \/ Table!Downgrade
<1>1. /\ revision' = 5 - revision /\ revision \in {2, 3}
      /\ rows = [id \in DOMAIN rows |-> rows[id]] /\ rows' = [id \in DOMAIN rows' |-> rows'[id]]
  BY InvCommitMigration DEF CommitMigration, Inv, Types
<1>2. DOMAIN rows' = DOMAIN rows
  BY SeenRows DEF CommitMigration, Inv, Migrating
<1>3. CASE revision = 2
  <2>1. \A id \in DOMAIN rows : rows'[id] = rows[id]
    BY <1>3, MigratedRow
  <2>2. rows' = rows
    BY <1>1, <1>2, <2>1
  <2> QED BY <1>1, <1>3, <2>2 DEF Table!Upgrade
<1>4. CASE revision = 3
  <2>1. \A id \in DOMAIN rows : rows'[id] = Table!Converted(rows[id])
    BY <1>4, MigratedRow
  <2>2. rows' = [id \in DOMAIN rows |-> Table!Converted(rows[id])]
    BY <1>1, <1>2, <2>1
  <2>3. Table!KindsValid'
    BY InvCommitMigration DEF Inv
  <2> QED BY <1>1, <1>4, <2>2, <2>3 DEF Table!Downgrade
<1> QED BY <1>1, <1>3, <1>4

LEMMA TableNext == Inv /\ [Next]_vars => [Table!Next]_<<rows, revision>>
<1> SUFFICES ASSUME Inv, [Next]_vars, ~UNCHANGED <<rows, revision>> PROVE Table!Next
  OBVIOUS
<1>1. ASSUME NEW p \in Procs, Start(p) \/ Sync(p) PROVE Table!Next
  <2>1. CASE Commit(p)
    <3>1. file[p] \in Files
      BY <2>1 DEF Inv, Flushing, Commit
    <3> QED BY <2>1, <3>1, TableSync DEF Table!Next
  <2> QED BY <1>1, <2>1 DEF Start, Sync, Write, Victim, RollsBack
<1>2. CASE Migrate
  <2>1. CASE CommitMigration
    BY <2>1, TableMigration DEF Table!Next
  <2> QED BY <1>2, <2>1 DEF Migrate, Convert, CheckConverted, Alter, Victim, RollsBack
<1>3. CASE StartUpgrade \/ StartDowngrade \/ (\E a \in Actors : Kill(a)) \/ UNCHANGED vars
  BY <1>3 DEF StartUpgrade, StartDowngrade, Kill, RollsBack, vars
<1> QED BY <1>1, <1>2, <1>3 DEF Next

(* Registry implements SourceTable: to a reader of `source`, a sync only     *)
(* gives rows what its file says of them and a migration happens at once,    *)
(* although both take several statements and several of them run.            *)
THEOREM TableRefined == Spec => TableSpec
<1>1. Init => Table!Init
  BY TableInit
<1>2. Inv /\ [Next]_vars => [Table!Next]_<<rows, revision>>
  BY TableNext
<1> QED BY <1>1, <1>2, Invariance, PTL DEF Spec, TableSpec, Table!Spec
-----------------------------------------------------------------------------
(***************************************************************************)
(* A sync mirrors its file.                                                *)
(***************************************************************************)
\* A column of a row that is, will be, or was by itself what the file says.
Settled(p, id, c) ==
  \/ id \in DOMAIN tx[p] /\ c \in DOMAIN tx[p][id]
  \/ \E i \in DOMAIN todo[p] : todo[p][i].id = id /\ c \in todo[p][i].columns
  \/ id \in DOMAIN rows /\ rows[id][c] = Target(file[p], id)[c]

AllSettled(p) ==
  \A id \in Listed(file[p]) \cup DOMAIN rows :
    \A c \in DOMAIN Target(file[p], id) : Settled(p, id, c)

\* Each row is written by one statement.
OneStatement(p) ==
  /\ \A i, j \in DOMAIN todo[p] : i # j => todo[p][i].id # todo[p][j].id
  /\ \A i \in DOMAIN todo[p] : todo[p][i].id \notin DOMAIN tx[p]

Tracking == \A p \in Procs : pc[p] = "flush" => OneStatement(p) /\ (alone[p] => AllSettled(p))

LEMMA TrackingInit == Init => Tracking
BY Roles DEF Init, Tracking

\* Of a process that does not take the step, over a table that stays.
LEMMA TrackingKept ==
  ASSUME Tracking, NEW q \in Procs, file'[q] = file[q], pc'[q] = pc[q], todo'[q] = todo[q],
         tx'[q] = tx[q], alone'[q] = alone[q], rows' = rows
  PROVE  pc'[q] = "flush" => OneStatement(q)' /\ (alone'[q] => AllSettled(q)')
<1> SUFFICES ASSUME pc[q] = "flush" PROVE OneStatement(q)' /\ (alone'[q] => AllSettled(q)')
  OBVIOUS
<1>1. OneStatement(q) /\ (alone[q] => AllSettled(q))
  BY DEF Tracking
<1>2. OneStatement(q)'
  BY <1>1 DEF OneStatement
<1>3. ASSUME NEW id, NEW c, Settled(q, id, c) PROVE Settled(q, id, c)'
  BY <1>3 DEF Settled
<1>4. ASSUME AllSettled(q) PROVE AllSettled(q)'
  BY <1>3, <1>4 DEF AllSettled
<1> QED BY <1>1, <1>2, <1>4

LEMMA Statements ==
  ASSUME NEW f, NEW id
  PROVE  /\ Statement(f, id).id = id
         /\ Statement(f, id).columns = IF id \in DOMAIN rows THEN Changed(f, id) ELSE Columns
BY DEF Statement

LEMMA TrackingStart == ASSUME Inv, Tracking, NEW p \in Procs, Start(p) PROVE Tracking'
<1>0. PICK f \in Files :
        /\ file' = [file EXCEPT ![p] = f]
        /\ \E order \in Orders(Needed(f)) :
             todo' = [todo EXCEPT ![p] = [i \in DOMAIN order |-> Statement(f, order[i])]]
  BY DEF Start
<1>1. PICK order \in Orders(Needed(f)) :
        todo' = [todo EXCEPT ![p] = [i \in DOMAIN order |-> Statement(f, order[i])]]
  BY <1>0
<1>2. /\ pc[p] = "idle" /\ pc' = [pc EXCEPT ![p] = "flush"]
      /\ alone' = [alone EXCEPT ![p] = TRUE] /\ UNCHANGED <<rows, tx>>
  BY DEF Start
<1>3. /\ file'[p] = f /\ DOMAIN tx'[p] = {}
      /\ DOMAIN todo'[p] = DOMAIN order
      /\ \A i \in DOMAIN order : todo'[p][i] = Statement(f, order[i])
  BY <1>0, <1>1, <1>2, Roles DEF Inv, Types, Flushing
<1>4. /\ \A i, j \in DOMAIN order : i # j => order[i] # order[j]
      /\ \A id \in Needed(f) : \E i \in DOMAIN order : order[i] = id
  BY DEF Orders, Bijection, Injection, Surjection, IsInjective
<1>5. \A i \in DOMAIN order : todo'[p][i].id = order[i]
  BY <1>3, Statements
<1>6. OneStatement(p)'
  BY <1>3, <1>4, <1>5 DEF OneStatement
<1>7. ASSUME NEW id \in Listed(f) \cup DOMAIN rows, NEW c \in DOMAIN Target(f, id)
      PROVE  Settled(p, id, c)'
  <2>1. CASE id \in DOMAIN rows /\ c \notin Changed(f, id)
    <3>1. rows[id][c] = Target(f, id)[c]
      BY <2>1 DEF Changed
    <3> QED BY <1>2, <1>3, <2>1, <3>1 DEF Settled
  <2>2. CASE id \in DOMAIN rows => c \in Changed(f, id)
    <3>1. id \in Needed(f)
      BY <2>2 DEF Needed
    <3>2. PICK i \in DOMAIN order : order[i] = id
      BY <1>4, <3>1
    <3>3. c \in Columns
      BY Targets
    <3>4. todo'[p][i].id = id /\ c \in todo'[p][i].columns
      <4>1. todo'[p][i] = Statement(f, id)
        BY <1>3, <3>2
      <4> QED BY <2>2, <3>3, <4>1, Statements
    <3> QED BY <1>3, <3>4 DEF Settled
  <2> QED BY <2>1, <2>2
<1>8. AllSettled(p)'
  BY <1>2, <1>3, <1>7 DEF AllSettled
<1>9. ASSUME NEW q \in Procs \ {p}
      PROVE  pc'[q] = "flush" => OneStatement(q)' /\ (alone'[q] => AllSettled(q)')
  <2>1. /\ file'[q] = file[q] /\ pc'[q] = pc[q] /\ todo'[q] = todo[q] /\ tx'[q] = tx[q]
        /\ alone'[q] = alone[q] /\ rows' = rows
    BY <1>0, <1>1, <1>2, Roles DEF Inv, Types
  <2> QED BY <2>1, TrackingKept
<1> QED BY <1>6, <1>8, <1>9 DEF Tracking

LEMMA TrackingRollsBack == ASSUME Inv, Tracking, NEW a \in Actors, RollsBack(a) PROVE Tracking'
<1>1. /\ pc' = [pc EXCEPT ![a] = "idle"]
      /\ todo' = [todo EXCEPT ![a] = << >>] /\ tx' = [tx EXCEPT ![a] = << >>]
      /\ UNCHANGED <<rows, file, alone>>
  BY DEF RollsBack, Ends
<1> SUFFICES ASSUME NEW q \in Procs, pc'[q] = "flush"
             PROVE  OneStatement(q)' /\ (alone'[q] => AllSettled(q)')
  BY DEF Tracking
<1>2. q # a
  BY <1>1, Roles DEF Inv, Types
<1>3. pc'[q] = pc[q] /\ todo'[q] = todo[q] /\ tx'[q] = tx[q]
  BY <1>1, <1>2, Roles DEF Inv, Types
<1> QED BY <1>1, <1>3, TrackingKept

LEMMA TrackingWrite == ASSUME Inv, Tracking, NEW p \in Procs, Write(p) PROVE Tracking'
<1> DEFINE s == Head(todo[p])
           values == [c \in s.columns |-> Target(file[p], s.id)[c]]
           written == [id \in DOMAIN tx[p] \cup {s.id} |-> IF id = s.id THEN values ELSE tx[p][id]]
<1>1. CASE RollsBack(p)
  BY <1>1, TrackingRollsBack, Roles
<1>2. CASE ~RollsBack(p)
  <2>1. /\ pc[p] = "flush" /\ todo[p] # << >>
        /\ tx' = [tx EXCEPT ![p] = written] /\ todo' = [todo EXCEPT ![p] = Tail(todo[p])]
        /\ UNCHANGED <<rows, pc, file, alone>>
    BY <1>2 DEF Write
  <2>2. todo[p] \in Seq(Steps) /\ OneStatement(p) /\ (alone[p] => AllSettled(p))
    BY <2>1, Roles DEF Inv, Types, Tracking
  <2>3. /\ s = todo[p][1] /\ DOMAIN todo[p] = 1..Len(todo[p]) /\ Len(todo[p]) \in Nat \ {0}
        /\ DOMAIN Tail(todo[p]) = 1..(Len(todo[p]) - 1)
        /\ \A i \in DOMAIN Tail(todo[p]) : i + 1 \in DOMAIN todo[p] /\ Tail(todo[p])[i] = todo[p][i + 1]
    BY <2>1, <2>2
  <2>4. DOMAIN values = s.columns
    OBVIOUS
  <2> HIDE DEF s, values
  <2>5. /\ DOMAIN written = DOMAIN tx[p] \cup {s.id} /\ written[s.id] = values
        /\ \A id \in DOMAIN tx[p] \ {s.id} : written[id] = tx[p][id]
    OBVIOUS
  <2> HIDE DEF written
  <2>6. tx'[p] = written /\ todo'[p] = Tail(todo[p])
    BY <2>1, Roles DEF Inv, Types
  <2>7. OneStatement(p)'
    <3>1. \A i, j \in DOMAIN Tail(todo[p]) : i # j => Tail(todo[p])[i].id # Tail(todo[p])[j].id
      BY <2>2, <2>3 DEF OneStatement
    <3>2. \A i \in DOMAIN Tail(todo[p]) : Tail(todo[p])[i].id \notin DOMAIN tx[p] \cup {s.id}
      <4> SUFFICES ASSUME NEW i \in DOMAIN Tail(todo[p])
                   PROVE  todo[p][i + 1].id \notin DOMAIN tx[p] /\ todo[p][i + 1].id # todo[p][1].id
        BY <2>3
      <4>1. i + 1 \in DOMAIN todo[p] /\ 1 \in DOMAIN todo[p] /\ i + 1 # 1
        BY <2>3
      <4> QED BY <2>2, <4>1 DEF OneStatement
    <3> QED BY <2>5, <2>6, <3>1, <3>2 DEF OneStatement
  <2>8. ASSUME NEW id, NEW c, Settled(p, id, c) PROVE Settled(p, id, c)'
    <3>1. CASE id \in DOMAIN tx[p] /\ c \in DOMAIN tx[p][id]
      <4>1. id # s.id
        BY <2>2, <2>3, <3>1 DEF OneStatement
      <4> QED BY <2>5, <2>6, <3>1, <4>1 DEF Settled
    <3>2. ASSUME NEW i \in DOMAIN todo[p], todo[p][i].id = id, c \in todo[p][i].columns
          PROVE  Settled(p, id, c)'
      <4>1. CASE i = 1
        BY <2>3, <2>4, <2>5, <2>6, <3>2, <4>1 DEF Settled
      <4>2. CASE i # 1
        <5>1. i - 1 \in DOMAIN Tail(todo[p]) /\ Tail(todo[p])[i - 1] = todo[p][i]
          BY <2>3, <4>2
        <5> QED BY <2>6, <3>2, <5>1 DEF Settled
      <4> QED BY <4>1, <4>2
    <3>3. CASE id \in DOMAIN rows /\ rows[id][c] = Target(file[p], id)[c]
      BY <2>1, <3>3 DEF Settled
    <3> QED BY <2>8, <3>1, <3>2, <3>3 DEF Settled
  <2>9. alone'[p] => AllSettled(p)'
    <3> SUFFICES ASSUME alone[p], NEW id \in Listed(file[p]) \cup DOMAIN rows,
                        NEW c \in DOMAIN Target(file[p], id)
                 PROVE  Settled(p, id, c)'
      BY <2>1 DEF AllSettled
    <3> QED BY <2>2, <2>8 DEF AllSettled
  <2>10. ASSUME NEW q \in Procs \ {p}
         PROVE  pc'[q] = "flush" => OneStatement(q)' /\ (alone'[q] => AllSettled(q)')
    <3>1. todo'[q] = todo[q] /\ tx'[q] = tx[q]
      BY <2>1, Roles DEF Inv, Types
    <3> QED BY <2>1, <3>1, TrackingKept
  <2> QED BY <2>7, <2>9, <2>10 DEF Tracking
<1> QED BY <1>1, <1>2

\* When nothing is left to do.
LEMMA NothingDue ==
  ASSUME Inv, Tracking, NEW p \in Procs, Commit(p), alone[p],
         NEW id \in Listed(file[p]) \cup DOMAIN rows, NEW c \in DOMAIN Target(file[p], id)
  PROVE  id \in DOMAIN rows' /\ rows'[id][c] = Target(file[p], id)[c]
<1>1. pc[p] = "flush" /\ todo[p] = << >> /\ AllSettled(p) /\ c \in Columns
  BY Targets DEF Commit, Tracking
<1>2. DOMAIN rows' = DOMAIN rows \cup DOMAIN tx[p]
  BY CommittedRow
<1>3. CASE id \in DOMAIN tx[p] /\ c \in DOMAIN tx[p][id]
  BY <1>1, <1>2, <1>3, CommittedColumn
<1>4. CASE id \in DOMAIN rows /\ rows[id][c] = Target(file[p], id)[c]
  <2>1. CASE id \in DOMAIN tx[p]
    BY <1>1, <1>2, <1>4, <2>1, CommittedColumn
  <2>2. CASE id \notin DOMAIN tx[p]
    <3>1. rows'[id] = rows[id]
      BY <1>4, <2>2, CommittedRow
    <3> QED BY <1>2, <1>4, <3>1
  <2> QED BY <2>1, <2>2
<1>5. DOMAIN todo[p] = {}
  BY <1>1
<1> QED BY <1>1, <1>3, <1>4, <1>5 DEF AllSettled, Settled

\* What a commit of another process takes from one that agrees with it.
LEMMA TrackingCommit == ASSUME Inv, Tracking, NEW p \in Procs, Commit(p) PROVE Tracking'
<1>1. /\ pc' = [pc EXCEPT ![p] = "idle"]
      /\ todo' = [todo EXCEPT ![p] = << >>] /\ tx' = [tx EXCEPT ![p] = << >>]
      /\ file' = file
  BY DEF Commit, Ends
<1> SUFFICES ASSUME NEW q \in Procs, pc'[q] = "flush"
             PROVE  OneStatement(q)' /\ (alone'[q] => AllSettled(q)')
  BY DEF Tracking
<1>2. q # p
  BY <1>1, Roles DEF Inv, Types
<1>3. pc[q] = "flush" /\ todo'[q] = todo[q] /\ tx'[q] = tx[q]
  BY <1>1, <1>2, Roles DEF Inv, Types
<1>4. OneStatement(q)'
  BY <1>3 DEF Tracking, OneStatement
<1>5. ASSUME alone'[q] PROVE AllSettled(q)'
  <2>1. alone[q] /\ (DOMAIN tx[p] = {} \/ file[q] = file[p])
    <3>1. CASE tx[p] = << >>
      BY <1>5, <3>1 DEF Commit
    <3>2. CASE tx[p] # << >>
      <4>1. alone' = [r \in Procs |-> alone[r] /\ file[r] = file[p]]
        BY <3>2 DEF Commit
      <4> QED BY <1>5, <4>1
    <3> QED BY <3>1, <3>2
  <2>2. AllSettled(q) /\ DOMAIN rows' = DOMAIN rows \cup DOMAIN tx[p]
    BY <1>3, <2>1, CommittedRow DEF Tracking
  <2>3. \A id \in DOMAIN rows' \ DOMAIN rows : id \in Listed(file[q])
    <3> SUFFICES ASSUME NEW id \in DOMAIN tx[p] \ DOMAIN rows PROVE id \in Listed(file[q])
      BY <2>2
    <3>1. Written(p)
      BY DEF Inv, Flushing, Commit
    <3>2. id \in Listed(file[p])
      BY <3>1 DEF Written
    <3> QED BY <2>1, <3>2
  <2>4. ASSUME NEW id, NEW c \in DOMAIN Target(file[q], id), Settled(q, id, c)
        PROVE  Settled(q, id, c)'
    <3>1. CASE id \in DOMAIN tx[q] /\ c \in DOMAIN tx[q][id]
      BY <1>3, <3>1 DEF Settled
    <3>2. CASE \E i \in DOMAIN todo[q] : todo[q][i].id = id /\ c \in todo[q][i].columns
      BY <1>3, <3>2 DEF Settled
    <3>3. CASE id \in DOMAIN rows /\ rows[id][c] = Target(file[q], id)[c]
      <4>1. CASE id \in DOMAIN tx[p]
        <5>1. file[q] = file[p] /\ c \in Columns
          BY <2>1, <4>1, Targets
        <5>2. rows'[id][c] = Target(file[q], id)[c]
          BY <3>3, <4>1, <5>1, CommittedColumn
        <5> QED BY <1>1, <2>2, <3>3, <5>2 DEF Settled
      <4>2. CASE id \notin DOMAIN tx[p]
        <5>1. rows'[id] = rows[id]
          BY <3>3, <4>2, CommittedRow
        <5> QED BY <1>1, <2>2, <3>3, <5>1 DEF Settled
      <4> QED BY <4>1, <4>2
    <3> QED BY <2>4, <3>1, <3>2, <3>3 DEF Settled
  <2> SUFFICES ASSUME NEW id \in Listed(file[q]) \cup DOMAIN rows', NEW c \in DOMAIN Target(file[q], id)
               PROVE  Settled(q, id, c)'
    BY <1>1 DEF AllSettled
  <2>5. Settled(q, id, c)
    BY <2>2, <2>3 DEF AllSettled
  <2> QED BY <2>4, <2>5
<1> QED BY <1>4, <1>5

LEMMA TrackingNext == Inv /\ Tracking /\ [Next]_vars => Tracking'
<1> SUFFICES ASSUME Inv, Tracking, [Next]_vars PROVE Tracking'
  OBVIOUS
<1>1. ASSUME NEW p \in Procs, Start(p) \/ Sync(p) PROVE Tracking'
  BY <1>1, TrackingStart, TrackingWrite, TrackingCommit, TrackingRollsBack, Roles DEF Sync, Victim
<1>2. ASSUME NEW a \in Actors, Kill(a) \/ Victim(a) PROVE Tracking'
  BY <1>2, TrackingRollsBack DEF Kill, Victim
<1>3. ASSUME UNCHANGED <<rows, file, alone>>,
             \A q \in Procs : pc'[q] = pc[q] /\ todo'[q] = todo[q] /\ tx'[q] = tx[q]
      PROVE  Tracking'
  BY <1>3, TrackingKept DEF Tracking
<1>4. CASE StartUpgrade \/ StartDowngrade \/ Convert
  <2>1. UNCHANGED <<rows, file, alone>>
    BY <1>4 DEF StartUpgrade, StartDowngrade, Convert
  <2>2. \A q \in Procs : pc'[q] = pc[q] /\ todo'[q] = todo[q] /\ tx'[q] = tx[q]
    BY <1>4, Roles DEF StartUpgrade, StartDowngrade, Convert, Inv, Types
  <2> QED BY <1>3, <2>1, <2>2
<1>5. CASE CheckConverted \/ Alter
  <2>1. CASE RollsBack(Migrator)
    BY <2>1, TrackingRollsBack DEF Actors
  <2>2. CASE ~RollsBack(Migrator)
    <3>1. UNCHANGED <<rows, file, alone>>
      BY <1>5, <2>2 DEF CheckConverted, Alter
    <3>2. \A q \in Procs : pc'[q] = pc[q] /\ todo'[q] = todo[q] /\ tx'[q] = tx[q]
      BY <1>5, <2>2, Roles DEF CheckConverted, Alter, Inv, Types
    <3> QED BY <1>3, <3>1, <3>2
  <2> QED BY <2>1, <2>2
<1>6. CASE CommitMigration
  <2>1. \A q \in Procs : pc'[q] # "flush"
    BY <1>6, Roles DEF CommitMigration, Ends, Inv, Types, Migrating
  <2> QED BY <2>1 DEF Tracking
<1>7. CASE UNCHANGED vars
  BY <1>3, <1>7 DEF vars
<1>8. CASE Migrate
  BY <1>2, <1>4, <1>5, <1>6, <1>8 DEF Migrate, Actors
<1> QED BY <1>1, <1>2, <1>4, <1>7, <1>8 DEF Next

LEMMA CommitMirrors ==
  ASSUME Inv, Tracking, NEW p \in Procs, Commit(p), alone[p]
  PROVE  Mirrors(file[p], rows')
<1>1. "kind" \in Columns /\ "active" \in Columns
  BY DEF Columns
<1>2. ASSUME NEW id \in Listed(file[p]) PROVE id \in DOMAIN rows' /\ rows'[id] = Row(SpecOf(file[p], id))
  <2>1. Target(file[p], id) = Row(SpecOf(file[p], id)) /\ DOMAIN Target(file[p], id) = Columns
    BY <1>2, Targets
  <2>2. id \in DOMAIN rows' /\ \A c \in Columns : rows'[id][c] = Row(SpecOf(file[p], id))[c]
    BY <1>1, <1>2, <2>1, NothingDue
  <2>3. IsRow(rows'[id]) /\ IsRow(Row(SpecOf(file[p], id)))
    BY <2>2, CommittedRow, FileRows
  <2> QED BY <2>2, <2>3, RowsEqual
<1>3. ASSUME NEW id \in DOMAIN rows', id \notin Listed(file[p]) PROVE ~rows'[id].active
  <2>1. DOMAIN Target(file[p], id) = {"active"} /\ Target(file[p], id)["active"] = FALSE
    BY <1>3, Targets
  <2>2. id \in DOMAIN rows
    <3>1. Written(p) /\ DOMAIN rows' = DOMAIN rows \cup DOMAIN tx[p]
      BY CommittedRow DEF Inv, Flushing, Commit
    <3> QED BY <1>3, <3>1 DEF Written
  <2> QED BY <2>1, <2>2, NothingDue
<1> QED BY <1>2, <1>3 DEF Mirrors

(* A sync that commits leaves the table as its file says, whatever syncs of  *)
(* the same file and migrations ran with it: what it did not write differed  *)
(* from nothing it read, and nobody but a sync of another file changed it.   *)
THEOREM SyncMirrored == Spec => SyncMirrors
<1>1. Inv /\ Tracking =>
        [\A p \in Procs : Commit(p) /\ alone[p] => Mirrors(file[p], rows')]_vars
  BY CommitMirrors
<1> QED BY <1>1, Invariance, TrackingInit, TrackingNext, PTL DEF Spec, SyncMirrors
-----------------------------------------------------------------------------
(* Active rows are usable. *)

\* What a row is that is all one file's, and that no migration changes that.
LEMMA GivenRow ==
  ASSUME NEW f \in Files, NEW id \in Listed(f), NEW r, Given(f, id, r)
  PROVE  /\ Usable(r.kind, r.params) <=> ~(Bare(SpecOf(f, id)) /\ r.kind = "arxiv_category")
         /\ Given(f, id, Table!Converted(r))
<1> DEFINE spec == SpecOf(f, id)
           row == Row(spec)
           s == Table!Converted(row)
<1>0. /\ IsRow(row) /\ row.kind = spec.kind /\ row.params = spec.params
      /\ Usable(spec.kind, spec.params) /\ r \in {row, s}
  BY OneSpec, FileRows DEF Given
<1> HIDE DEF spec, row
<1>1. /\ Usable(row.kind, row.params)
      /\ ~(Bare(spec) /\ row.kind = "arxiv_category")
  BY <1>0 DEF Bare
<1>2. CASE ~Convertible(row)
  <2>1. Table!Converted(row) = row
    BY <1>2 DEF Table!Converted, Convertible
  <2> QED BY <1>0, <1>1, <2>1 DEF Given, spec, row
<1>3. CASE Convertible(row)
  <2> DEFINE params == [category |-> Tail(row.params.set)]
  <2>1. s = [row EXCEPT !.kind = "arxiv_category", !.params = params]
    BY <1>3 DEF Table!Converted, Convertible
  <2> HIDE DEF params, s
  <2>2. s.kind = "arxiv_category" /\ s.params = params
    BY <1>0, <2>1, RowDomain DEF Columns
  <2>3. "category" \in DOMAIN params /\ params.category = Tail(spec.params.set) /\ spec.kind = "arxiv_oai"
    BY <1>0, <1>3 DEF params, Convertible
  <2>4. Usable(s.kind, s.params) <=> ~(Bare(spec) /\ s.kind = "arxiv_category")
    BY <2>2, <2>3 DEF Usable, Bare
  <2>5. Table!Converted(s) = s
    BY <2>2 DEF Table!Converted
  <2>6. Given(f, id, s)
    BY DEF Given, spec, row, s
  <2>7. Given(f, id, Table!Converted(r))
    BY <1>0, <2>5, <2>6 DEF s
  <2>8. Usable(r.kind, r.params) <=> ~(Bare(spec) /\ r.kind = "arxiv_category")
    BY <1>0, <1>1, <2>4
  <2> QED BY <2>7, <2>8 DEF spec
<1> QED BY <1>2, <1>3

\* So it is enough that each active row is one file's.
Whole == ~torn => \A id \in DOMAIN rows : rows[id].active => \E f \in Files : Given(f, id, rows[id])

LEMMA WholeUsable == Whole <=> RowsUsable
<1>1. ASSUME NEW id, NEW f \in Files, Given(f, id, rows[id])
      PROVE  Usable(rows[id].kind, rows[id].params)
               <=> ~(Bare(SpecOf(f, id)) /\ rows[id].kind = "arxiv_category")
  <2>1. id \in Listed(f)
    BY <1>1 DEF Given
  <2> QED BY <1>1, <2>1, GivenRow
<1> QED BY <1>1 DEF Whole, RowsUsable

LEMMA WholeInit == Init => Whole
<1> SUFFICES ASSUME Init, NEW id \in DOMAIN rows PROVE \E f \in Files : Given(f, id, rows[id])
  BY DEF Whole
<1>1. CASE rows = << >>
  <2>1. DOMAIN rows = {}
    BY <1>1
  <2> QED BY <2>1
<1>2. ASSUME NEW f \in Files, rows = [i \in Listed(f) |-> Row(SpecOf(f, i))]
      PROVE  Given(f, id, rows[id])
  BY <1>2 DEF Given
<1> QED BY <1>1, <1>2 DEF Init

LEMMA WholeNext == Inv /\ Tracking /\ Whole /\ [Next]_vars => Whole'
<1> SUFFICES ASSUME Inv, Tracking, Whole, [Next]_vars PROVE Whole'
  OBVIOUS
<1>1. CASE UNCHANGED <<rows, torn>>
  BY <1>1 DEF Whole, Given
<1>2. ASSUME NEW p \in Procs, Commit(p) PROVE Whole'
  <2>1. CASE tx[p] = << >>
    <3>1. DOMAIN tx[p] = {} /\ UNCHANGED torn
      BY <1>2, <2>1 DEF Commit
    <3>2. DOMAIN rows' = DOMAIN rows /\ \A id \in DOMAIN rows : rows'[id] = rows[id]
      BY <1>2, <3>1, CommittedRow
    <3> QED BY <3>1, <3>2 DEF Whole, Given
  <2>2. CASE tx[p] # << >>
    <3> SUFFICES ASSUME alone[p], NEW id \in DOMAIN rows', rows'[id].active
                 PROVE  \E f \in Files : Given(f, id, rows'[id])
      BY <1>2, <2>2 DEF Commit, Whole, Given
    <3>1. Mirrors(file[p], rows') /\ file[p] \in Files
      BY <1>2, CommitMirrors DEF Inv, Flushing, Commit
    <3>2. id \in Listed(file[p]) /\ rows'[id] = Row(SpecOf(file[p], id))
      BY <3>1 DEF Mirrors
    <3> QED BY <3>1, <3>2 DEF Given
  <2> QED BY <2>1, <2>2
<1>3. CASE CommitMigration
  <2> SUFFICES ASSUME ~torn, NEW id \in DOMAIN rows', rows'[id].active
               PROVE  \E f \in Files : Given(f, id, rows'[id])
    BY <1>3 DEF CommitMigration, Whole, Given
  <2>1. id \in DOMAIN rows
    BY <1>3, SeenRows DEF CommitMigration, Inv, Migrating
  <2>2. rows'[id] = IF revision = 3 THEN Table!Converted(rows[id]) ELSE rows[id]
    BY <1>3, <2>1, MigratedRow
  <2>3. IsRow(rows[id])
    BY <2>1 DEF Inv, Types
  <2>4. rows[id].active
    BY <2>2, <2>3, RowDomain DEF Table!Converted, Columns
  <2>5. PICK f \in Files : Given(f, id, rows[id])
    BY <2>1, <2>4 DEF Whole
  <2>6. id \in Listed(f)
    BY <2>5 DEF Given
  <2> QED BY <2>2, <2>5, <2>6, GivenRow
<1>4. ASSUME NEW p \in Procs, Start(p) \/ Sync(p) PROVE Whole'
  BY <1>1, <1>2, <1>4 DEF Start, Sync, Write, Victim, RollsBack
<1>5. CASE Migrate
  BY <1>1, <1>3, <1>5 DEF Migrate, Convert, CheckConverted, Alter, Victim, RollsBack
<1>6. CASE StartUpgrade \/ StartDowngrade \/ (\E a \in Actors : Kill(a)) \/ UNCHANGED vars
  BY <1>1, <1>6 DEF StartUpgrade, StartDowngrade, Kill, RollsBack, vars
<1> QED BY <1>4, <1>5, <1>6 DEF Next

(* An active row is all one file's, converted or not, and has the params its *)
(* kind needs unless it was converted from a setSpec of one segment, until   *)
(* two syncs of different files have overlapped.  (SourceSpec, 0003)         *)
THEOREM RowsStayUsable == Spec => []RowsUsable
BY Invariance, TrackingInit, TrackingNext, WholeInit, WholeNext, WholeUsable, PTL DEF Spec
=============================================================================
