-------------------------- MODULE AgbotRecordProofs --------------------------
(***************************************************************************)
(* Proofs about what the agbot keeps: the partitions of its database, the  *)
(* cache of its exchange client, the workload usage records, and the rows  *)
(* and announcements that carry a changed secret to the agreements.        *)
(***************************************************************************)
EXTENDS AgbotPartitions, ExchangeCache, WorkloadRollback, SecretUpdates, FiniteSetTheorems,
        SequenceTheorems, WellFoundedInduction, TLAPS

-----------------------------------------------------------------------------
(* The shared database: records move, and are not lost.                     *)

Takes == {NoTake} \cup [step : {"alive"}] \cup [step : {"claimed"}, from : PartitionIds]
           \cup [step : {"copied"}, from : PartitionIds, rows : SUBSET Records]

PartitionTypes ==
  /\ owner \in [PartitionIds -> Agbots \cup {NoOwner, NoPartition}]
  /\ beaten \in [PartitionIds -> BOOLEAN] /\ tables \in [PartitionIds -> 0 .. AllTables]
  /\ rows \in [PartitionIds -> SUBSET Records] /\ serial \in Nat
  /\ agbot \in [Agbots -> [phase : {"off", "starting", "up", "quiesced", "gone"}, part : PartitionIds \cup {0}]]
  /\ take \in [Agbots -> Takes]
  /\ written \subseteq everWritten /\ everWritten \subseteq Records
  /\ late \in BOOLEAN /\ selfTaken \in BOOLEAN

\* Every partition has been used by whoever has one, and takes over only while it runs.
AgbotRuns ==
  /\ \A p \in PartitionIds : rows[p] \subseteq everWritten
  /\ \A a \in Agbots : /\ agbot[a].phase # "off" => agbot[a].part \in PartitionIds
                       /\ take[a].step # "idle" => agbot[a].phase \in {"up", "quiesced"}
                       /\ take[a].step = "copied" => take[a].rows \subseteq everWritten

Copying(a) == take[a].step = "copied"

\* A transaction has both sets of tables to itself: nobody drops them before it ends.
TablesStay ==
  \A a \in Agbots : Copying(a) =>
    /\ tables[take[a].from] = AllTables /\ tables[agbot[a].part] = AllTables
    /\ \A b \in Agbots \ {a} : Copying(b) => take[b].from # take[a].from

InGoodOrder == ~late /\ ~selfTaken

\* What is moved is another partition's, and, while it is still owned, all of it.
TakesAll ==
  \A a \in Agbots :
    /\ take[a].step \in {"claimed", "copied"} => take[a].from # agbot[a].part
    /\ Copying(a) /\ owner[take[a].from] = a => take[a].rows = rows[take[a].from]

\* Where a record is.
Located(r, p) ==
  /\ r \in rows[p] /\ HasAgreements(p) /\ (owner[p] # NoPartition \/ p \in unverified)
  /\ \A q \in PartitionIds \ {p} : r \notin rows[q]

RecordsInv ==
  /\ PartitionTypes /\ AgbotRuns /\ TablesStay
  /\ InGoodOrder => TakesAll /\ \A r \in written \ SameOrg : \E p \in PartitionIds : Located(r, p)

LEMMA TakeTypes ==
  ASSUME RecordsInv, NEW a \in Agbots
  PROVE  /\ take[a].step \in {"idle", "alive", "claimed", "copied"}
         /\ take[a].step \in {"claimed", "copied"} => take[a].from \in PartitionIds
         /\ take[a].step = "copied" => take[a].rows \in SUBSET Records
         /\ agbot[a].part \in PartitionIds \/ agbot[a].phase = "off"
BY DEF RecordsInv, PartitionTypes, Takes, NoTake, AgbotRuns

LEMMA NoTakeIdle == NoTake.step = "idle" /\ NoTake \in Takes
BY DEF NoTake, Takes

\* Tables, rows and records stay; nothing is disowned to nobody at all.
LEMMA RecordsStay ==
  ASSUME RecordsInv, PartitionTypes', AgbotRuns', TablesStay', InGoodOrder' => InGoodOrder /\ TakesAll',
         UNCHANGED <<rows, written>>, unverified \subseteq unverified',
         \A p \in PartitionIds : tables'[p] >= tables[p],
         \A p \in PartitionIds : owner'[p] = NoPartition =>
                                   owner[p] = NoPartition \/ ~HasAgreements(p) \/ p \in unverified'
  PROVE  RecordsInv'
<1>1. \A p \in PartitionIds : tables[p] \in Nat /\ tables'[p] \in Nat
  BY DEF RecordsInv, PartitionTypes, AllTables
<1>2. ASSUME NEW r, NEW p \in PartitionIds, Located(r, p) PROVE Located(r, p)'
  BY <1>1, <1>2 DEF Located, HasAgreements
<1> QED BY <1>2 DEF RecordsInv

\* A step that only ends takes, or lets ownership go.
LEMMA TakesGo ==
  ASSUME RecordsInv, UNCHANGED <<tables, rows, serial, written, everWritten, late, selfTaken>>,
         take' \in [Agbots -> Takes], \A a \in Agbots : take'[a] = take[a] \/ take'[a].step \in {"idle", "alive"},
         agbot' \in [Agbots -> [phase : {"off", "starting", "up", "quiesced", "gone"}, part : PartitionIds \cup {0}]],
         \A a \in Agbots : agbot'[a].part = agbot[a].part /\ (agbot'[a].phase = "off" <=> agbot[a].phase = "off"),
         \A a \in Agbots : take'[a].step # "idle" => agbot'[a].phase \in {"up", "quiesced"},
         owner' \in [PartitionIds -> Agbots \cup {NoOwner, NoPartition}], beaten' \in [PartitionIds -> BOOLEAN],
         unverified \subseteq unverified',
         \A p \in PartitionIds : \/ owner'[p] = owner[p] \/ owner'[p] = NoOwner
                                 \/ owner'[p] = NoPartition /\ (~HasAgreements(p) \/ p \in unverified')
                                 \/ owner'[p] \in Agbots /\ take[owner'[p]].step \notin {"claimed", "copied"}
  PROVE  RecordsInv'
<1>1. PartitionTypes'
  BY DEF RecordsInv, PartitionTypes
<1>2. AgbotRuns'
  BY DEF RecordsInv, AgbotRuns
<1>3. TablesStay'
  BY DEF RecordsInv, TablesStay, Copying
<1>4. ASSUME InGoodOrder' PROVE InGoodOrder /\ TakesAll'
  <2>1. InGoodOrder /\ TakesAll
    BY <1>4 DEF InGoodOrder, RecordsInv
  <2>2. ASSUME NEW a \in Agbots, take'[a] = take[a], take[a].step \in {"claimed", "copied"}
        PROVE  owner'[take[a].from] = a => owner[take[a].from] = a
    BY <2>2, TakeTypes, PartitionAssumption
  <2> QED BY <2>1, <2>2 DEF TakesAll, Copying
<1>5. \A p \in PartitionIds : tables'[p] >= tables[p]
  BY DEF RecordsInv, PartitionTypes, AllTables
<1>6. \A p \in PartitionIds : owner'[p] = NoPartition =>
                                owner[p] = NoPartition \/ ~HasAgreements(p) \/ p \in unverified'
  BY PartitionAssumption DEF NoOwner, NoPartition
<1> QED BY <1>1, <1>2, <1>3, <1>4, <1>5, <1>6, RecordsStay

LEMMA QuietInv ==
  ASSUME RecordsInv,
         \/ \E p \in PartitionIds : HeartbeatAges(p) \/ \E a \in Agbots : DiscardPartition(a, p)
         \/ \E a \in Agbots : \/ HeartbeatPartition(a) \/ CheckOwnHeartbeat(a) \/ RollbackMove(a)
                              \/ QuiescePartition(a) \/ Stop(a)
  PROVE  RecordsInv'
<1>1. /\ owner \in [PartitionIds -> Agbots \cup {NoOwner, NoPartition}] /\ beaten \in [PartitionIds -> BOOLEAN]
      /\ take \in [Agbots -> Takes]
      /\ agbot \in [Agbots -> [phase : {"off", "starting", "up", "quiesced", "gone"}, part : PartitionIds \cup {0}]]
      /\ \A a \in Agbots : take[a].step # "idle" => agbot[a].phase \in {"up", "quiesced"}
  BY DEF RecordsInv, PartitionTypes, AgbotRuns
<1>2. ASSUME NEW p \in PartitionIds, HeartbeatAges(p) PROVE RecordsInv'
  <2>1. /\ UNCHANGED <<owner, tables, rows, serial, agbot, take, written, everWritten, late, selfTaken, unverified>>
        /\ beaten' = [beaten EXCEPT ![p] = FALSE]
    BY <1>2 DEF HeartbeatAges
  <2>2. beaten' \in [PartitionIds -> BOOLEAN]
    BY <1>1, <2>1
  <2> QED BY <1>1, <2>1, <2>2, TakesGo
<1>6. ASSUME NEW p \in PartitionIds, NEW a \in Agbots, DiscardPartition(a, p) PROVE RecordsInv'
  <2>1. /\ UNCHANGED <<tables, rows, serial, agbot, take, written, everWritten, late, selfTaken>>
        /\ \/ /\ owner' = [owner EXCEPT ![p] = NoPartition] /\ beaten' = [beaten EXCEPT ![p] = FALSE]
              /\ unverified' = IF HasAgreements(p) THEN unverified \cup {p} ELSE unverified
           \/ /\ owner' = [owner EXCEPT ![p] = a] /\ beaten' = [beaten EXCEPT ![p] = TRUE]
              /\ unverified' = unverified
    BY <1>6 DEF DiscardPartition, Own
  <2>2. take[a].step \notin {"claimed", "copied"}
    BY <1>1, <1>6 DEF DiscardPartition, Searching
  <2>3. /\ owner' \in [PartitionIds -> Agbots \cup {NoOwner, NoPartition}] /\ beaten' \in [PartitionIds -> BOOLEAN]
        /\ unverified \subseteq unverified'
        /\ \A q \in PartitionIds : \/ owner'[q] = owner[q]
                                   \/ owner'[q] = NoPartition /\ (~HasAgreements(q) \/ q \in unverified')
                                   \/ owner'[q] = a
    BY <1>1, <2>1
  <2> QED BY <1>1, <2>1, <2>2, <2>3, TakesGo
<1>3. ASSUME NEW a \in Agbots, CheckOwnHeartbeat(a) \/ RollbackMove(a) PROVE RecordsInv'
  <2>1. /\ UNCHANGED <<owner, beaten, tables, rows, serial, agbot, written, everWritten, late, selfTaken, unverified>>
        /\ \/ take' = [take EXCEPT ![a] = [step |-> "alive"]] /\ agbot[a].phase = "up"
           \/ take' = [take EXCEPT ![a] = NoTake]
    BY <1>3 DEF CheckOwnHeartbeat, RollbackMove
  <2>2. [step |-> "alive"] \in Takes
    BY DEF Takes
  <2>3. /\ take' \in [Agbots -> Takes]
        /\ \A b \in Agbots : \/ take'[b] = take[b]
                             \/ b = a /\ take'[b].step = "idle"
                             \/ b = a /\ take'[b].step = "alive" /\ agbot[a].phase = "up"
    <3> DEFINE alive == [step |-> "alive"]
    <3>1. alive \in Takes /\ alive.step = "alive"
      BY <2>2
    <3> HIDE DEF alive
    <3>2. ASSUME NEW t \in Takes, take' = [take EXCEPT ![a] = t]
          PROVE  take' \in [Agbots -> Takes] /\ take'[a] = t /\ \A b \in Agbots \ {a} : take'[b] = take[b]
      BY <1>1, <3>2
    <3>3. CASE take' = [take EXCEPT ![a] = alive] /\ agbot[a].phase = "up"
      <4>1. take' \in [Agbots -> Takes] /\ take'[a] = alive /\ \A b \in Agbots \ {a} : take'[b] = take[b]
        BY <3>1, <3>2, <3>3
      <4> QED BY <3>1, <3>3, <4>1
    <3>4. CASE take' = [take EXCEPT ![a] = NoTake]
      <4>1. take' \in [Agbots -> Takes] /\ take'[a] = NoTake /\ \A b \in Agbots \ {a} : take'[b] = take[b]
        BY <3>2, <3>4, NoTakeIdle
      <4> QED BY <4>1, NoTakeIdle
    <3> QED BY <2>1, <3>3, <3>4 DEF alive
  <2> QED BY <1>1, <2>1, <2>3, TakesGo
<1>4. ASSUME NEW a \in Agbots, HeartbeatPartition(a) \/ Stop(a) PROVE RecordsInv'
  <2>1. /\ UNCHANGED <<owner, tables, rows, serial, written, everWritten, late, selfTaken, unverified>>
        /\ agbot[a].phase # "off"
        /\ \/ beaten' = [beaten EXCEPT ![agbot[a].part] = TRUE] /\ UNCHANGED <<agbot, take>>
           \/ /\ UNCHANGED beaten /\ agbot' = [agbot EXCEPT ![a].phase = "gone"]
              /\ take' = [take EXCEPT ![a] = NoTake]
    BY <1>4 DEF HeartbeatPartition, Stop
  <2>2. beaten' \in [PartitionIds -> BOOLEAN]
    BY <1>1, <2>1
  <2>3. CASE UNCHANGED <<agbot, take>>
    BY <1>1, <2>1, <2>2, <2>3, TakesGo
  <2>4. CASE agbot' = [agbot EXCEPT ![a].phase = "gone"] /\ take' = [take EXCEPT ![a] = NoTake]
    <3>1. /\ agbot' \in [Agbots -> [phase : {"off", "starting", "up", "quiesced", "gone"}, part : PartitionIds \cup {0}]]
          /\ agbot'[a].phase = "gone" /\ agbot'[a].part = agbot[a].part
          /\ \A b \in Agbots \ {a} : agbot'[b] = agbot[b]
      BY <1>1, <2>4
    <3>2. /\ take' \in [Agbots -> Takes] /\ take'[a].step = "idle" /\ \A b \in Agbots \ {a} : take'[b] = take[b]
      BY <1>1, <2>4, NoTakeIdle
    <3> QED BY <1>1, <2>1, <2>2, <3>1, <3>2, TakesGo
  <2> QED BY <2>1, <2>3, <2>4
<1>5. ASSUME NEW a \in Agbots, QuiescePartition(a) PROVE RecordsInv'
  <2>1. /\ UNCHANGED <<tables, rows, serial, take, written, everWritten, late, selfTaken, unverified>>
        /\ agbot[a].phase = "up" /\ agbot' = [agbot EXCEPT ![a].phase = "quiesced"]
        /\ owner' = [p \in PartitionIds |-> IF owner[p] = a THEN NoOwner ELSE owner[p]]
        /\ beaten' = [p \in PartitionIds |-> beaten[p] /\ owner[p] # a]
    BY <1>5 DEF QuiescePartition
  <2>2. /\ owner' \in [PartitionIds -> Agbots \cup {NoOwner, NoPartition}] /\ beaten' \in [PartitionIds -> BOOLEAN]
        /\ \A q \in PartitionIds : owner'[q] \in {owner[q], NoOwner}
    BY <1>1, <2>1
  <2>3. /\ agbot' \in [Agbots -> [phase : {"off", "starting", "up", "quiesced", "gone"}, part : PartitionIds \cup {0}]]
        /\ agbot'[a].phase = "quiesced" /\ agbot'[a].part = agbot[a].part
        /\ \A b \in Agbots \ {a} : agbot'[b] = agbot[b]
    BY <1>1, <2>1
  <2> QED BY <1>1, <2>1, <2>2, <2>3, TakesGo
<1> QED BY <1>2, <1>3, <1>4, <1>5, <1>6

\* A partition gets an owner: whoever moves its rows has lost it, if it had it.
LEMMA StartAgbotInv ==
  ASSUME RecordsInv, NEW a \in Agbots, StartAgbot(a)
  PROVE  RecordsInv'
<1>1. PICK p \in PartitionIds : /\ serial' = serial \/ serial' = p
                                /\ Own(a, p) /\ agbot' = [agbot EXCEPT ![a] = [phase |-> "starting", part |-> p]]
  BY DEF StartAgbot
<1>2. /\ agbot[a].phase = "off" /\ UNCHANGED <<tables, rows, take, written, everWritten, late, selfTaken, unverified>>
  BY DEF StartAgbot
<1>3. take[a].step = "idle"
  BY <1>2 DEF RecordsInv, AgbotRuns
<1>4. /\ owner' \in [PartitionIds -> Agbots \cup {NoOwner, NoPartition}] /\ beaten' \in [PartitionIds -> BOOLEAN]
      /\ owner'[p] = a /\ \A q \in PartitionIds \ {p} : owner'[q] = owner[q]
  BY <1>1 DEF Own, RecordsInv, PartitionTypes
<1>5. /\ agbot' \in [Agbots -> [phase : {"off", "starting", "up", "quiesced", "gone"}, part : PartitionIds \cup {0}]]
      /\ agbot'[a].part = p /\ \A b \in Agbots \ {a} : agbot'[b] = agbot[b]
  BY <1>1 DEF RecordsInv, PartitionTypes
<1>6. PartitionTypes'
  <2>1. serial' \in Nat
    BY <1>1 DEF RecordsInv, PartitionTypes, PartitionIds
  <2> QED BY <1>2, <1>4, <1>5, <2>1 DEF RecordsInv, PartitionTypes
<1>7. AgbotRuns'
  BY <1>2, <1>3, <1>5 DEF RecordsInv, AgbotRuns
<1>8. TablesStay'
  BY <1>2, <1>3, <1>5 DEF RecordsInv, TablesStay, Copying
<1>9. ASSUME InGoodOrder' PROVE InGoodOrder /\ TakesAll'
  <2>1. InGoodOrder /\ TakesAll
    BY <1>2, <1>9 DEF InGoodOrder, RecordsInv
  <2>2. ASSUME NEW b \in Agbots, Copying(b), owner'[take[b].from] = b PROVE owner[take[b].from] = b /\ b # a
    BY <1>3, <1>4, <2>2, TakeTypes DEF Copying
  <2> QED BY <1>2, <1>3, <1>5, <2>1, <2>2 DEF TakesAll, Copying
<1>10. \A q \in PartitionIds : tables'[q] >= tables[q]
  BY <1>2 DEF RecordsInv, PartitionTypes, AllTables
<1>11. \A q \in PartitionIds : owner'[q] = NoPartition => owner[q] = NoPartition
  BY <1>4, PartitionAssumption
<1> QED BY <1>2, <1>6, <1>7, <1>8, <1>9, <1>10, <1>11, RecordsStay

LEMMA CreateTablesInv ==
  ASSUME RecordsInv, NEW a \in Agbots, CreateTables(a)
  PROVE  RecordsInv'
<1> DEFINE p == agbot[a].part
<1>1. /\ agbot[a].phase = "starting" /\ p \in PartitionIds /\ take[a].step = "idle"
      /\ UNCHANGED <<owner, beaten, rows, serial, take, written, everWritten, late, selfTaken, unverified>>
  BY DEF CreateTables, RecordsInv, AgbotRuns
<1>2. CASE tables[p] < AllTables /\ tables' = [tables EXCEPT ![p] = tables[p] + 1] /\ UNCHANGED agbot
  <2>1. /\ tables' \in [PartitionIds -> 0 .. AllTables] /\ tables'[p] = tables[p] + 1 /\ tables[p] \in Nat
        /\ \A q \in PartitionIds \ {p} : tables'[q] = tables[q]
        /\ \A q \in PartitionIds : tables[q] \in Nat
    BY <1>1, <1>2 DEF RecordsInv, PartitionTypes, AllTables
  <2>2. PartitionTypes' /\ AgbotRuns'
    BY <1>1, <1>2, <2>1 DEF RecordsInv, PartitionTypes, AgbotRuns
  <2>3. TablesStay'
    <3>1. \A b \in Agbots : Copying(b) => take[b].from # p /\ agbot[b].part # p
      BY <1>2 DEF RecordsInv, TablesStay, AllTables
    <3>2. \A b \in Agbots : Copying(b) => take[b].from \in PartitionIds /\ agbot[b].part \in PartitionIds
      BY TakeTypes DEF Copying, RecordsInv, AgbotRuns
    <3> QED BY <1>1, <1>2, <2>1, <3>1, <3>2 DEF RecordsInv, TablesStay, Copying
  <2>4. InGoodOrder' => InGoodOrder /\ TakesAll'
    BY <1>1, <1>2 DEF RecordsInv, InGoodOrder, TakesAll, Copying
  <2>5. \A q \in PartitionIds : tables'[q] >= tables[q]
    BY <2>1
  <2> QED BY <1>1, <2>2, <2>3, <2>4, <2>5, RecordsStay
<1>3. CASE agbot' = [agbot EXCEPT ![a].phase = "up"] /\ UNCHANGED tables
  <2>1. /\ agbot' \in [Agbots -> [phase : {"off", "starting", "up", "quiesced", "gone"}, part : PartitionIds \cup {0}]]
        /\ agbot'[a].phase = "up" /\ agbot'[a].part = agbot[a].part
        /\ \A b \in Agbots \ {a} : agbot'[b] = agbot[b]
    BY <1>3 DEF RecordsInv, PartitionTypes
  <2> QED BY <1>1, <1>3, <2>1, TakesGo DEF RecordsInv, PartitionTypes, AgbotRuns
<1> QED BY <1>2, <1>3 DEF CreateTables

\* A new record, in the partition of its owner.
LEMMA InsertInv ==
  ASSUME RecordsInv, NEW a \in Agbots, NEW r \in Records, InsertRecord(a, r)
  PROVE  RecordsInv'
<1> DEFINE p == agbot[a].part
<1>1. /\ agbot[a].phase = "up" /\ tables[p] = AllTables /\ r \notin everWritten
      /\ rows' = [rows EXCEPT ![p] = rows[p] \cup {r}]
      /\ written' = written \cup {r} /\ everWritten' = everWritten \cup {r}
      /\ late' = (late \/ owner[p] # a)
      /\ UNCHANGED <<owner, beaten, tables, serial, agbot, take, selfTaken, unverified>>
  BY DEF InsertRecord
<1>2. p \in PartitionIds
  BY <1>1, TakeTypes
<1>3. /\ rows' \in [PartitionIds -> SUBSET Records] /\ rows'[p] = rows[p] \cup {r}
      /\ \A q \in PartitionIds \ {p} : rows'[q] = rows[q]
  BY <1>1, <1>2 DEF RecordsInv, PartitionTypes
<1>4. PartitionTypes'
  BY <1>1, <1>3 DEF RecordsInv, PartitionTypes
<1>5. AgbotRuns'
  BY <1>1, <1>3 DEF RecordsInv, AgbotRuns
<1>6. TablesStay'
  BY <1>1 DEF RecordsInv, TablesStay, Copying
<1>7. ASSUME InGoodOrder' PROVE TakesAll' /\ \A x \in written' \ SameOrg : \E q \in PartitionIds : Located(x, q)'
  <2>1. InGoodOrder /\ owner[p] = a
    BY <1>1, <1>7 DEF InGoodOrder
  <2>2. TakesAll'
    <3>1. ASSUME NEW b \in Agbots, Copying(b), owner[take[b].from] = b PROVE rows'[take[b].from] = rows[take[b].from]
      <4>1. take[b].from # p
        BY <2>1, <3>1 DEF RecordsInv, TakesAll, Copying
      <4> QED BY <1>3, <3>1, <4>1, TakeTypes DEF Copying
    <3> QED BY <1>1, <2>1, <3>1 DEF RecordsInv, TakesAll, Copying
  <2>3. ASSUME NEW x \in written \ SameOrg PROVE \E q \in PartitionIds : Located(x, q)'
    <3>1. PICK q \in PartitionIds : Located(x, q)
      BY <2>1, <2>3 DEF RecordsInv
    <3>2. x # r
      BY <1>1, <2>3 DEF RecordsInv, PartitionTypes
    <3> QED BY <1>1, <1>3, <3>1, <3>2 DEF Located, HasAgreements
  <2>4. Located(r, p)'
    <3>1. \A q \in PartitionIds : r \notin rows[q]
      BY <1>1 DEF RecordsInv, AgbotRuns
    <3>2. owner[p] # NoPartition /\ tables[p] >= 2
      BY <1>1, <2>1, PartitionAssumption DEF AllTables
    <3> QED BY <1>1, <1>3, <3>1, <3>2 DEF Located, HasAgreements
  <2> QED BY <1>1, <1>2, <2>2, <2>3, <2>4
<1> QED BY <1>4, <1>5, <1>6, <1>7 DEF RecordsInv

LEMMA DeleteInv ==
  ASSUME RecordsInv, NEW a \in Agbots, NEW r \in Records, DeleteRecord(a, r)
  PROVE  RecordsInv'
<1> DEFINE p == agbot[a].part
<1>1. /\ agbot[a].phase = "up"
      /\ rows' = [rows EXCEPT ![p] = rows[p] \ {r}] /\ written' = written \ {r}
      /\ late' = (late \/ owner[p] # a)
      /\ UNCHANGED <<owner, beaten, tables, serial, agbot, take, everWritten, selfTaken, unverified>>
  BY DEF DeleteRecord
<1>2. p \in PartitionIds
  BY <1>1, TakeTypes
<1>3. /\ rows' \in [PartitionIds -> SUBSET Records] /\ rows'[p] = rows[p] \ {r}
      /\ \A q \in PartitionIds \ {p} : rows'[q] = rows[q]
  BY <1>1, <1>2 DEF RecordsInv, PartitionTypes
<1>4. PartitionTypes'
  BY <1>1, <1>3 DEF RecordsInv, PartitionTypes
<1>5. AgbotRuns'
  BY <1>1, <1>3 DEF RecordsInv, AgbotRuns
<1>6. TablesStay'
  BY <1>1 DEF RecordsInv, TablesStay, Copying
<1>7. ASSUME InGoodOrder' PROVE TakesAll' /\ \A x \in written' \ SameOrg : \E q \in PartitionIds : Located(x, q)'
  <2>1. InGoodOrder /\ owner[p] = a
    BY <1>1, <1>7 DEF InGoodOrder
  <2>2. TakesAll'
    <3>1. ASSUME NEW b \in Agbots, Copying(b), owner[take[b].from] = b PROVE rows'[take[b].from] = rows[take[b].from]
      <4>1. take[b].from # p
        BY <2>1, <3>1 DEF RecordsInv, TakesAll, Copying
      <4> QED BY <1>3, <3>1, <4>1, TakeTypes DEF Copying
    <3> QED BY <1>1, <2>1, <3>1 DEF RecordsInv, TakesAll, Copying
  <2>3. ASSUME NEW x \in (written \ {r}) \ SameOrg PROVE \E q \in PartitionIds : Located(x, q)'
    <3>1. PICK q \in PartitionIds : Located(x, q)
      BY <2>1, <2>3 DEF RecordsInv
    <3> QED BY <1>1, <1>3, <2>3, <3>1 DEF Located, HasAgreements
  <2> QED BY <1>1, <2>2, <2>3
<1> QED BY <1>4, <1>5, <1>6, <1>7 DEF RecordsInv

\* A partition is claimed to be moved.
LEMMA ClaimInv ==
  ASSUME RecordsInv, NEW a \in Agbots, ClaimForMove(a)
  PROVE  RecordsInv'
<1>1. take[a].step = "alive" /\ UNCHANGED <<tables, rows, serial, agbot, written, everWritten, late, unverified>>
  BY DEF ClaimForMove
<1>2. ASSUME NEW p \in PartitionIds, Own(a, p), take' = [take EXCEPT ![a] = [step |-> "claimed", from |-> p]],
             selfTaken' = (selfTaken \/ p = agbot[a].part)
      PROVE  RecordsInv'
  <2> DEFINE claim == [step |-> "claimed", from |-> p]
  <2>1. claim \in Takes /\ claim.step = "claimed" /\ claim.from = p
    BY DEF Takes
  <2> HIDE DEF claim
  <2>2. take' = [take EXCEPT ![a] = claim]
    BY <1>2 DEF claim
  <2>3. take' \in [Agbots -> Takes] /\ take'[a] = claim /\ \A b \in Agbots \ {a} : take'[b] = take[b]
    BY <2>1, <2>2 DEF RecordsInv, PartitionTypes
  <2>4. /\ owner' \in [PartitionIds -> Agbots \cup {NoOwner, NoPartition}] /\ beaten' \in [PartitionIds -> BOOLEAN]
        /\ owner'[p] = a /\ \A q \in PartitionIds \ {p} : owner'[q] = owner[q]
    BY <1>2 DEF Own, RecordsInv, PartitionTypes
  <2>5. PartitionTypes'
    BY <1>1, <1>2, <2>3, <2>4 DEF RecordsInv, PartitionTypes
  <2>6. AgbotRuns' /\ TablesStay'
    BY <1>1, <2>1, <2>3 DEF RecordsInv, AgbotRuns, TablesStay, Copying
  <2>7. ASSUME InGoodOrder' PROVE InGoodOrder /\ TakesAll'
    <3>1. InGoodOrder /\ TakesAll /\ p # agbot[a].part
      BY <1>1, <1>2, <2>7 DEF InGoodOrder, RecordsInv
    <3>2. ASSUME NEW b \in Agbots \ {a}, Copying(b), owner'[take[b].from] = b PROVE owner[take[b].from] = b
      BY <2>4, <3>2, TakeTypes DEF Copying
    <3> QED BY <1>1, <2>1, <2>3, <3>1, <3>2 DEF TakesAll, Copying
  <2>8. \A q \in PartitionIds : tables'[q] >= tables[q]
    BY <1>1 DEF RecordsInv, PartitionTypes, AllTables
  <2>9. \A q \in PartitionIds : owner'[q] = NoPartition => owner[q] = NoPartition
    BY <2>4, PartitionAssumption
  <2> QED BY <1>1, <2>5, <2>6, <2>7, <2>8, <2>9, RecordsStay
<1>3. CASE take' = [take EXCEPT ![a] = NoTake] /\ UNCHANGED <<owner, beaten, selfTaken, unverified>>
  <2>1. take' \in [Agbots -> Takes] /\ take'[a].step = "idle" /\ \A b \in Agbots \ {a} : take'[b] = take[b]
    BY <1>3, NoTakeIdle DEF RecordsInv, PartitionTypes
  <2> QED BY <1>1, <1>3, <2>1, TakesGo DEF RecordsInv, PartitionTypes, AgbotRuns
<1> QED BY <1>2, <1>3 DEF ClaimForMove

\* The rows are read.
LEMMA CopyInv ==
  ASSUME RecordsInv, NEW a \in Agbots, CopyRows(a)
  PROVE  RecordsInv'
<1> DEFINE from == take[a].from
<1>1. /\ take[a].step = "claimed" /\ from \in PartitionIds /\ agbot[a].part \in PartitionIds
      /\ \A b \in Agbots \ {a} : Copying(b) => take[b].from # from
      /\ UNCHANGED <<owner, beaten, tables, rows, serial, agbot, written, everWritten, late, selfTaken, unverified>>
  BY TakeTypes DEF CopyRows, Copying, RecordsInv, AgbotRuns
<1>2. CASE take' = [take EXCEPT ![a] = NoTake]
  <2>1. take' \in [Agbots -> Takes] /\ take'[a].step = "idle" /\ \A b \in Agbots \ {a} : take'[b] = take[b]
    BY <1>2, NoTakeIdle DEF RecordsInv, PartitionTypes
  <2> QED BY <1>1, <2>1, TakesGo DEF RecordsInv, PartitionTypes, AgbotRuns
<1>3. CASE /\ tables[from] = AllTables /\ tables[agbot[a].part] = AllTables
           /\ take' = [take EXCEPT ![a] = [step |-> "copied", from |-> from, rows |-> rows[from]]]
  <2> DEFINE copy == [step |-> "copied", from |-> from, rows |-> rows[from]]
  <2>1. copy \in Takes /\ copy.step = "copied" /\ copy.from = from /\ copy.rows = rows[from]
    BY <1>1 DEF Takes, RecordsInv, PartitionTypes
  <2> HIDE DEF copy
  <2>2. take' = [take EXCEPT ![a] = copy]
    BY <1>3 DEF copy
  <2>3. take' \in [Agbots -> Takes] /\ take'[a] = copy /\ \A b \in Agbots \ {a} : take'[b] = take[b]
    BY <2>1, <2>2 DEF RecordsInv, PartitionTypes
  <2>4. PartitionTypes' /\ AgbotRuns'
    BY <1>1, <2>1, <2>3 DEF RecordsInv, PartitionTypes, AgbotRuns
  <2>5. TablesStay'
    BY <1>1, <1>3, <2>1, <2>3 DEF RecordsInv, TablesStay, Copying
  <2>6. InGoodOrder' => InGoodOrder /\ TakesAll'
    BY <1>1, <2>1, <2>3 DEF RecordsInv, InGoodOrder, TakesAll, Copying
  <2>7. \A q \in PartitionIds : tables'[q] >= tables[q]
    BY <1>1 DEF RecordsInv, PartitionTypes, AllTables
  <2> QED BY <1>1, <2>4, <2>5, <2>6, <2>7, RecordsStay
<1> QED BY <1>2, <1>3 DEF CopyRows

\* The move is committed: the records have a new home, the old one is gone.
LEMMA CommitInv ==
  ASSUME RecordsInv, NEW a \in Agbots, CommitMove(a)
  PROVE  RecordsInv'
<1> DEFINE from == take[a].from
           to == agbot[a].part
<1>1. /\ Copying(a) /\ from \in PartitionIds /\ to \in PartitionIds
      /\ \A b \in Agbots \ {a} : Copying(b) => agbot[b].part # from
      /\ rows' = [p \in PartitionIds |-> IF p = from THEN {}
                                         ELSE IF p = to THEN rows[p] \cup Moved(take[a].rows) ELSE rows[p]]
      /\ tables' = [tables EXCEPT ![from] = 0]
      /\ owner' = [owner EXCEPT ![from] = NoPartition] /\ beaten' = [beaten EXCEPT ![from] = FALSE]
      /\ late' = (late \/ owner[from] # a \/ (owner[to] # a /\ take[a].rows # {}))
      /\ take' = [take EXCEPT ![a] = NoTake]
      /\ UNCHANGED <<serial, agbot, written, everWritten, selfTaken, unverified>>
  BY TakeTypes DEF CommitMove, Copying, RecordsInv, AgbotRuns
<1>2. /\ take' \in [Agbots -> Takes] /\ take'[a].step = "idle" /\ \A b \in Agbots \ {a} : take'[b] = take[b]
  BY <1>1, NoTakeIdle DEF RecordsInv, PartitionTypes
<1>3. /\ tables' \in [PartitionIds -> 0 .. AllTables] /\ tables'[from] = 0
      /\ \A q \in PartitionIds \ {from} : tables'[q] = tables[q]
  BY <1>1 DEF RecordsInv, PartitionTypes, AllTables
<1>4. /\ owner' \in [PartitionIds -> Agbots \cup {NoOwner, NoPartition}] /\ beaten' \in [PartitionIds -> BOOLEAN]
      /\ owner'[from] = NoPartition /\ \A q \in PartitionIds \ {from} : owner'[q] = owner[q]
  BY <1>1 DEF RecordsInv, PartitionTypes
<1>5. /\ rows' \in [PartitionIds -> SUBSET Records] /\ rows'[from] = {}
      /\ \A q \in PartitionIds \ {from, to} : rows'[q] = rows[q]
      /\ to # from => rows'[to] = rows[to] \cup Moved(take[a].rows)
  BY <1>1, TakeTypes DEF RecordsInv, PartitionTypes, Moved, Copying
<1>6. PartitionTypes'
  <2>1. late' \in BOOLEAN
    BY <1>1
  <2> QED BY <1>1, <1>2, <1>3, <1>4, <1>5, <2>1 DEF RecordsInv, PartitionTypes
<1>7. TablesStay'
  <2>1. ASSUME NEW b \in Agbots \ {a}, Copying(b)
        PROVE  /\ take[b].from \in PartitionIds \ {from} /\ agbot[b].part \in PartitionIds \ {from}
    BY <1>1, <2>1, TakeTypes DEF RecordsInv, TablesStay, Copying, AgbotRuns
  <2> QED BY <1>1, <1>2, <1>3, <2>1 DEF RecordsInv, TablesStay, Copying
<1>8. AgbotRuns'
  <2>1. take[a].rows \subseteq everWritten /\ \A p \in PartitionIds : rows[p] \subseteq everWritten
    BY <1>1 DEF RecordsInv, AgbotRuns, Copying
  <2>2. \A p \in PartitionIds : rows'[p] \subseteq everWritten
    BY <1>5, <2>1 DEF Moved
  <2> QED BY <1>1, <1>2, <2>2 DEF RecordsInv, AgbotRuns
<1>9. ASSUME InGoodOrder' PROVE TakesAll' /\ \A r \in written' \ SameOrg : \E q \in PartitionIds : Located(r, q)'
  <2>1. InGoodOrder /\ TakesAll /\ owner[from] = a /\ (owner[to] = a \/ take[a].rows = {})
    BY <1>1, <1>9 DEF InGoodOrder, RecordsInv
  <2>2. from # to /\ take[a].rows = rows[from]
    BY <1>1, <2>1 DEF TakesAll, Copying
  <2>3. TakesAll'
    <3>1. ASSUME NEW b \in Agbots \ {a}, Copying(b), owner'[take[b].from] = b
          PROVE  owner[take[b].from] = b /\ rows'[take[b].from] = rows[take[b].from]
      <4>1. take[b].from \in PartitionIds \ {from} /\ owner[take[b].from] = b
        BY <1>4, <3>1, TakeTypes, PartitionAssumption DEF Copying
      <4>2. CASE take[b].from = to
        <5>1. take[a].rows = {}
          BY <2>1, <3>1, <4>1, <4>2
        <5> QED BY <1>5, <2>2, <4>1, <4>2, <5>1 DEF Moved
      <4>3. CASE take[b].from # to
        BY <1>5, <4>1, <4>3
      <4> QED BY <4>1, <4>2, <4>3
    <3>2. ASSUME NEW b \in Agbots \ {a}
          PROVE  /\ take'[b].step \in {"claimed", "copied"} => take'[b].from # agbot'[b].part
                 /\ Copying(b)' /\ owner'[take'[b].from] = b => take'[b].rows = rows'[take'[b].from]
      <4>1. take'[b] = take[b] /\ agbot' = agbot
        BY <1>1, <1>2
      <4>2. take[b].step \in {"claimed", "copied"} => take[b].from # agbot[b].part
        BY <2>1 DEF TakesAll
      <4>3. Copying(b) /\ owner'[take[b].from] = b => take[b].rows = rows'[take[b].from]
        BY <2>1, <3>1 DEF TakesAll
      <4> QED BY <4>1, <4>2, <4>3 DEF Copying
    <3>3. take'[a].step = "idle"
      BY <1>2
    <3> QED BY <3>2, <3>3 DEF TakesAll, Copying
  <2>4. ASSUME NEW r \in written \ SameOrg PROVE \E q \in PartitionIds : Located(r, q)'
    <3>1. PICK p \in PartitionIds : Located(r, p)
      BY <2>1, <2>4 DEF RecordsInv
    <3>2. CASE p = from
      <4>1. r \in Moved(take[a].rows) /\ owner[to] = a
        BY <2>1, <2>2, <2>4, <3>1, <3>2 DEF Located, Moved
      <4>2. owner'[to] # NoPartition /\ tables'[to] >= 2
        BY <1>1, <1>3, <1>4, <2>2, <4>1, PartitionAssumption DEF RecordsInv, TablesStay, AllTables
      <4>3. Located(r, to)'
        BY <1>1, <1>5, <2>2, <3>1, <3>2, <4>1, <4>2 DEF Located, HasAgreements
      <4> QED BY <1>1, <4>3
    <3>3. CASE p # from
      <4>1. r \notin take[a].rows
        BY <1>1, <2>2, <3>1, <3>3 DEF Located
      <4>2. Located(r, p)'
        BY <1>1, <1>3, <1>4, <1>5, <2>2, <3>1, <3>3, <4>1 DEF Located, HasAgreements, Moved
      <4> QED BY <4>2
    <3> QED BY <3>2, <3>3
  <2> QED BY <1>1, <2>3, <2>4
<1> QED BY <1>6, <1>7, <1>8, <1>9 DEF RecordsInv

LEMMA RecordsInvStep == RecordsInv /\ [PartitionNext]_partitionVars => RecordsInv'
<1> SUFFICES ASSUME RecordsInv, [PartitionNext]_partitionVars PROVE RecordsInv'
  OBVIOUS
<1>1. CASE UNCHANGED partitionVars
  BY <1>1 DEF partitionVars, RecordsInv, PartitionTypes, AgbotRuns, TablesStay, TakesAll, InGoodOrder, Located, Copying,
              HasAgreements
<1> QED BY <1>1, QuietInv, StartAgbotInv, CreateTablesInv, InsertInv, DeleteInv, ClaimInv, CopyInv, CommitInv
        DEF PartitionNext

\* No record is lost, for any number of agbots, partitions and records: while nobody writes
\* to a partition it has lost and nobody claims its own, a written record is in exactly
\* one partition, which the agbots can find unless it was given up because the database
\* failed while findUnownedPartition verified it.
THEOREM RecordsAreKept == PartitionSpec => []NoRecordLost
<1>1. PartitionInit => RecordsInv
  <2> SUFFICES ASSUME PartitionInit PROVE RecordsInv
    OBVIOUS
  <2>1. \A a \in Agbots : take[a].step = "idle" /\ agbot[a].phase = "off"
    BY NoTakeIdle DEF PartitionInit
  <2>2. PartitionTypes
    <3>1. /\ owner \in [PartitionIds -> Agbots \cup {NoOwner, NoPartition}]
          /\ beaten \in [PartitionIds -> BOOLEAN] /\ rows \in [PartitionIds -> SUBSET Records]
      BY DEF PartitionInit
    <3>2. tables \in [PartitionIds -> 0 .. AllTables] /\ serial \in Nat
      BY DEF PartitionInit, AllTables
    <3>3. agbot \in [Agbots -> [phase : {"off", "starting", "up", "quiesced", "gone"}, part : PartitionIds \cup {0}]]
      BY DEF PartitionInit
    <3>4. take \in [Agbots -> Takes]
      BY NoTakeIdle DEF PartitionInit
    <3>5. written \subseteq everWritten /\ everWritten \subseteq Records /\ late \in BOOLEAN /\ selfTaken \in BOOLEAN
      BY DEF PartitionInit
    <3> QED BY <3>1, <3>2, <3>3, <3>4, <3>5 DEF PartitionTypes
  <2>3. AgbotRuns /\ TablesStay /\ TakesAll
    BY <2>1 DEF PartitionInit, AgbotRuns, TablesStay, TakesAll, Copying
  <2> QED BY <2>2, <2>3 DEF RecordsInv, PartitionInit
<1>2. RecordsInv => NoRecordLost
  BY DEF RecordsInv, InGoodOrder, Located, NoRecordLost
<1> QED BY <1>1, <1>2, RecordsInvStep, PTL DEF PartitionSpec

-----------------------------------------------------------------------------
(* The cache of the exchange client: stale only if a read raced a change.    *)

Changes == [thing : Things \cup {"served"}, modified : BOOLEAN]
CallOK(k) ==
  /\ k.op \in {"none", "asking", "listed", "answered", "writing", "written"}
  /\ k.op \in {"asking", "answered"} => k.thing \in Things
  /\ k.op \in {"listed", "writing", "written"} => k.thing \in Singles

CacheTypes ==
  /\ kind = [r \in Things |-> kind[r]] /\ kind[Service] \in {"plain", "underscored"}
  /\ \A r \in Singles : kind[r] \in Kinds
  /\ held = [r \in Singles |-> held[r]] /\ defs = [v \in DefVersions |-> defs[v]]
  /\ cached = [r \in Singles |-> cached[r]]
  /\ feed \in Seq(Changes) /\ batch \in Seq(Changes)
  /\ started \in {"no", "id", "yes"} /\ (started # "yes" => batch = <<>>)
  /\ call = [c \in Callers |-> call[c]] /\ \A c \in Callers : CallOK(call[c])

\* What a change is about: what it deletes, and what it should have.
Touches(d) == DeleteCacheResourceFromChange(d) \cup Overlooks(d)

\* A change that is about r is still to be fetched, or processed.
InBatch(r) == \E d \in Range(batch) : d.thing # "served" /\ Received(d) /\ r \in Touches(d)
InFeed(r) == \E d \in Range(feed) : d.thing # "served" /\ r \in Touches(d)
Awaited(r) == InBatch(r) \/ InFeed(r)

Agrees(m) == \A v \in DOMAIN m : m[v] = defs[v]
\* What is cached, and what a read under way is going to store, is what the exchange holds.
FreshSingle(r) ==
  /\ Hit(r) => cached[r] = held[r]
  /\ \A c \in Callers : call[c].op \in {"listed", "answered"} /\ call[c].thing = r => call[c].new = held[r]
FreshService ==
  /\ Agrees(cachedDefs)
  /\ \A c \in Callers : call[c].thing = Service =>
       /\ call[c].op \in {"asking", "answered"} => Agrees(call[c].old)
       /\ call[c].op = "answered" => Agrees(call[c].new)
Fresh(r) == IF r = Service THEN FreshService ELSE FreshSingle(r)

\* Before the first poll the changes of every organization are still in the feed.
Covered(r) == started # "yes" \/ Home(r) \in orgList
Excused(r) == Awaited(r) \/ r \in raced \/ r \in overlooked

CacheInv ==
  /\ CacheTypes
  /\ \A r \in Things : Covered(r) /\ ~Excused(r) => Fresh(r)

LEMMA PendingIsAwaited == \A r : r \in Pending <=> Awaited(r)
BY DEF Pending, Awaited, InBatch, InFeed, Touches

LEMMA RangeAppend ==
  ASSUME NEW S, NEW s \in Seq(S), NEW e \in S
  PROVE  Range(Append(s, e)) = Range(s) \cup {e}
<1>1. \A x \in Range(Append(s, e)) : x \in Range(s) \cup {e}
  BY DEF Range
<1>2. \A x \in Range(s) : x \in Range(Append(s, e))
  <2> SUFFICES ASSUME NEW i \in DOMAIN s PROVE s[i] \in Range(Append(s, e))
    BY DEF Range
  <2>1. i \in DOMAIN Append(s, e) /\ Append(s, e)[i] = s[i]
    OBVIOUS
  <2> QED BY <2>1 DEF Range
<1>3. e \in Range(Append(s, e))
  <2>1. Len(s) + 1 \in DOMAIN Append(s, e) /\ Append(s, e)[Len(s) + 1] = e
    OBVIOUS
  <2> QED BY <2>1 DEF Range
<1> QED BY <1>1, <1>2, <1>3

LEMMA RangeTail ==
  ASSUME NEW S, NEW s \in Seq(S), s # <<>>
  PROVE  Range(s) = {Head(s)} \cup Range(Tail(s)) /\ Head(s) \in S /\ Tail(s) \in Seq(S)
<1>0. Len(s) \in Nat /\ Len(s) > 0 /\ Tail(s) \in Seq(S) /\ Head(s) = s[1] /\ Head(s) \in S
      /\ DOMAIN s = 1 .. Len(s) /\ DOMAIN Tail(s) = 1 .. (Len(s) - 1)
      /\ \A i \in 1 .. (Len(s) - 1) : Tail(s)[i] = s[i + 1]
  OBVIOUS
<1>1. \A x \in Range(s) : x \in {Head(s)} \cup Range(Tail(s))
  <2> SUFFICES ASSUME NEW i \in 1 .. Len(s), i # 1 PROVE s[i] \in Range(Tail(s))
    BY <1>0 DEF Range
  <2>1. i - 1 \in DOMAIN Tail(s) /\ Tail(s)[i - 1] = s[i]
    BY <1>0
  <2> QED BY <2>1 DEF Range
<1>2. \A x \in Range(Tail(s)) : x \in Range(s)
  <2> SUFFICES ASSUME NEW i \in 1 .. (Len(s) - 1) PROVE Tail(s)[i] \in Range(s)
    BY <1>0 DEF Range
  <2>1. i + 1 \in DOMAIN s /\ Tail(s)[i] = s[i + 1]
    BY <1>0
  <2> QED BY <2>1 DEF Range
<1>3. Head(s) \in Range(s)
  BY <1>0 DEF Range
<1> QED BY <1>0, <1>1, <1>2, <1>3

LEMMA RangeOf ==
  ASSUME NEW S, NEW s \in Seq(S)
  PROVE  \A x \in Range(s) : x \in S
BY DEF Range

\* What a change is about is all of one organization.
LEMMA OneHome ==
  ASSUME CacheTypes, NEW d \in Changes, d.thing # "served", NEW r \in Touches(d)
  PROVE  Home(r) = Home(d.thing) /\ r \in Things
<1>1. d.thing \in Things /\ Service \in Things
  BY DEF Changes, Things
<1>2. CASE r \in Overlooks(d)
  BY <1>1, <1>2 DEF Overlooks
<1>3. CASE r \in DeleteCacheResourceFromChange(d)
  <2>1. CASE d.thing = Service
    <3>1. r \in Things /\ kind[r] \in {"plain", "keys", "auths"}
      BY <1>3, <2>1 DEF DeleteCacheResourceFromChange
    <3>2. r = Service \/ kind[r] \in OfService
      BY <3>1 DEF CacheTypes, Things, Kinds, OfService
    <3> QED BY <2>1, <3>1, <3>2 DEF Home
  <2>2. CASE d.thing # Service
    BY <1>1, <1>3, <2>2 DEF DeleteCacheResourceFromChange, DeleteOrgCachedResources
  <2> QED BY <2>1, <2>2
<1> QED BY <1>2, <1>3 DEF Touches

\* A change is about what has changed.
LEMMA TouchesItself ==
  ASSUME CacheTypes, NEW d \in Changes, d.thing # "served"
  PROVE  d.thing \in Touches(d)
<1>1. d.thing \in Things
  BY DEF Changes
<1>2. CASE d.thing = Service
  BY <1>1, <1>2 DEF Touches, Overlooks, DeleteCacheResourceFromChange, CacheTypes
<1>3. CASE d.thing # Service
  BY <1>1, <1>3 DEF Touches, Overlooks, DeleteCacheResourceFromChange
<1> QED BY <1>2, <1>3

LEMMA TouchesStays ==
  ASSUME UNCHANGED kind
  PROVE  \A d : /\ Touches(d)' = Touches(d)
                /\ DeleteCacheResourceFromChange(d)' = DeleteCacheResourceFromChange(d)
                /\ Overlooks(d)' = Overlooks(d)
BY DEF Touches, Overlooks, DeleteCacheResourceFromChange, DeleteOrgCachedResources, Home

LEMMA HomeStays ==
  ASSUME UNCHANGED kind
  PROVE  \A r : Home(r)' = Home(r)
BY DEF Home

\* Nothing of the cache is invalidated, and what was excused still is.
LEMMA StaysFresh ==
  ASSUME CacheInv, CacheTypes', UNCHANGED kind,
         \A r \in Things : Covered(r)' => Covered(r),
         \A r \in Things : Covered(r)' /\ Excused(r) => Excused(r)',
         \A r \in Things : Fresh(r) => Fresh(r)' \/ Excused(r)'
  PROVE  CacheInv'
BY DEF CacheInv

LEMMA CoveredStays ==
  ASSUME UNCHANGED <<kind, started, orgList>>
  PROVE  \A r : Covered(r)' <=> Covered(r)
BY DEF Covered, Home

\* A step that leaves feed and batch alone.
LEMMA AwaitedStays ==
  ASSUME UNCHANGED <<kind, feed, batch, asked>>
  PROVE  \A r : Awaited(r)' <=> Awaited(r)
<1>1. \A d : Received(d)' <=> Received(d)
  BY DEF Received, Home
<1> QED BY <1>1, TouchesStays DEF Awaited, InBatch, InFeed

\* A change is announced.
LEMMA ChangeAnnounced ==
  ASSUME CacheInv, UNCHANGED <<kind, batch, asked>>, NEW e \in Changes, feed' = Append(feed, e)
  PROVE  /\ feed' \in Seq(Changes)
         /\ \A r : Awaited(r) => Awaited(r)'
         /\ e.thing # "served" => \A r \in Touches(e) : Awaited(r)'
<1>1. Range(feed') = Range(feed) \cup {e} /\ feed' \in Seq(Changes)
  BY RangeAppend DEF CacheInv, CacheTypes
<1>2. \A d : Received(d)' <=> Received(d)
  BY DEF Received, Home
<1> QED BY <1>1, <1>2, TouchesStays DEF Awaited, InBatch, InFeed

-----------------------------------------------------------------------------
(* The exchange changes. *)

\* A resource is changed, by whomever: only what the change is about is not fresh.
LEMMA ChangeOfOne ==
  ASSUME CacheInv, UNCHANGED <<feedVars, cached, cachedDefs, historyVars>>,
         NEW r \in Singles, NEW new, SetTo(r, new),
         call' = [c \in Callers |-> call'[c]], \A c \in Callers : CallOK(call'[c]),
         \A c \in Callers : call'[c] = call[c] \/ call'[c].op \notin {"asking", "listed", "answered"}
  PROVE  CacheInv'
<1> DEFINE modified == held[r] # 0 /\ new # 0
<1> DEFINE e == [thing |-> r, modified |-> modified]
<1>1. e \in Changes /\ e.thing = r
  <2>1. modified \in BOOLEAN
    OBVIOUS
  <2> HIDE DEF modified
  <2> QED BY <2>1 DEF Changes, Things
<1>2. r # "served" /\ r # Service
  BY CacheAssumption
<1>3. /\ feed' = Append(feed, e) /\ held' = [held EXCEPT ![r] = new]
      /\ UNCHANGED <<kind, defs, batch, asked, started, orgList, cached, cachedDefs, raced, overlooked>>
  BY DEF SetTo, Announce, feedVars, historyVars
<1> HIDE DEF e
<1>4. feed' \in Seq(Changes) /\ (\A x : Awaited(x) => Awaited(x)') /\ Awaited(r)'
  <2>1. r \in Touches(e)
    BY <1>1, <1>2, TouchesItself DEF CacheInv
  <2> QED BY <1>1, <1>2, <1>3, <2>1, ChangeAnnounced
<1>5. CacheTypes'
  BY <1>3, <1>4 DEF CacheInv, CacheTypes
<1>6. \A x \in Things \ {r} : Fresh(x) => Fresh(x)'
  <2>1. \A x \in Singles \ {r} : FreshSingle(x) => FreshSingle(x)'
    <3>1. \A x \in Singles \ {r} : held'[x] = held[x]
      BY <1>3 DEF CacheInv, CacheTypes
    <3> QED BY <1>3, <3>1 DEF FreshSingle, Hit
  <2>2. FreshService => FreshService'
    BY <1>3 DEF FreshService, Agrees
  <2> QED BY <2>1, <2>2 DEF Fresh, Things
<1>7. \A x \in Things : (Excused(x) => Excused(x)') /\ (x = r => Excused(x)')
  BY <1>3, <1>4 DEF Excused
<1> QED BY <1>3, <1>5, <1>6, <1>7, CoveredStays, StaysFresh

LEMMA EditSingleInv ==
  ASSUME CacheInv, NEW r \in Singles, EditSingle(r)
  PROVE  CacheInv'
<1>1. PICK new : SetTo(r, new)
  BY DEF EditSingle
<1>2. UNCHANGED <<feedVars, cached, cachedDefs, historyVars, call>>
  BY DEF EditSingle
<1>3. call' = [c \in Callers |-> call'[c]] /\ \A c \in Callers : CallOK(call'[c])
  BY <1>2 DEF CacheInv, CacheTypes
<1> QED BY <1>1, <1>2, <1>3, ChangeOfOne

LEMMA CarriedOutInv ==
  ASSUME CacheInv, NEW c \in Callers, CarriedOut(c)
  PROVE  CacheInv'
<1>1. call[c].thing \in Singles
  BY DEF CarriedOut, CacheInv, CacheTypes, CallOK
<1>2. PICK new : /\ SetTo(call[c].thing, new)
                 /\ Goes(c, [op |-> "written", thing |-> call[c].thing, after |-> call[c].after, new |-> new])
  BY DEF CarriedOut
<1>3. UNCHANGED <<feedVars, cached, cachedDefs, historyVars>>
  BY DEF CarriedOut
<1> DEFINE w == [op |-> "written", thing |-> call[c].thing, after |-> call[c].after, new |-> new]
<1>4. CallOK(w) /\ w.op = "written" /\ call' = [call EXCEPT ![c] = w]
  BY <1>1, <1>2 DEF CallOK, Goes
<1> HIDE DEF w
<1>5. /\ call' = [d \in Callers |-> call'[d]] /\ call'[c] = w
      /\ \A d \in Callers \ {c} : call'[d] = call[d]
  BY <1>4 DEF CacheInv, CacheTypes
<1>6. \A d \in Callers : CallOK(call'[d])
  BY <1>4, <1>5 DEF CacheInv, CacheTypes
<1> QED BY <1>1, <1>2, <1>3, <1>4, <1>5, <1>6, ChangeOfOne

LEMMA EditServiceInv ==
  ASSUME CacheInv, NEW v \in DefVersions, EditService(v)
  PROVE  CacheInv'
<1> DEFINE e == [thing |-> Service, modified |-> TRUE]
<1>1. e \in Changes /\ e.thing # "served" /\ e.thing = Service
  BY DEF Changes, Things, Service
<1>2. /\ feed' = Append(feed, e)
      /\ UNCHANGED <<kind, batch, asked, started, orgList, cached, cachedDefs, raced, overlooked, call>>
  BY DEF EditService, Announce, feedVars, historyVars
<1> HIDE DEF e
<1>3. Service \in Touches(e) /\ \A r \in Singles : kind[r] \in {"keys", "auths"} => r \in Touches(e)
  BY <1>1, TouchesItself DEF CacheInv, Touches, DeleteCacheResourceFromChange, Things
<1>4. /\ feed' \in Seq(Changes) /\ \A x : Awaited(x) => Awaited(x)'
      /\ Awaited(Service)' /\ \A r \in Singles : kind[r] \in {"keys", "auths"} => Awaited(r)'
  BY <1>1, <1>2, <1>3, ChangeAnnounced
<1>5. /\ held' = [r \in Singles |-> held'[r]] /\ defs' = [w \in DefVersions |-> defs'[w]]
      /\ \A r \in Singles : kind[r] \notin {"keys", "auths"} => held'[r] = held[r]
  BY DEF EditService, CacheInv, CacheTypes
<1>6. CacheTypes'
  BY <1>2, <1>4, <1>5 DEF CacheInv, CacheTypes
<1>7. \A r \in Singles : kind[r] \notin {"keys", "auths"} /\ Fresh(r) => Fresh(r)'
  BY <1>2, <1>5, CacheAssumption DEF Fresh, FreshSingle, Hit
<1>8. \A r \in Things : Excused(r) => Excused(r)'
  BY <1>2, <1>4 DEF Excused
<1>9. \A r \in Things : Fresh(r) => Fresh(r)' \/ Excused(r)'
  BY <1>4, <1>7 DEF Excused, Things
<1> QED BY <1>2, <1>6, <1>8, <1>9, CoveredStays, StaysFresh

LEMMA EditServedInv ==
  ASSUME CacheInv, NEW o \in Orgs, EditServed(o)
  PROVE  CacheInv'
<1> DEFINE e == [thing |-> "served", modified |-> TRUE]
<1>1. e \in Changes
  BY DEF Changes
<1>2. /\ feed' = Append(feed, e)
      /\ UNCHANGED <<kind, held, defs, batch, asked, started, orgList, cached, cachedDefs, raced, overlooked, call>>
  BY DEF EditServed, Announce, feedVars, historyVars
<1> HIDE DEF e
<1>3. feed' \in Seq(Changes) /\ \A x : Awaited(x) => Awaited(x)'
  BY <1>1, <1>2, ChangeAnnounced
<1>4. CacheTypes'
  BY <1>2, <1>3 DEF CacheInv, CacheTypes
<1>5. \A r \in Things : Fresh(r) => Fresh(r)'
  BY <1>2 DEF Fresh, FreshSingle, FreshService, Hit, Agrees
<1>6. \A r \in Things : Excused(r) => Excused(r)'
  BY <1>2, <1>3 DEF Excused
<1> QED BY <1>2, <1>4, <1>5, <1>6, CoveredStays, StaysFresh

-----------------------------------------------------------------------------
(* The feed. *)

LEMMA RangeSplit ==
  ASSUME NEW S, NEW s \in Seq(S), NEW n \in 1 .. Len(s)
  PROVE  /\ SubSeq(s, 1, n) \in Seq(S) /\ SubSeq(s, n + 1, Len(s)) \in Seq(S)
         /\ \A x \in Range(s) : x \in Range(SubSeq(s, 1, n)) \/ x \in Range(SubSeq(s, n + 1, Len(s)))
<1>1. SubSeq(s, 1, n) \in Seq(S) /\ Len(SubSeq(s, 1, n)) = n /\ \A i \in 1 .. n : SubSeq(s, 1, n)[i] = s[i]
  OBVIOUS
<1>2. /\ SubSeq(s, n + 1, Len(s)) \in Seq(S) /\ Len(SubSeq(s, n + 1, Len(s))) = Len(s) - n
      /\ \A i \in 1 .. (Len(s) - n) : SubSeq(s, n + 1, Len(s))[i] = s[n + i]
  OBVIOUS
<1>3. ASSUME NEW i \in 1 .. Len(s)
      PROVE  s[i] \in Range(SubSeq(s, 1, n)) \/ s[i] \in Range(SubSeq(s, n + 1, Len(s)))
  <2>1. CASE i <= n
    <3>1. i \in DOMAIN SubSeq(s, 1, n) /\ SubSeq(s, 1, n)[i] = s[i]
      BY <1>1, <2>1
    <3> QED BY <3>1 DEF Range
  <2>2. CASE i > n
    <3>1. i - n \in DOMAIN SubSeq(s, n + 1, Len(s)) /\ SubSeq(s, n + 1, Len(s))[i - n] = s[i]
      BY <1>2, <2>2
    <3> QED BY <3>1 DEF Range
  <2> QED BY <2>1, <2>2
<1>4. \A x \in Range(s) : \E i \in 1 .. Len(s) : x = s[i]
  BY DEF Range
<1> QED BY <1>1, <1>2, <1>3, <1>4

LEMMA FetchChangesInv ==
  ASSUME CacheInv, FetchChanges
  PROVE  CacheInv'
<1>1. /\ UNCHANGED <<kind, held, defs, orgList, cached, cachedDefs, raced, overlooked, call, started>>
      /\ batch = <<>> /\ asked' = orgList /\ started = "yes"
  BY DEF FetchChanges, historyVars
<1>2. PICK n \in 1 .. Len(feed) : batch' = SubSeq(feed, 1, n) /\ feed' = SubSeq(feed, n + 1, Len(feed))
  BY DEF FetchChanges
<1>3. /\ batch' \in Seq(Changes) /\ feed' \in Seq(Changes)
      /\ \A x \in Range(feed) : x \in Range(batch') \/ x \in Range(feed')
  BY <1>2, RangeSplit DEF CacheInv, CacheTypes
<1>4. CacheTypes'
  BY <1>1, <1>3 DEF CacheInv, CacheTypes
<1>5. ASSUME NEW r \in Things, Covered(r)', Awaited(r) PROVE Awaited(r)'
  <2>1. ~InBatch(r)
    BY <1>1 DEF InBatch, Range
  <2>2. PICK d \in Range(feed) : d.thing # "served" /\ r \in Touches(d)
    BY <1>5, <2>1 DEF Awaited, InFeed
  <2>3. d \in Changes
    BY <2>2, RangeOf DEF CacheInv, CacheTypes
  <2>4. Home(d.thing)' \in orgList /\ r \in Touches(d)'
    BY <1>1, <1>5, <2>2, <2>3, OneHome, HomeStays, TouchesStays DEF Covered, CacheInv
  <2>5. Received(d)'
    BY <1>1, <2>4 DEF Received
  <2> QED BY <1>3, <2>2, <2>4, <2>5 DEF Awaited, InBatch, InFeed
<1>6. \A r \in Things : Covered(r)' /\ Excused(r) => Excused(r)'
  BY <1>1, <1>5 DEF Excused
<1>7. \A r \in Things : Fresh(r) => Fresh(r)'
  BY <1>1 DEF Fresh, FreshSingle, FreshService, Hit, Agrees
<1> QED BY <1>1, <1>4, <1>6, <1>7, CoveredStays, StaysFresh

\* What is invalidated is fresh from then on, unless a read is under way; the rest of
\* the cache is as it was, or as it was verified.
LEMMA InvalidateFresh ==
  ASSUME CacheTypes, UNCHANGED <<kind, held, defs, call>>, NEW rs \in SUBSET Things, NEW entries,
         Invalidate(rs, entries),
         \A r \in Singles : entries[r] \in {cached[r], held[r]}
  PROVE  /\ cached' = [r \in Singles |-> cached'[r]]
         /\ \A r \in rs : r \notin raced' => Fresh(r)'
         /\ \A r \in Things \ rs : (Fresh(r) => Fresh(r)') /\ (r \in raced => r \in raced')
<1>1. /\ cached' = [r \in Singles |-> cached'[r]]
      /\ \A r \in Singles : IF r \in rs THEN cached'[r] = Absent ELSE cached'[r] \in {cached[r], held[r]}
  BY DEF Invalidate
<1>2. ASSUME NEW r \in rs, r \notin raced', r # Service PROVE FreshSingle(r)'
  <2>1. \A c \in Callers : ~(call[c].op \in {"listed", "answered"} /\ call[c].thing = r)
    BY <1>2 DEF Invalidate, UnderWay
  <2> QED BY <1>1, <1>2, <2>1 DEF FreshSingle, Hit, Things
<1>3. ASSUME Service \in rs, Service \notin raced' PROVE FreshService'
  <2>1. \A c \in Callers : ~(call[c].op = "answered" /\ call[c].thing = Service)
    BY <1>3 DEF Invalidate, UnderWay
  <2>2. ~Merging
    BY <1>3 DEF Invalidate
  <2>3. cachedDefs' = <<>>
    BY <1>3 DEF Invalidate
  <2>4. \A c \in Callers : call[c].op = "asking" /\ call[c].thing = Service => call[c].old = <<>>
    BY <2>2 DEF Merging
  <2> QED BY <2>1, <2>3, <2>4 DEF FreshService, Agrees
<1>4. ASSUME NEW r \in Singles \ rs, FreshSingle(r) PROVE FreshSingle(r)'
  BY <1>1, <1>4 DEF FreshSingle, Hit
<1>5. ASSUME Service \notin rs, FreshService PROVE FreshService'
  BY <1>5 DEF FreshService, Agrees, Invalidate
<1>6. \A r \in Things \ rs : r \in raced => r \in raced'
  BY DEF Invalidate
<1> QED BY <1>1, <1>2, <1>3, <1>4, <1>5, <1>6 DEF Fresh, Things

\* What verifyOrg leaves in the cache.
LEMMA VerifiedEntries ==
  ASSUME CacheTypes, NEW os
  PROVE  /\ Verified(os) = [r \in Singles |-> Verified(os)[r]]
         /\ \A r \in Singles : Verified(os)[r] \in {cached[r], held[r]}
BY DEF Verified

LEMMA GetChangeIdInv ==
  ASSUME CacheInv, GetChangeId
  PROVE  CacheInv'
<1>1. /\ UNCHANGED <<kind, held, defs, orgList, cached, cachedDefs, raced, call, batch, asked>>
      /\ started = "no" /\ started' = "id" /\ feed' = <<>> /\ batch = <<>>
  BY DEF GetChangeId, CacheInv, CacheTypes
<1>2. CacheTypes'
  BY <1>1 DEF CacheInv, CacheTypes
<1>3. \A r : Awaited(r) => r \in overlooked'
  BY <1>1 DEF GetChangeId, Awaited, InBatch, InFeed, Touches, Range
<1>4. overlooked \subseteq overlooked'
  BY DEF GetChangeId
<1>5. \A r \in Things : Excused(r) => Excused(r)'
  BY <1>1, <1>3, <1>4 DEF Excused
<1>6. \A r \in Things : Fresh(r) => Fresh(r)'
  BY <1>1 DEF Fresh, FreshSingle, FreshService, Hit, Agrees
<1>7. \A r \in Things : Covered(r)' => Covered(r)
  BY <1>1 DEF Covered
<1> QED BY <1>1, <1>2, <1>5, <1>6, <1>7, StaysFresh

LEMMA FirstServedOrgsInv ==
  ASSUME CacheInv, FirstServedOrgs
  PROVE  CacheInv'
<1>1. /\ UNCHANGED <<kind, held, defs, cachedDefs, raced, overlooked, call, batch, asked, feed>>
      /\ started = "id" /\ started' = "yes"
  BY DEF FirstServedOrgs, exchangeSideVars, historyVars
<1>2. PICK os : cached' = Verified(os)
  BY DEF FirstServedOrgs
<1>3. /\ cached' = [r \in Singles |-> cached'[r]]
      /\ \A r \in Singles : cached'[r] \in {cached[r], held[r]}
  BY <1>2, VerifiedEntries DEF CacheInv
<1>4. CacheTypes'
  BY <1>1, <1>3 DEF CacheInv, CacheTypes
<1>5. \A r \in Things : Fresh(r) => Fresh(r)'
  <2>1. \A r \in Singles : FreshSingle(r) => FreshSingle(r)'
    BY <1>1, <1>3 DEF FreshSingle, Hit
  <2>2. FreshService => FreshService'
    BY <1>1 DEF FreshService, Agrees
  <2> QED BY <2>1, <2>2 DEF Fresh, Things
<1>6. \A r \in Things : Excused(r) => Excused(r)'
  BY <1>1, AwaitedStays DEF Excused
<1>7. \A r \in Things : Covered(r)' => Covered(r)
  BY <1>1 DEF Covered
<1> QED BY <1>1, <1>4, <1>5, <1>6, <1>7, StaysFresh

LEMMA ProcessChangeInv ==
  ASSUME CacheInv, ProcessChange
  PROVE  CacheInv'
<1> DEFINE c == Head(batch)
<1>1. /\ UNCHANGED <<kind, held, defs, feed, asked, call, started>>
      /\ batch # <<>> /\ batch' = Tail(batch) /\ started = "yes"
  BY DEF ProcessChange, exchangeSideVars, CacheInv, CacheTypes
<1>2. Range(batch) = {c} \cup Range(batch') /\ c \in Changes /\ batch' \in Seq(Changes)
  BY <1>1, RangeTail DEF CacheInv, CacheTypes
<1>3. \A d : Received(d)' <=> Received(d)
  BY <1>1, HomeStays DEF Received
<1>4. \A r : Awaited(r) <=> Awaited(r)' \/ (c.thing # "served" /\ Received(c) /\ r \in Touches(c))
  BY <1>1, <1>2, <1>3, TouchesStays DEF Awaited, InBatch, InFeed
<1>5. ASSUME cached' = [r \in Singles |-> cached'[r]] PROVE CacheTypes'
  BY <1>1, <1>2, <1>5 DEF CacheInv, CacheTypes
<1>6. ASSUME NEW failed, c.thing = "served", UpdateServedOrgs(failed) PROVE CacheInv'
  <2> DEFINE changed == (orgList \ orgList') \cup (orgList' \ orgList)
  <2> DEFINE rs == DeleteOrgCachedResources(changed)
  <2> DEFINE entries == Verified(ToVerify(failed))
  <2>1. /\ rs \in SUBSET Things /\ Invalidate(rs, entries)
        /\ \A r \in Things : r \in overlooked /\ r \notin rs => r \in overlooked'
        /\ \A r \in Things \ rs : Home(r) \in changed => r \in overlooked'
    <3>1. \A r \in Things : kind[r] = "org" => r \in Singles
      BY DEF CacheInv, CacheTypes, Things
    <3> QED BY <1>6, <3>1 DEF UpdateServedOrgs, DeleteOrgCachedResources
  <2>2. \A r \in Singles : entries[r] \in {cached[r], held[r]}
    BY VerifiedEntries DEF CacheInv
  <2> HIDE DEF entries, rs
  <2>3. /\ cached' = [r \in Singles |-> cached'[r]]
        /\ \A r \in rs : r \notin raced' => Fresh(r)'
        /\ \A r \in Things \ rs : (Fresh(r) => Fresh(r)') /\ (r \in raced => r \in raced')
    BY <1>1, <2>1, <2>2, InvalidateFresh DEF CacheInv
  <2>4. ASSUME NEW r \in Things, Covered(r)', ~Excused(r)' PROVE Fresh(r)'
    <3>1. CASE r \in rs
      BY <2>3, <2>4, <3>1 DEF Excused
    <3>2. CASE r \notin rs
      <4>1. Home(r) \in orgList' /\ Home(r) \notin changed
        BY <1>1, <2>1, <2>4, <3>2, HomeStays DEF Covered, Excused
      <4>2. Covered(r)
        BY <4>1 DEF Covered
      <4>3. ~Excused(r)
        BY <1>4, <1>6, <2>1, <2>3, <2>4, <3>2 DEF Excused
      <4> QED BY <2>3, <3>2, <4>2, <4>3 DEF CacheInv
    <3> QED BY <3>1, <3>2
  <2> QED BY <1>5, <2>3, <2>4 DEF CacheInv
<1>7. ASSUME c.thing # "served", Received(c), UNCHANGED orgList,
             Invalidate(DeleteCacheResourceFromChange(c), cached),
             overlooked' = (overlooked \ DeleteCacheResourceFromChange(c)) \cup Overlooks(c)
      PROVE  CacheInv'
  <2> DEFINE rs == DeleteCacheResourceFromChange(c)
  <2>1. /\ rs \in SUBSET Things /\ Invalidate(rs, cached)
        /\ \A r \in Touches(c) : r \in rs \/ r \in overlooked'
        /\ \A r \in Things : r \in overlooked /\ r \notin rs => r \in overlooked'
    BY <1>2, <1>7, OneHome DEF Touches, CacheInv
  <2> HIDE DEF rs
  <2>2. /\ cached' = [r \in Singles |-> cached'[r]]
        /\ \A r \in rs : r \notin raced' => Fresh(r)'
        /\ \A r \in Things \ rs : (Fresh(r) => Fresh(r)') /\ (r \in raced => r \in raced')
    BY <1>1, <2>1, InvalidateFresh DEF CacheInv
  <2>3. ASSUME NEW r \in Things, Covered(r)', ~Excused(r)' PROVE Fresh(r)'
    <3>1. CASE r \in rs
      BY <2>2, <2>3, <3>1 DEF Excused
    <3>2. CASE r \notin rs
      <4>1. Covered(r)
        BY <1>1, <1>7, <2>3, CoveredStays
      <4>2. ~Excused(r)
        BY <1>4, <2>1, <2>2, <2>3, <3>2 DEF Excused
      <4> QED BY <2>2, <3>2, <4>1, <4>2 DEF CacheInv
    <3> QED BY <3>1, <3>2
  <2> QED BY <1>5, <2>2, <2>3 DEF CacheInv
<1>8. ASSUME ~Received(c), c.thing # "served", UNCHANGED <<orgList, cached, cachedDefs, historyVars>>
      PROVE  CacheInv'
  <2>1. UNCHANGED <<raced, overlooked>>
    BY <1>8 DEF historyVars
  <2>2. CacheTypes'
    BY <1>5, <1>8 DEF CacheInv, CacheTypes
  <2>3. \A r \in Things : Excused(r) => Excused(r)'
    BY <1>4, <1>8, <2>1 DEF Excused
  <2>4. \A r \in Things : Fresh(r) => Fresh(r)'
    BY <1>1, <1>8 DEF Fresh, FreshSingle, FreshService, Hit, Agrees
  <2> QED BY <1>1, <1>8, <2>2, <2>3, <2>4, CoveredStays, StaysFresh
<1>9. \/ \E failed : c.thing = "served" /\ UpdateServedOrgs(failed)
      \/ /\ c.thing # "served" /\ Received(c) /\ UNCHANGED orgList
         /\ Invalidate(DeleteCacheResourceFromChange(c), cached)
         /\ overlooked' = (overlooked \ DeleteCacheResourceFromChange(c)) \cup Overlooks(c)
      \/ ~Received(c) /\ c.thing # "served" /\ UNCHANGED <<orgList, cached, cachedDefs, historyVars>>
  BY DEF ProcessChange
<1> QED BY <1>6, <1>7, <1>8, <1>9

-----------------------------------------------------------------------------
(* The callers. *)

\* One caller goes on, and what it stores agrees with the exchange if it was fresh.
LEMMA CallerStep ==
  ASSUME CacheInv, Quiet, NEW c \in Callers, NEW k, CallOK(k), Goes(c, k),
         cached' = [r \in Singles |-> cached'[r]],
         \A r \in Singles : FreshSingle(r) => /\ Hit(r)' => cached'[r] = held[r]
                                              /\ k.op \in {"listed", "answered"} /\ k.thing = r => k.new = held[r],
         FreshService => /\ Agrees(cachedDefs')
                         /\ k.thing = Service /\ k.op \in {"asking", "answered"} => Agrees(k.old)
                         /\ k.thing = Service /\ k.op = "answered" => Agrees(k.new)
  PROVE  CacheInv'
<1>1. /\ call' = [d \in Callers |-> call'[d]] /\ call'[c] = k
      /\ \A d \in Callers \ {c} : call'[d] = call[d]
  BY DEF CacheInv, CacheTypes, Goes
<1>2. UNCHANGED <<kind, held, defs, feed, started, batch, asked, orgList, raced, overlooked>>
  BY DEF Quiet, exchangeSideVars, feedVars, historyVars
<1>3. CacheTypes'
  BY <1>1, <1>2 DEF CacheInv, CacheTypes
<1>4. \A r \in Singles : FreshSingle(r) => FreshSingle(r)'
  BY <1>1, <1>2 DEF FreshSingle
<1>5. FreshService => FreshService'
  BY <1>1, <1>2 DEF FreshService, Agrees
<1>6. \A r \in Things : Fresh(r) => Fresh(r)'
  BY <1>4, <1>5 DEF Fresh, Things
<1>7. \A r \in Things : Excused(r) => Excused(r)'
  BY <1>2, AwaitedStays DEF Excused
<1> QED BY <1>2, <1>3, <1>6, <1>7, CoveredStays, StaysFresh

\* A call that has nothing to store begins, or one ends; an entry is at most dropped.
LEMMA QuietCall ==
  ASSUME CacheInv, Quiet, UNCHANGED cachedDefs, NEW c \in Callers, NEW k, CallOK(k), Goes(c, k),
         cached' = [r \in Singles |-> cached'[r]],
         \A r \in Singles : cached'[r] \in {cached[r], Absent, Pointer},
         k.op \notin {"listed", "answered"}, k.op = "asking" => k.thing \in Singles
  PROVE  CacheInv'
<1>1. \A r \in Singles : FreshSingle(r) => (Hit(r)' => cached'[r] = held[r])
  BY DEF FreshSingle, Hit
<1>2. FreshService => Agrees(cachedDefs')
  BY DEF FreshService, Agrees
<1>3. ~(k.thing = Service /\ k.op \in {"asking", "answered"})
  BY CacheAssumption
<1> QED BY <1>1, <1>2, <1>3, CallerStep

LEMMA NoCallOK == CallOK(NoCall) /\ NoCall.op = "none"
BY DEF CallOK, NoCall

LEMMA ReadSingleInv ==
  ASSUME CacheInv, NEW c \in Callers, NEW r \in Singles, ReadSingle(c, r)
  PROVE  CacheInv'
<1> DEFINE k == [op |-> "asking", thing |-> r]
<1>1. CallOK(k) /\ k.op = "asking" /\ k.thing = r
  BY DEF CallOK, Things
<1>2. Quiet /\ UNCHANGED <<cached, cachedDefs>> /\ Goes(c, k)
  BY DEF ReadSingle
<1>3. cached' = [x \in Singles |-> cached'[x]]
  BY <1>2 DEF CacheInv, CacheTypes
<1> HIDE DEF k
<1> QED BY <1>1, <1>2, <1>3, QuietCall

LEMMA GetServiceInv ==
  ASSUME CacheInv, NEW c \in Callers, NEW search, NEW old \in {cachedDefs, <<>>},
         Goes(c, [op |-> "asking", thing |-> Service, search |-> search, old |-> old]),
         Quiet, UNCHANGED <<cached, cachedDefs>>
  PROVE  CacheInv'
<1> DEFINE k == [op |-> "asking", thing |-> Service, search |-> search, old |-> old]
<1>1. CallOK(k) /\ k.op = "asking" /\ k.thing = Service /\ k.old = old /\ Goes(c, k)
  BY DEF CallOK, Things
<1>2. cached' = [x \in Singles |-> cached'[x]]
  BY DEF CacheInv, CacheTypes
<1> HIDE DEF k
<1>3. FreshService => Agrees(cachedDefs') /\ Agrees(k.old)
  BY <1>1 DEF FreshService, Agrees
<1>4. \A r \in Singles : FreshSingle(r) => (Hit(r)' => cached'[r] = held[r])
  BY DEF FreshSingle, Hit
<1> QED BY <1>1, <1>2, <1>3, <1>4, CallerStep

LEMMA AnswerInv ==
  ASSUME CacheInv, NEW c \in Callers, Answer(c)
  PROVE  CacheInv'
<1>1. Quiet /\ UNCHANGED <<cached, cachedDefs>>
  BY DEF Answer
<1>2. call[c].op = "asking" /\ call[c].thing \in Things
  BY DEF Answer, CacheInv, CacheTypes, CallOK
<1>3. cached' = [x \in Singles |-> cached'[x]]
  BY <1>1 DEF CacheInv, CacheTypes
<1>4. FreshService => Agrees(cachedDefs')
  BY <1>1 DEF FreshService, Agrees
<1>5. \A r \in Singles : FreshSingle(r) => (Hit(r)' => cached'[r] = held[r])
  BY <1>1 DEF FreshSingle, Hit
<1>6. CASE call[c].thing = Service
  <2> DEFINE new == Restrict(defs, InExchange(call[c].search))
  <2> DEFINE k == [op |-> "answered", thing |-> Service, old |-> call[c].old, new |-> new]
  <2>1. Goes(c, k)
    BY <1>6 DEF Answer
  <2>2. Agrees(new)
    BY DEF Agrees, Restrict
  <2> HIDE DEF new
  <2>3. CallOK(k) /\ k.op = "answered" /\ k.thing = Service /\ k.old = call[c].old /\ k.new = new
    BY DEF CallOK, Things
  <2>4. FreshService => Agrees(k.old) /\ Agrees(k.new)
    BY <1>2, <1>6, <2>2, <2>3 DEF FreshService
  <2> HIDE DEF k
  <2>5. \A r \in Singles : k.thing # r
    BY <2>3, CacheAssumption
  <2> QED BY <1>1, <1>3, <1>4, <1>5, <2>1, <2>3, <2>4, <2>5, CallerStep
<1>7. CASE call[c].thing # Service
  <2> DEFINE op == IF kind[call[c].thing] = "keys" THEN "listed" ELSE "answered"
  <2> DEFINE k == [op |-> op, thing |-> call[c].thing, new |-> held[call[c].thing]]
  <2>1. Goes(c, k) /\ op \in {"listed", "answered"}
    BY <1>7 DEF Answer
  <2> HIDE DEF op
  <2>2. CallOK(k) /\ k.op = op /\ k.thing = call[c].thing /\ k.new = held[call[c].thing]
    BY <1>2, <1>7, <2>1 DEF CallOK, Things
  <2> HIDE DEF k
  <2> QED BY <1>1, <1>3, <1>4, <1>5, <1>7, <2>1, <2>2, CallerStep
<1> QED BY <1>6, <1>7

LEMMA ReadKeyContentsInv ==
  ASSUME CacheInv, NEW c \in Callers, ReadKeyContents(c)
  PROVE  CacheInv'
<1>1. Quiet /\ UNCHANGED <<cached, cachedDefs>>
  BY DEF ReadKeyContents
<1>2. call[c].op = "listed" /\ call[c].thing \in Singles
  BY DEF ReadKeyContents, CacheInv, CacheTypes, CallOK
<1>3. cached' = [x \in Singles |-> cached'[x]]
  BY <1>1 DEF CacheInv, CacheTypes
<1>4. FreshService => Agrees(cachedDefs')
  BY <1>1 DEF FreshService, Agrees
<1>5. \A r \in Singles : FreshSingle(r) => (Hit(r)' => cached'[r] = held[r])
  BY <1>1 DEF FreshSingle, Hit
<1> DEFINE new == IF call[c].new = held[call[c].thing] THEN call[c].new ELSE Torn
<1> DEFINE k == [op |-> "answered", thing |-> call[c].thing, new |-> new]
<1>6. Goes(c, k)
  BY DEF ReadKeyContents
<1>7. FreshSingle(call[c].thing) => new = held[call[c].thing]
  BY <1>2 DEF FreshSingle
<1> HIDE DEF new
<1>8. CallOK(k) /\ k.op = "answered" /\ k.thing = call[c].thing /\ k.new = new
  BY <1>2 DEF CallOK, Things
<1> HIDE DEF k
<1>9. k.thing # Service
  BY <1>2, <1>8, CacheAssumption
<1> QED BY <1>1, <1>2, <1>3, <1>4, <1>5, <1>6, <1>7, <1>8, <1>9, CallerStep

LEMMA StoreSingleInv ==
  ASSUME CacheInv, NEW c \in Callers, StoreSingle(c)
  PROVE  CacheInv'
<1>1. Quiet /\ UNCHANGED cachedDefs /\ Goes(c, NoCall)
  BY DEF StoreSingle
<1>2. call[c].op = "answered" /\ call[c].thing \in Singles
  BY DEF StoreSingle
<1>3. /\ cached' = [x \in Singles |-> cached'[x]]
      /\ cached'[call[c].thing] \in {cached[call[c].thing], call[c].new}
      /\ \A x \in Singles \ {call[c].thing} : cached'[x] = cached[x]
  <2>1. PICK e \in {cached[call[c].thing], call[c].new} :
          cached' = cached \/ cached' = [cached EXCEPT ![call[c].thing] = e]
    BY DEF StoreSingle
  <2> QED BY <1>2, <2>1 DEF CacheInv, CacheTypes
<1>4. FreshService => Agrees(cachedDefs')
  BY <1>1 DEF FreshService, Agrees, Quiet, exchangeSideVars
<1>5. \A r \in Singles : FreshSingle(r) => (Hit(r)' => cached'[r] = held[r])
  BY <1>2, <1>3 DEF FreshSingle, Hit
<1> QED BY <1>1, <1>3, <1>4, <1>5, NoCallOK, CallerStep

LEMMA StoreServiceInv ==
  ASSUME CacheInv, NEW c \in Callers, StoreService(c)
  PROVE  CacheInv'
<1>1. Quiet /\ UNCHANGED cached /\ Goes(c, NoCall)
  BY DEF StoreService
<1>2. call[c].op = "answered" /\ call[c].thing = Service
  BY DEF StoreService
<1>3. cached' = [x \in Singles |-> cached'[x]]
  BY <1>1 DEF CacheInv, CacheTypes
<1>4. FreshService => Agrees(cachedDefs')
  <2>1. cachedDefs' = cachedDefs \/ cachedDefs' = Merged(call[c].new, call[c].old)
    BY DEF StoreService
  <2>2. FreshService => Agrees(call[c].new) /\ Agrees(call[c].old) /\ Agrees(cachedDefs)
    BY <1>2 DEF FreshService
  <2> QED BY <2>1, <2>2 DEF Agrees, Merged
<1>5. \A r \in Singles : FreshSingle(r) => (Hit(r)' => cached'[r] = held[r])
  BY <1>1 DEF FreshSingle, Hit
<1> QED BY <1>1, <1>3, <1>4, <1>5, NoCallOK, CallerStep

LEMMA StartWriteInv ==
  ASSUME CacheInv, NEW c \in Callers, NEW r \in Singles, NEW entry \in {cached[r], Absent}, NEW after,
         StartWrite(c, r, entry, after)
  PROVE  CacheInv'
<1> DEFINE k == [op |-> "writing", thing |-> r, after |-> after]
<1>1. CallOK(k) /\ k.op = "writing"
  BY DEF CallOK
<1>2. Quiet /\ UNCHANGED cachedDefs /\ Goes(c, k)
  BY DEF StartWrite
<1>3. /\ cached' = [x \in Singles |-> cached'[x]]
      /\ \A x \in Singles : cached'[x] \in {cached[x], Absent}
  BY DEF StartWrite, CacheInv, CacheTypes
<1> HIDE DEF k
<1> QED BY <1>1, <1>2, <1>3, QuietCall

LEMMA EndCallInv ==
  ASSUME CacheInv, NEW c \in Callers, FailCall(c) \/ WriteThrough(c)
  PROVE  CacheInv'
<1>1. Quiet /\ UNCHANGED cachedDefs /\ Goes(c, NoCall)
  BY DEF FailCall, WriteThrough
<1>2. \/ cached' = cached
      \/ \E e \in {Absent, Pointer, cached[call[c].thing]} : cached' = [cached EXCEPT ![call[c].thing] = e]
  BY DEF FailCall, WriteThrough
<1>3. /\ cached' = [x \in Singles |-> cached'[x]]
      /\ \A x \in Singles : cached'[x] \in {cached[x], Absent, Pointer}
  BY <1>2 DEF CacheInv, CacheTypes
<1> QED BY <1>1, <1>3, NoCallOK, QuietCall

-----------------------------------------------------------------------------
(* The whole cache at once. *)

LEMMA ClearAllInv ==
  ASSUME CacheInv, ClearAllResourceCache
  PROVE  CacheInv'
<1>1. /\ UNCHANGED <<kind, held, defs, feed, started, batch, asked, orgList, raced, overlooked, call>>
      /\ cached' = [r \in Singles |-> Absent] /\ cachedDefs' = <<>>
  BY DEF ClearAllResourceCache, exchangeSideVars, feedVars, historyVars
<1>2. CacheTypes'
  BY <1>1 DEF CacheInv, CacheTypes
<1>3. \A r \in Singles : FreshSingle(r) => FreshSingle(r)'
  BY <1>1 DEF FreshSingle, Hit
<1>4. FreshService => FreshService'
  BY <1>1 DEF FreshService, Agrees
<1>5. \A r \in Things : Excused(r) => Excused(r)'
  BY <1>1, AwaitedStays DEF Excused
<1> QED BY <1>1, <1>2, <1>3, <1>4, <1>5, CoveredStays, StaysFresh DEF Fresh, Things

\* Nothing is cached, and nobody reads.
LEMMA EmptyIsFresh ==
  ASSUME CacheTypes, cached = [r \in Singles |-> Absent], cachedDefs = <<>>, call = [c \in Callers |-> NoCall]
  PROVE  CacheInv
<1>1. \A r \in Singles : FreshSingle(r)
  BY NoCallOK DEF FreshSingle, Hit
<1>2. FreshService
  BY NoCallOK DEF FreshService, Agrees
<1> QED BY <1>1, <1>2 DEF CacheInv, Fresh, Things

LEMMA CacheRestartInv ==
  ASSUME CacheInv, CacheRestart
  PROVE  CacheInv'
<1>1. /\ cached' = [r \in Singles |-> Absent] /\ cachedDefs' = <<>> /\ call' = [c \in Callers |-> NoCall]
      /\ UNCHANGED <<kind, held, defs>> /\ batch' = <<>>
  BY DEF CacheRestart
<1>2. feed' \in Seq(Changes) /\ started' \in {"no", "id", "yes"}
  <2>1. batch \o feed \in Seq(Changes) /\ <<>> \in Seq(Changes)
    BY DEF CacheInv, CacheTypes
  <2> QED BY <2>1 DEF CacheRestart, CacheInv, CacheTypes
<1>3. CacheTypes'
  BY <1>1, <1>2, NoCallOK DEF CacheInv, CacheTypes
<1>4. \A r \in Singles : FreshSingle(r)'
  BY <1>1, NoCallOK DEF FreshSingle, Hit
<1>5. FreshService'
  BY <1>1, NoCallOK DEF FreshService, Agrees
<1> QED BY <1>3, <1>4, <1>5 DEF CacheInv, Fresh, Things

LEMMA CacheStep == CacheInv /\ [CacheNext]_cacheVars => CacheInv'
<1> SUFFICES ASSUME CacheInv, [CacheNext]_cacheVars PROVE CacheInv'
  OBVIOUS
<1>1. CASE UNCHANGED cacheVars
  <2>1. UNCHANGED <<kind, held, defs, feed, started, batch, asked, orgList, raced, overlooked, cached, cachedDefs, call>>
    BY <1>1 DEF cacheVars, exchangeSideVars, feedVars, historyVars
  <2>2. CacheTypes' /\ \A r \in Things : Fresh(r) => Fresh(r)'
    BY <2>1 DEF CacheInv, CacheTypes, Fresh, FreshSingle, FreshService, Hit, Agrees
  <2>3. \A r \in Things : Excused(r) => Excused(r)'
    BY <2>1, AwaitedStays DEF Excused
  <2> QED BY <2>1, <2>2, <2>3, CoveredStays, StaysFresh
<1>2. ASSUME NEW c \in Callers, NEW r \in Singles,
             \/ GetExchangeDevice(c, r) \/ GetNodePolicy(c, r) \/ GetOrganization(c, r) \/ GetHAGroup(c, r)
             \/ GetServicePolicyWithId(c, r) \/ GetServiceDockerAuthsWithId(c, r) \/ GetObjectSigningKeys(c, r)
      PROVE  CacheInv'
  BY <1>2, ReadSingleInv DEF GetExchangeDevice, GetNodePolicy, GetOrganization, GetHAGroup, GetServicePolicyWithId,
                             GetServiceDockerAuthsWithId, GetObjectSigningKeys
<1>3. ASSUME NEW c \in Callers, NEW r \in Singles,
             \/ PutExchangeDevice(c, r) \/ PostDeviceServicesConfigState(c, r)
             \/ PutNodePolicy(c, r) \/ DeleteNodePolicy(c, r) \/ PutServicePolicyWithId(c, r)
      PROVE  CacheInv'
  <2>1. PICK entry \in {cached[r], Absent} : \E after : StartWrite(c, r, entry, after)
    BY <1>3 DEF PutExchangeDevice, PostDeviceServicesConfigState, PutNodePolicy, DeleteNodePolicy,
                PutServicePolicyWithId
  <2> QED BY <2>1, StartWriteInv
<1>4. ASSUME NEW c \in Callers,
             \/ \E search \in SearchVersions : GetService(c, search)
             \/ \E v \in DefVersions : GetServiceWithId(c, v)
      PROVE  CacheInv'
  <2>1. PICK search : \E old \in {cachedDefs, <<>>} :
          Goes(c, [op |-> "asking", thing |-> Service, search |-> search, old |-> old])
    BY <1>4 DEF GetService, GetServiceWithId
  <2>2. Quiet /\ UNCHANGED <<cached, cachedDefs>>
    BY <1>4 DEF GetService, GetServiceWithId
  <2> QED BY <2>1, <2>2, GetServiceInv
<1>5. ASSUME NEW c \in Callers,
             \/ Answer(c) \/ ReadKeyContents(c) \/ FailCall(c) \/ StoreSingle(c) \/ StoreService(c)
             \/ CarriedOut(c) \/ WriteThrough(c)
      PROVE  CacheInv'
  BY <1>5, AnswerInv, ReadKeyContentsInv, EndCallInv, StoreSingleInv, StoreServiceInv, CarriedOutInv
<1>6. CASE \/ \E r \in Singles : EditSingle(r)
           \/ \E v \in DefVersions : EditService(v)
           \/ \E o \in Orgs : EditServed(o)
           \/ GetChangeId \/ FirstServedOrgs \/ FetchChanges \/ ProcessChange \/ ClearAllResourceCache \/ CacheRestart
  BY <1>6, EditSingleInv, EditServiceInv, EditServedInv, GetChangeIdInv, FirstServedOrgsInv, FetchChangesInv,
     ProcessChangeInv, ClearAllInv, CacheRestartInv
<1> QED BY <1>1, <1>2, <1>3, <1>4, <1>5, <1>6 DEF CacheNext

\* The client's cache: a value it holds is the exchange's, unless a change of it has
\* yet to be processed, a read begun before the change was processed stores its result
\* after it, or the change is one the feed's handler overlooks, for any resources, callers
\* and numbers of changes and failures (GetResourceFromCache, UpdateCache,
\* DeleteCacheResourceFromChange, updateServedOrgs).
THEOREM CacheIsFresh == CacheSpec => []StaleOnlyIfRaced
<1>1. CacheInit => CacheInv
  <2> SUFFICES ASSUME CacheInit PROVE CacheInv
    OBVIOUS
  <2>1. kind = [r \in Things |-> kind[r]] /\ kind[Service] \in {"plain", "underscored"}
        /\ \A r \in Singles : kind[r] \in Kinds
    BY CacheAssumption DEF CacheInit, Things
  <2>2. /\ feed = <<>> /\ batch = <<>> /\ started \in {"no", "id", "yes"}
        /\ held = [r \in Singles |-> held[r]] /\ defs = [v \in DefVersions |-> defs[v]]
        /\ cached = [r \in Singles |-> Absent] /\ cachedDefs = <<>> /\ call = [c \in Callers |-> NoCall]
    BY DEF CacheInit
  <2>3. CacheTypes
    BY <2>1, <2>2, NoCallOK DEF CacheTypes
  <2> QED BY <2>2, <2>3, EmptyIsFresh
<1>2. CacheInv => StaleOnlyIfRaced
  BY PendingIsAwaited DEF CacheInv, StaleOnlyIfRaced, Fresh, FreshService, FreshSingle, Agrees, Covered, Excused
<1> QED BY <1>1, <1>2, CacheStep, PTL DEF CacheSpec

-----------------------------------------------------------------------------
(* Prioritized workloads: a rollback is earned.                             *)

PolicyVersions == [Prios -> Nat]
Usages == [prio : Prios, retries : Nat, dur : Nat, first : Nat, agid : Nat, reqs : BOOLEAN]
Attempts == [pc : {"idle", "choose", "record", "bump"}, id : Nat, pol : PolicyVersions,
             last : Prios \cup {0}, choice : Prios \cup {0}]
Deals == [id : Nat, prio : Prios, pol : PolicyVersions, state : {"proposed", "rejected", "accepted", "final"}]

RollbackTypes ==
  /\ policy \in PolicyVersions /\ usage \in Usages \cup {NoUsage} /\ attempt \in Attempts
  /\ deal \in Deals \cup {NoDeal} /\ clock \in Nat /\ dealCount \in Nat
  /\ tries \in [Prios -> Nat] /\ offered \subseteq Prios

\* An attempt comes before its agreement, and its second choice finds its own record.
AttemptFirst ==
  /\ attempt.pc # "idle" => deal = NoDeal /\ Offered(attempt.pol) # {}
  /\ attempt.pc \in {"record", "bump"} => attempt.choice \in Prios
  /\ attempt.pc = "bump" \/ attempt.last # 0 => usage = NoUsage \/ usage.reqs
  /\ deal.state = "proposed" => Offered(deal.pol) # {}
  /\ attempt.pc = "idle" => attempt.last = 0

Earned(q) == tries[q] >= RetryLimit[q]
\* The record counts one retry less than there were tries; nothing is above the
\* workload in use, or the one that is proposed, that has tries left.
PriorityEarned ==
  usage # NoUsage /\ ~usage.reqs =>
    /\ tries[usage.prio] > usage.retries
    /\ \A q \in offered : q < usage.prio => Earned(q)
    /\ deal.state = "proposed" => \A q \in offered \cap Offered(deal.pol) : q < deal.prio => Earned(q)

RollbackInv == RollbackTypes /\ AttemptFirst /\ PriorityEarned

LEMMA PriosTypes == Prios \subseteq Nat /\ 0 \notin Prios /\ IsFiniteSet(Prios)
<1>1. Prios \subseteq Nat /\ 0 \notin Prios
  BY RollbackAssumption DEF Prios
<1>2. IsFiniteSet(DOMAIN Order)
  <2>1. Len(Order) \in Nat /\ DOMAIN Order = 1 .. Len(Order)
    BY RollbackAssumption
  <2> QED BY <2>1, FS_Interval
<1>3. Order \in Surjection(DOMAIN Order, Prios)
  <2>1. Order \in [DOMAIN Order -> Prios]
    BY RollbackAssumption DEF Prios
  <2> QED BY <2>1 DEF Surjection, Prios
<1>4. IsFiniteSet(Prios)
  BY <1>2, <1>3, FS_Surjection
<1> QED BY <1>1, <1>4

LEMMA MinIs ==
  ASSUME NEW T \in SUBSET Nat, T # {}
  PROVE  Min(T) \in T /\ \A u \in T : Min(T) <= u
<1>1. PICK t \in T : \A u \in T : ~(<<u, t>> \in OpToRel(<, Nat))
  <2>1. IsWellFoundedOn(OpToRel(<, Nat), Nat)
    BY NatLessThanWellFounded
  <2> QED BY <2>1, WFMin
<1>2. \A u \in T : t <= u
  <2> TAKE u \in T
  <2>1. <<u, t>> \in Nat \X Nat
    OBVIOUS
  <2>2. ~(<<u, t>> \in {ss \in Nat \X Nat : ss[1] < ss[2]})
    BY <1>1 DEF OpToRel
  <2> QED BY <2>1, <2>2
<1> QED BY <1>2 DEF Min

\* What NextHighestPriorityWorkload skips is above the current one, or has no retries left.
LEMMA NextWorkload ==
  ASSUME NEW pol \in PolicyVersions, Offered(pol) # {}, NEW cur \in Nat, NEW n \in Nat, NEW first
  PROVE  /\ NextHighestPriorityWorkload(pol, cur, n, first) \in Offered(pol)
         /\ \A q \in Offered(pol) : q < NextHighestPriorityWorkload(pol, cur, n, first) =>
              q < cur \/ (q = cur /\ RetryLimit[cur] <= n)
<1> DEFINE ws == Offered(pol)
           lower == {p \in ws : p > cur}
           next == NextHighestPriorityWorkload(pol, cur, n, first)
           stay == cur \in ws /\ (RetryLimit[cur] > n \/ clock - first > RetryDuration[cur])
           low == Order[Min({i \in DOMAIN Order : Order[i] \in ws})]
<1> SUFFICES next \in ws /\ \A q \in ws : q < next => q < cur \/ (q = cur /\ RetryLimit[cur] <= n)
  OBVIOUS
<1>1. ws \subseteq Prios /\ ws \subseteq Nat /\ ws # {}
  BY PriosTypes DEF Offered
<1>2. Cardinality(ws) # 1 =>
        next = IF stay THEN cur ELSE IF lower # {} THEN Min(lower) ELSE IF cur \in ws THEN cur ELSE low
  BY DEF NextHighestPriorityWorkload
<1>3. CASE Cardinality(ws) = 1
  <2>1. PICK x : ws = {x}
    BY <1>1, <1>3, PriosTypes, FS_Subset, FS_Singleton
  <2>2. next = x
    BY <1>3, <2>1 DEF NextHighestPriorityWorkload
  <2> HIDE DEF ws, next
  <2> QED BY <1>1, <2>1, <2>2
<1>4. ASSUME lower # {} PROVE Min(lower) \in lower /\ \A u \in lower : Min(lower) <= u
  BY <1>1, <1>4, MinIs
<1>5. low \in ws
  <2> DEFINE is == {i \in DOMAIN Order : Order[i] \in ws}
  <2>1. is \in SUBSET Nat /\ is # {}
    BY <1>1, RollbackAssumption DEF Prios
  <2>2. Min(is) \in is
    BY <2>1, MinIs
  <2> QED BY <2>2
<1>6. cur \in ws => RetryLimit[cur] \in Nat
  BY <1>1, RollbackAssumption
<1>7. CASE Cardinality(ws) # 1
  <2> HIDE DEF ws, next, low
  <2>1. CASE stay
    BY <1>1, <1>2, <1>7, <2>1
  <2>2. CASE ~stay /\ lower # {}
    <3>1. next = Min(lower) /\ next \in ws /\ \A u \in ws : u > cur => next <= u
      BY <1>2, <1>4, <1>7, <2>2
    <3>2. cur \in ws => RetryLimit[cur] <= n
      BY <1>6, <2>2
    <3> QED BY <1>1, <3>1, <3>2
  <2>3. CASE ~stay /\ lower = {}
    <3>1. \A u \in ws : ~(u > cur)
      BY <2>3
    <3>2. next \in {cur, low} /\ (cur \in ws => next = cur) /\ (cur \notin ws => next = low)
      BY <1>2, <1>7, <2>3
    <3> QED BY <1>1, <1>5, <3>1, <3>2
  <2> QED BY <2>1, <2>2, <2>3
<1> QED BY <1>3, <1>7

LEMMA NotKept ==
  /\ NoUsage.prio = -1 /\ NoUsage \notin Usages /\ NoDeal.state = "none" /\ NoDeal \notin Deals
  /\ Resting \in Attempts /\ Resting.pc = "idle" /\ Resting.last = 0
<1>1. NoUsage.prio = -1 /\ NoDeal.state = "none" /\ Resting.pc = "idle" /\ Resting.last = 0
  BY DEF NoUsage, NoDeal, Resting
<1>2. -1 \notin Prios
  BY PriosTypes
<1>3. Resting \in Attempts
  BY DEF Resting, Attempts, PolicyVersions
<1> QED BY <1>1, <1>2, <1>3 DEF Usages, Deals

\* The choice of a workload, when there is a record that counts.
LEMMA ChoiceEarned ==
  ASSUME RollbackInv, attempt.pc = "choose"
  PROVE  /\ Chosen \in Offered(attempt.pol) /\ Chosen \in Prios
         /\ usage # NoUsage /\ ~usage.reqs =>
              \A q \in offered \cap Offered(attempt.pol) : q < Chosen => Earned(q)
<1>1. attempt.pol \in PolicyVersions /\ Offered(attempt.pol) # {}
  BY DEF RollbackInv, RollbackTypes, AttemptFirst, Attempts
<1>2. CASE usage = NoUsage \/ Cardinality(Offered(attempt.pol)) = 1
  <2>1. Chosen = NextHighestPriorityWorkload(attempt.pol, 0, 0, 0)
    BY <1>2 DEF Chosen
  <2>2. \A q \in Offered(attempt.pol) : ~(q < 0) /\ q # 0
    <3>1. Offered(attempt.pol) \subseteq Prios
      BY DEF Offered
    <3>2. \A q \in Prios : q \in Nat \ {0}
      BY PriosTypes
    <3>3. \A q \in Nat \ {0} : ~(q < 0) /\ q # 0
      OBVIOUS
    <3> QED BY <3>1, <3>2, <3>3
  <2> QED BY <1>1, <2>1, <2>2, NextWorkload DEF Offered
<1>3. CASE ~(usage = NoUsage \/ Cardinality(Offered(attempt.pol)) = 1)
  <2>1. Chosen = NextHighestPriorityWorkload(attempt.pol, usage.prio, usage.retries + 1, usage.first)
    BY <1>3 DEF Chosen
  <2>0. usage \in Usages
    BY <1>3 DEF RollbackInv, RollbackTypes
  <2>2. usage.prio \in Prios /\ usage.prio \in Nat /\ usage.retries \in Nat /\ usage.retries + 1 \in Nat
    <3>1. usage.prio \in Prios /\ usage.retries \in Nat
      BY <2>0 DEF Usages
    <3>2. usage.prio \in Nat
      BY <3>1, PriosTypes
    <3>3. usage.retries + 1 \in Nat
      BY <3>1
    <3> QED BY <3>1, <3>2, <3>3
  <2>3. /\ Chosen \in Offered(attempt.pol)
        /\ \A q \in Offered(attempt.pol) : q < Chosen =>
             q < usage.prio \/ (q = usage.prio /\ RetryLimit[usage.prio] <= usage.retries + 1)
    BY <1>1, <2>1, <2>2, NextWorkload
  <2>4. tries[usage.prio] \in Nat /\ RetryLimit[usage.prio] \in Nat
    BY <2>2, RollbackAssumption DEF RollbackInv, RollbackTypes
  <2>5. ASSUME ~usage.reqs, NEW q \in offered \cap Offered(attempt.pol), q < Chosen PROVE Earned(q)
    <3>1. tries[usage.prio] > usage.retries /\ (q < usage.prio => Earned(q))
      BY <1>3, <2>5 DEF RollbackInv, PriorityEarned
    <3>2. CASE q < usage.prio
      BY <3>1, <3>2
    <3>3. CASE q = usage.prio /\ RetryLimit[usage.prio] <= usage.retries + 1
      BY <2>2, <2>4, <3>1, <3>3 DEF Earned
    <3> QED BY <2>3, <2>5, <3>2, <3>3
  <2> QED BY <2>3, <2>5 DEF Offered
<1> QED BY <1>2, <1>3

-----------------------------------------------------------------------------
(* The steps. *)

\* Neither the record nor what it remembers changes, and no proposal comes up.
LEMMA RecordStays ==
  ASSUME RollbackInv, RollbackTypes', AttemptFirst', UNCHANGED <<usage, tries, offered>>,
         deal'.state = "proposed" => deal' = deal
  PROVE  RollbackInv'
<1>1. PriorityEarned'
  BY DEF RollbackInv, PriorityEarned, Earned, Offered
<1> QED BY <1>1 DEF RollbackInv

\* The record is deleted.
LEMMA RecordDeleted ==
  ASSUME RollbackInv, RollbackTypes', AttemptFirst', usage' = NoUsage
  PROVE  RollbackInv'
BY DEF RollbackInv, PriorityEarned

LEMMA DeletedTypes ==
  ASSUME RollbackInv, DeleteWorkloadUsage
  PROVE  usage' = NoUsage /\ tries' \in [Prios -> Nat] /\ offered' \subseteq Prios
BY DEF DeleteWorkloadUsage

LEMMA StartAttemptInv ==
  ASSUME RollbackInv, StartAttempt
  PROVE  RollbackInv'
<1> DEFINE a == [Resting EXCEPT !.pc = "choose", !.id = dealCount + 1, !.pol = policy]
<1>1. a \in Attempts /\ a.pc = "choose" /\ a.pol = policy /\ a.last = 0
  <2>1. dealCount + 1 \in Nat /\ policy \in PolicyVersions
    BY DEF RollbackInv, RollbackTypes
  <2> QED BY <2>1 DEF Attempts, Resting, PolicyVersions
<1>2. /\ attempt' = a /\ UNCHANGED <<usage, tries, offered, policy, clock, deal>> /\ deal = NoDeal
      /\ dealCount' = dealCount + 1 /\ Offered(policy) # {}
  BY DEF StartAttempt, KeepUsage, worldVars
<1> HIDE DEF a
<1>3. RollbackTypes'
  BY <1>1, <1>2 DEF RollbackInv, RollbackTypes
<1>4. AttemptFirst'
  BY <1>1, <1>2, NotKept DEF AttemptFirst, Offered
<1> QED BY <1>2, <1>3, <1>4, RecordStays

\* An attempt ends.
LEMMA RestInv ==
  ASSUME RollbackInv, attempt' = Resting, UNCHANGED <<policy, clock, deal, dealCount>>,
         KeepUsage \/ DeleteWorkloadUsage
  PROVE  RollbackInv'
<1>1. RollbackTypes'
  BY DeletedTypes, NotKept DEF RollbackInv, RollbackTypes, KeepUsage
<1>2. AttemptFirst'
  BY NotKept DEF RollbackInv, AttemptFirst, Offered
<1> QED BY <1>1, <1>2, RecordStays, RecordDeleted DEF KeepUsage, DeleteWorkloadUsage, RollbackInv

LEMMA ProposeWorkloadInv ==
  ASSUME RollbackInv, ProposeWorkload
  PROVE  RollbackInv'
<1> DEFINE d == [id |-> attempt.id, prio |-> Chosen, pol |-> attempt.pol, state |-> "proposed"]
<1>1. attempt.pc = "choose" /\ attempt \in Attempts /\ Offered(attempt.pol) # {}
  BY DEF ProposeWorkload, RollbackInv, RollbackTypes, AttemptFirst
<1>2. /\ Chosen \in Prios
      /\ usage # NoUsage /\ ~usage.reqs =>
              \A q \in offered \cap Offered(attempt.pol) : q < Chosen => Earned(q)
  BY <1>1, ChoiceEarned
<1>3. deal' = d /\ attempt' = Resting /\ UNCHANGED <<usage, tries, offered, policy, clock, dealCount>>
  BY DEF ProposeWorkload, KeepUsage, worldVars
<1>4. d \in Deals /\ d.state = "proposed" /\ d.prio = Chosen /\ d.pol = attempt.pol
  BY <1>1, <1>2 DEF Deals, Attempts
<1> HIDE DEF d
<1>5. RollbackTypes'
  BY <1>3, <1>4, NotKept DEF RollbackInv, RollbackTypes
<1>6. AttemptFirst'
  BY <1>1, <1>3, <1>4, NotKept DEF AttemptFirst, Offered
<1>7. PriorityEarned'
  <2>1. Offered(deal'.pol) = Offered(attempt.pol) /\ deal'.prio = Chosen
    BY <1>3, <1>4 DEF Offered
  <2> QED BY <1>2, <1>3, <2>1 DEF RollbackInv, PriorityEarned, Earned, Offered
<1> QED BY <1>5, <1>6, <1>7 DEF RollbackInv

LEMMA RejectWorkloadInv ==
  ASSUME RollbackInv, RejectWorkload
  PROVE  RollbackInv'
<1> DEFINE a == [attempt EXCEPT !.pc = "record", !.choice = Chosen]
<1>1. attempt.pc = "choose" /\ attempt \in Attempts /\ Offered(attempt.pol) # {} /\ Chosen \in Prios
  BY ChoiceEarned DEF RejectWorkload, RollbackInv, RollbackTypes, AttemptFirst
<1>2. a \in Attempts /\ a.pc = "record" /\ a.choice = Chosen /\ a.pol = attempt.pol /\ a.last = attempt.last
  BY <1>1 DEF Attempts
<1>3. attempt' = a /\ UNCHANGED <<usage, tries, offered, policy, clock, dealCount, deal>>
  BY DEF RejectWorkload, KeepUsage, worldVars
<1> HIDE DEF a
<1>4. RollbackTypes'
  BY <1>2, <1>3 DEF RollbackInv, RollbackTypes
<1>5. AttemptFirst'
  BY <1>1, <1>2, <1>3 DEF RollbackInv, AttemptFirst, Offered
<1> QED BY <1>3, <1>4, <1>5, RecordStays

LEMMA NewUsage ==
  ASSUME RollbackInv, NEW p \in Prios, NEW reqs \in BOOLEAN, NEW id \in Nat
  PROVE  /\ NewWorkloadUsage(p, reqs, id) \in Usages /\ NewWorkloadUsage(p, reqs, id).prio = p
         /\ NewWorkloadUsage(p, reqs, id).reqs = reqs /\ NewWorkloadUsage(p, reqs, id).retries = 0
BY RollbackAssumption DEF NewWorkloadUsage, Usages, RollbackInv, RollbackTypes

LEMMA MovedUsage ==
  ASSUME RollbackInv, NEW u \in Usages, NEW p \in Prios, NEW id \in Nat
  PROVE  /\ UpdatePriority(u, p, id) \in Usages /\ UpdatePriority(u, p, id).prio = p
         /\ UpdatePriority(u, p, id).reqs = u.reqs /\ UpdatePriority(u, p, id).retries = 0
<1>1. AgId(u, id) \in Nat /\ RetryDuration[p] \in Nat /\ clock \in Nat
  BY RollbackAssumption DEF AgId, Usages, RollbackInv, RollbackTypes
<1> QED BY <1>1 DEF UpdatePriority, Usages

LEMMA RetriedUsage ==
  ASSUME RollbackInv, NEW u \in Usages, NEW n \in Nat, NEW id \in Nat
  PROVE  /\ UpdateRetryCount(u, n, id) \in Usages /\ UpdateRetryCount(u, n, id).prio = u.prio
         /\ UpdateRetryCount(u, n, id).reqs = u.reqs /\ UpdateRetryCount(u, n, id).retries \in {1, n}
<1>1. AgId(u, id) \in Nat /\ clock \in Nat
  BY DEF AgId, Usages, RollbackInv, RollbackTypes
<1> QED BY <1>1 DEF UpdateRetryCount, Usages

LEMMA RecordMisfitInv ==
  ASSUME RollbackInv, RecordMisfit
  PROVE  RollbackInv'
<1>1. /\ attempt.pc = "record" /\ attempt \in Attempts /\ attempt.choice \in Prios /\ attempt.id \in Nat
      /\ Offered(attempt.pol) # {} /\ deal = NoDeal
      /\ UNCHANGED <<policy, clock, deal, dealCount>>
  BY DEF RecordMisfit, RollbackInv, RollbackTypes, AttemptFirst, worldVars, Attempts
<1>2. CASE attempt' = Resting /\ KeepUsage
  BY <1>1, <1>2, RestInv
<1>3. CASE /\ attempt.last = 0 <=> usage = NoUsage
           /\ attempt' = [attempt EXCEPT !.pc = "bump"]
           /\ usage' = IF attempt.last = 0 THEN NewWorkloadUsage(attempt.choice, TRUE, attempt.id)
                       ELSE UpdatePriority(usage, attempt.choice, attempt.id)
           /\ offered' = Offered(attempt.pol) \cap (IF attempt.last = 0 THEN Prios ELSE offered)
           /\ UNCHANGED tries
  <2> DEFINE a == [attempt EXCEPT !.pc = "bump"]
  <2>1. a \in Attempts /\ a.pc = "bump" /\ a.choice = attempt.choice /\ a.pol = attempt.pol /\ a.last = attempt.last
    BY <1>1 DEF Attempts
  <2>2. attempt' = a
    BY <1>3
  <2> HIDE DEF a
  <2>3. usage' \in Usages /\ usage'.reqs
    <3>1. CASE attempt.last = 0
      BY <1>1, <1>3, <3>1, NewUsage
    <3>2. CASE attempt.last # 0
      <4>1. usage \in Usages /\ usage.reqs
        BY <1>3, <3>2 DEF RollbackInv, RollbackTypes, AttemptFirst
      <4> QED BY <1>1, <1>3, <3>2, <4>1, MovedUsage
    <3> QED BY <3>1, <3>2
  <2>4. offered' \subseteq Prios
    BY <1>3 DEF Offered
  <2>5. RollbackTypes'
    BY <1>1, <1>3, <2>1, <2>2, <2>3, <2>4 DEF RollbackInv, RollbackTypes
  <2>6. AttemptFirst'
    BY <1>1, <2>1, <2>2, <2>3, NotKept DEF AttemptFirst, Offered
  <2>7. PriorityEarned'
    BY <2>3 DEF PriorityEarned
  <2> QED BY <2>5, <2>6, <2>7 DEF RollbackInv
<1> QED BY <1>2, <1>3 DEF RecordMisfit

LEMMA BumpRetriesInv ==
  ASSUME RollbackInv, BumpRetries
  PROVE  RollbackInv'
<1>1. /\ attempt.pc = "bump" /\ attempt \in Attempts /\ attempt.choice \in Prios /\ attempt.id \in Nat
      /\ Offered(attempt.pol) # {} /\ deal = NoDeal
      /\ UNCHANGED <<policy, clock, deal, dealCount>>
  BY DEF BumpRetries, RollbackInv, RollbackTypes, AttemptFirst, worldVars, Attempts
<1>2. CASE usage = NoUsage
  BY <1>1, <1>2, RestInv DEF BumpRetries
<1>3. CASE usage # NoUsage
  <2> DEFINE a == [attempt EXCEPT !.pc = "choose", !.last = attempt.choice]
  <2>1. a \in Attempts /\ a.pc = "choose" /\ a.choice = attempt.choice /\ a.pol = attempt.pol
    BY <1>1 DEF Attempts
  <2>2. attempt' = a
    BY <1>3 DEF BumpRetries
  <2> HIDE DEF a
  <2>3. /\ usage' = UpdateRetryCount(usage, RetryLimit[attempt.choice] + 1, attempt.id)
        /\ UNCHANGED <<tries, offered>>
    BY <1>3 DEF BumpRetries, WriteUsage
  <2>4. usage \in Usages /\ usage.reqs /\ RetryLimit[attempt.choice] + 1 \in Nat
    BY <1>1, <1>3, RollbackAssumption DEF RollbackInv, RollbackTypes, AttemptFirst
  <2>5. usage' \in Usages /\ usage'.reqs
    BY <1>1, <2>3, <2>4, RetriedUsage
  <2>6. RollbackTypes'
    BY <1>1, <2>1, <2>2, <2>3, <2>5 DEF RollbackInv, RollbackTypes
  <2>7. AttemptFirst'
    BY <1>1, <2>1, <2>2, <2>5, NotKept DEF AttemptFirst, Offered
  <2>8. PriorityEarned'
    BY <2>5 DEF PriorityEarned
  <2> QED BY <2>6, <2>7, <2>8 DEF RollbackInv
<1> QED BY <1>2, <1>3

\* The agreement, the policy and the clock move; the record stays or is deleted.
LEMMA DealMoves ==
  ASSUME RollbackInv, UNCHANGED <<attempt, dealCount>>, policy' \in PolicyVersions, clock' \in Nat,
         deal' \in Deals \cup {NoDeal}, deal = NoDeal => deal' = NoDeal,
         deal'.state = "proposed" => deal' = deal,
         KeepUsage \/ DeleteWorkloadUsage
  PROVE  RollbackInv'
<1>1. RollbackTypes'
  BY DeletedTypes DEF RollbackInv, RollbackTypes, KeepUsage
<1>2. AttemptFirst'
  BY DEF RollbackInv, AttemptFirst, Offered, KeepUsage, DeleteWorkloadUsage
<1> QED BY <1>1, <1>2, RecordStays, RecordDeleted DEF KeepUsage, DeleteWorkloadUsage, RollbackInv

LEMMA DealAccepted ==
  ASSUME NEW d \in Deals, NEW s \in {"proposed", "rejected", "accepted", "final"}
  PROVE  /\ [d EXCEPT !.state = s] \in Deals /\ [d EXCEPT !.state = s].state = s
BY DEF Deals

LEMMA ReplyWithoutRecordInv ==
  ASSUME RollbackInv, ReplyWithoutRecord
  PROVE  RollbackInv'
<1>1. /\ deal \in Deals /\ deal.state = "proposed" /\ usage = NoUsage /\ Offered(deal.pol) # {}
      /\ UNCHANGED <<policy, clock, attempt, dealCount>>
  BY NotKept DEF ReplyWithoutRecord, RollbackInv, RollbackTypes, AttemptFirst, worldVars
<1>2. deal.prio \in Prios /\ deal.id \in Nat /\ deal.pol \in PolicyVersions /\ attempt.pc = "idle"
  <2>1. deal # NoDeal
    BY <1>1, NotKept
  <2> QED BY <1>1, <2>1 DEF Deals, RollbackInv, AttemptFirst
<1>3. CASE deal.prio # NextHighestPriorityWorkload(deal.pol, 0, 0, 0)
  <2> DEFINE d == [deal EXCEPT !.state = "rejected"]
  <2>1. deal' = d /\ KeepUsage
    BY <1>3 DEF ReplyWithoutRecord
  <2>2. d \in Deals /\ d.state = "rejected"
    BY <1>1, DealAccepted
  <2> HIDE DEF d
  <2>3. policy' \in PolicyVersions /\ clock' \in Nat
    BY <1>1 DEF RollbackInv, RollbackTypes
  <2>4. deal # NoDeal
    BY <1>1, NotKept
  <2> QED BY <1>1, <2>1, <2>2, <2>3, <2>4, DealMoves
<1>4. CASE deal.prio = NextHighestPriorityWorkload(deal.pol, 0, 0, 0)
  <2> DEFINE d == [deal EXCEPT !.state = "accepted"]
  <2> DEFINE u == NewWorkloadUsage(deal.prio, FALSE, deal.id)
  <2>1. /\ deal' = d /\ usage' = u /\ offered' = Offered(deal.pol)
        /\ tries' = [tries EXCEPT ![deal.prio] = @ + 1]
    BY <1>4 DEF ReplyWithoutRecord
  <2>2. d \in Deals /\ d.state = "accepted"
    BY <1>1, DealAccepted
  <2>3. u \in Usages /\ u.prio = deal.prio /\ u.retries = 0
    BY <1>2, NewUsage
  <2> HIDE DEF d, u
  <2>4. tries' \in [Prios -> Nat] /\ tries'[deal.prio] > 0
    BY <1>2, <2>1 DEF RollbackInv, RollbackTypes
  <2>5. \A q \in offered' : ~(q < usage'.prio)
    <3>1. Offered(deal.pol) \subseteq Prios /\ \A q \in Prios : q \in Nat \ {0}
      BY PriosTypes DEF Offered
    <3>2. \A q \in Nat \ {0} : ~(q < 0) /\ q # 0
      OBVIOUS
    <3>3. \A q \in Offered(deal.pol) : q < deal.prio => q < 0 \/ q = 0
      BY <1>1, <1>2, <1>4, NextWorkload
    <3> QED BY <2>1, <2>3, <3>1, <3>2, <3>3
  <2>6. RollbackTypes'
    BY <1>1, <2>1, <2>2, <2>3, <2>4 DEF RollbackInv, RollbackTypes, Offered
  <2>7. AttemptFirst'
    <3>1. attempt.last = 0
      BY <1>2 DEF RollbackInv, AttemptFirst
    <3> QED BY <1>1, <1>2, <2>1, <2>2, <3>1 DEF RollbackInv, AttemptFirst
  <2>8. PriorityEarned'
    BY <2>1, <2>2, <2>3, <2>4, <2>5 DEF PriorityEarned
  <2> QED BY <2>6, <2>7, <2>8 DEF RollbackInv
<1> QED BY <1>3, <1>4

LEMMA ReplyWithRecordInv ==
  ASSUME RollbackInv, ReplyWithRecord
  PROVE  RollbackInv'
<1>1. /\ deal \in Deals /\ deal.state = "proposed" /\ usage \in Usages /\ usage # NoUsage
      /\ UNCHANGED <<policy, clock, attempt, dealCount>>
  BY NotKept DEF ReplyWithRecord, RollbackInv, RollbackTypes, worldVars
<1>2. deal.prio \in Prios /\ deal.id \in Nat /\ attempt.pc = "idle"
  <2>1. deal # NoDeal
    BY <1>1, NotKept
  <2> QED BY <1>1, <2>1 DEF Deals, RollbackInv, AttemptFirst
<1> DEFINE d == [deal EXCEPT !.state = "accepted"]
<1> DEFINE u == IF deal.prio # usage.prio THEN UpdatePriority(usage, deal.prio, deal.id)
                ELSE UpdateRetryCount(usage, usage.retries + 1, deal.id)
<1> DEFINE w == [u EXCEPT !.agid = AgId(u, deal.id)]
<1>3. /\ deal' = d /\ usage' = w /\ offered' = offered \cap Offered(deal.pol)
      /\ tries' = [tries EXCEPT ![deal.prio] = @ + 1]
  BY DEF ReplyWithRecord
<1>4. d \in Deals /\ d.state = "accepted"
  BY <1>1, DealAccepted
<1>5. usage.retries \in Nat /\ usage.retries + 1 \in Nat /\ usage.prio \in Prios
  <2>1. usage.retries \in Nat /\ usage.prio \in Prios
    BY <1>1 DEF Usages
  <2> QED BY <2>1
<1>6. /\ u \in Usages /\ u.reqs = usage.reqs /\ u.prio = deal.prio
      /\ deal.prio # usage.prio => u.retries = 0
      /\ deal.prio = usage.prio => u.retries \in {1, usage.retries + 1}
  <2>1. CASE deal.prio # usage.prio
    BY <1>1, <1>2, <2>1, MovedUsage
  <2>2. CASE deal.prio = usage.prio
    BY <1>1, <1>2, <1>5, <2>2, RetriedUsage
  <2> QED BY <2>1, <2>2
<1>7. /\ w \in Usages /\ w.reqs = u.reqs /\ w.prio = u.prio /\ w.retries = u.retries
  <2> HIDE DEF u
  <2>1. AgId(u, deal.id) \in Nat
    BY <1>2, <1>6 DEF AgId, Usages
  <2> QED BY <1>6, <2>1 DEF Usages
<1> HIDE DEF d, u, w
<1>8. /\ tries' \in [Prios -> Nat] /\ tries'[deal.prio] = tries[deal.prio] + 1
      /\ \A q \in Prios : tries[q] \in Nat /\ tries'[q] >= tries[q]
  BY <1>2, <1>3 DEF RollbackInv, RollbackTypes
<1>9. RollbackTypes'
  BY <1>1, <1>3, <1>4, <1>6, <1>7, <1>8 DEF RollbackInv, RollbackTypes
<1>10. AttemptFirst'
  <2>1. attempt.last = 0
    BY <1>2 DEF RollbackInv, AttemptFirst
  <2> QED BY <1>1, <1>2, <1>3, <1>4, <2>1 DEF RollbackInv, AttemptFirst
<1>11. PriorityEarned'
  <2> SUFFICES ASSUME ~usage.reqs
               PROVE  /\ tries'[usage'.prio] > usage'.retries
                      /\ \A q \in offered' : q < usage'.prio => Earned(q)'
    BY <1>3, <1>4, <1>6, <1>7 DEF PriorityEarned
  <2>1. /\ tries[usage.prio] > usage.retries
        /\ \A q \in offered \cap Offered(deal.pol) : q < deal.prio => Earned(q)
    BY <1>1 DEF RollbackInv, PriorityEarned
  <2>2. tries'[deal.prio] > u.retries
    <3>1. tries[deal.prio] \in Nat /\ u.retries \in Nat
      BY <1>2, <1>6, <1>8 DEF Usages
    <3>2. CASE deal.prio # usage.prio
      BY <1>6, <1>8, <3>1, <3>2
    <3>3. CASE deal.prio = usage.prio
      BY <1>5, <1>6, <1>8, <2>1, <3>1, <3>3
    <3> QED BY <3>2, <3>3
  <2>3. ASSUME NEW q \in offered', q < deal.prio PROVE Earned(q)'
    <3>1. q \in Prios /\ Earned(q)
      BY <1>3, <2>1, <2>3 DEF RollbackInv, RollbackTypes
    <3>2. RetryLimit[q] \in Nat /\ tries[q] \in Nat /\ tries'[q] \in Nat /\ tries'[q] >= tries[q]
      BY <1>8, <3>1, RollbackAssumption
    <3>3. tries[q] >= RetryLimit[q]
      BY <3>1 DEF Earned
    <3>4. tries'[q] >= RetryLimit[q]
      BY <3>2, <3>3
    <3> QED BY <3>4 DEF Earned
  <2> QED BY <1>3, <1>6, <1>7, <2>2, <2>3
<1> QED BY <1>9, <1>10, <1>11 DEF RollbackInv

LEMMA CancelAgreementInv ==
  ASSUME RollbackInv, NEW reason, CancelAgreement(reason)
  PROVE  RollbackInv'
<1>1. deal' = NoDeal /\ UNCHANGED <<policy, clock, attempt, dealCount>>
  BY DEF CancelAgreement, worldVars
<1>2. policy' \in PolicyVersions /\ clock' \in Nat /\ NoDeal.state # "proposed"
  BY <1>1, NotKept DEF RollbackInv, RollbackTypes
<1>3. CASE KeepUsage \/ DeleteWorkloadUsage
  BY <1>1, <1>2, <1>3, DealMoves
<1>4. CASE usage # NoUsage /\ WriteUsage([usage EXCEPT !.agid = 0])
  <2> DEFINE u == [usage EXCEPT !.agid = 0]
  <2>1. usage \in Usages
    BY <1>4 DEF RollbackInv, RollbackTypes
  <2>2. u \in Usages /\ u.reqs = usage.reqs /\ u.prio = usage.prio /\ u.retries = usage.retries
    BY <2>1 DEF Usages
  <2>3. usage' = u /\ UNCHANGED <<tries, offered>>
    BY <1>4 DEF WriteUsage
  <2> HIDE DEF u
  <2>4. RollbackTypes'
    BY <1>1, <2>2, <2>3 DEF RollbackInv, RollbackTypes
  <2>5. AttemptFirst'
    BY <1>1, <1>2, <1>4, <2>2, <2>3 DEF RollbackInv, AttemptFirst
  <2>6. PriorityEarned'
    BY <1>1, <1>2, <1>4, <2>2, <2>3 DEF RollbackInv, PriorityEarned, Earned
  <2> QED BY <2>4, <2>5, <2>6 DEF RollbackInv
<1> QED BY <1>3, <1>4 DEF CancelAgreement

LEMMA HandlePolicyChangedInv ==
  ASSUME RollbackInv, HandlePolicyChanged
  PROVE  RollbackInv'
<1>1. UNCHANGED <<policy, clock, attempt, dealCount>>
  BY DEF HandlePolicyChanged, worldVars
<1>2. policy' \in PolicyVersions /\ policy \in PolicyVersions /\ clock' \in Nat /\ deal \in Deals \cup {NoDeal}
  BY <1>1 DEF RollbackInv, RollbackTypes
<1>3. CASE UNCHANGED deal /\ (KeepUsage \/ DeleteWorkloadUsage)
  BY <1>1, <1>2, <1>3, DealMoves
<1>4. CASE /\ deal # NoDeal /\ deal.state = "final" /\ (KeepUsage \/ DeleteWorkloadUsage)
           /\ \E pol \in {deal.pol, policy} : deal' = [deal EXCEPT !.pol = pol]
  <2>1. PICK pol \in {deal.pol, policy} : deal' = [deal EXCEPT !.pol = pol]
    BY <1>4
  <2> DEFINE d == [deal EXCEPT !.pol = pol]
  <2>2. deal \in Deals
    BY <1>2, <1>4
  <2>3. d \in Deals /\ d.state = "final"
    <3>1. pol \in PolicyVersions
      BY <1>2, <2>2 DEF Deals
    <3> QED BY <1>4, <2>2, <3>1 DEF Deals
  <2>4. deal' = d
    BY <2>1
  <2> HIDE DEF d
  <2>5. KeepUsage \/ DeleteWorkloadUsage
    BY <1>4
  <2> QED BY <1>1, <1>2, <1>4, <2>3, <2>4, <2>5, DealMoves
<1> QED BY <1>3, <1>4 DEF HandlePolicyChanged, EndInvalid

LEMMA RollbackStep == RollbackInv /\ [RollbackNext]_rollbackVars => RollbackInv'
<1> SUFFICES ASSUME RollbackInv, [RollbackNext]_rollbackVars PROVE RollbackInv'
  OBVIOUS
<1>1. /\ policy \in PolicyVersions /\ clock \in Nat /\ deal \in Deals \cup {NoDeal}
  BY DEF RollbackInv, RollbackTypes
<1>2. CASE UNCHANGED rollbackVars
  BY <1>1, <1>2, DealMoves DEF rollbackVars, KeepUsage
<1>3. CASE NothingFits \/ AttemptFails
  BY <1>3, RestInv DEF NothingFits, AttemptFails, worldVars
<1>4. CASE Finalize
  <2> DEFINE d == [deal EXCEPT !.state = "final"]
  <2>1. deal' = d /\ KeepUsage /\ UNCHANGED <<policy, clock, attempt, dealCount>> /\ deal.state = "accepted"
    BY <1>4 DEF Finalize, worldVars
  <2>2. deal \in Deals /\ deal # NoDeal
    BY <1>1, <2>1, NotKept
  <2>3. d \in Deals /\ d.state = "final"
    BY <2>2, DealAccepted
  <2> HIDE DEF d
  <2> QED BY <1>1, <2>1, <2>2, <2>3, DealMoves
<1>5. ASSUME NEW reason, Fail(reason) PROVE RollbackInv'
  BY <1>1, <1>5, DealMoves DEF Fail, worldVars
<1>6. CASE HandleWorkloadUpgrade
  BY <1>1, <1>6, NotKept, DealMoves DEF HandleWorkloadUpgrade, worldVars
<1>7. CASE HandleNodeChanged
  BY <1>1, <1>7, DealMoves DEF HandleNodeChanged, EndInvalid, worldVars
<1>8. CASE RollbackTick
  BY <1>1, <1>8, DealMoves DEF RollbackTick
<1>9. ASSUME NEW p \in Prios, NEW c \in 0..MaxContent, EditPolicyOf(p, c) PROVE RollbackInv'
  <2>1. policy' = [policy EXCEPT ![p] = c] /\ c \in Nat
    BY <1>9 DEF EditPolicyOf
  <2>2. policy' \in PolicyVersions
    BY <1>1, <2>1 DEF PolicyVersions
  <2> QED BY <1>1, <1>9, <2>2, DealMoves DEF EditPolicyOf
<1>10. ASSUME NEW ps \in SUBSET Prios, EditNode(ps) PROVE RollbackInv'
  BY <1>1, <1>10, DealMoves DEF EditNode
<1> QED BY <1>2, <1>3, <1>4, <1>5, <1>6, <1>7, <1>8, <1>9, <1>10, StartAttemptInv, ProposeWorkloadInv,
           RejectWorkloadInv, RecordMisfitInv, BumpRetriesInv, ReplyWithoutRecordInv, ReplyWithRecordInv,
           CancelAgreementInv, HandlePolicyChangedInv DEF RollbackNext

\* A workload usage record that outlives its agreement is at a lower priority only when
\* the higher ones on offer were tried as often as their retries ask, for any list of
\* priorities, limits and changes of the policy (NextHighestPriorityWorkload,
\* HandleAgreementReply, UpdatePriority, UpdateRetryCount).
THEOREM RollbacksAreEarned == RollbackSpec => []RollbackIsEarned
<1>1. RollbackInit => RollbackInv
  <2> SUFFICES ASSUME RollbackInit PROVE RollbackInv
    OBVIOUS
  <2>1. RollbackTypes
    BY NotKept DEF RollbackInit, RollbackTypes, PolicyVersions
  <2>2. AttemptFirst
    BY NotKept DEF RollbackInit, AttemptFirst
  <2>3. PriorityEarned
    BY DEF RollbackInit, PriorityEarned
  <2> QED BY <2>1, <2>2, <2>3 DEF RollbackInv
<1>2. RollbackInv => RollbackIsEarned
  BY DEF RollbackInv, PriorityEarned, RollbackIsEarned, Earned
<1> QED BY <1>1, <1>2, RollbackStep, PTL DEF RollbackSpec

-----------------------------------------------------------------------------
(* Secret updates. *)

Announcements == [path : SecretPaths, time : Nat, deps : SUBSET Deploys]
Values == UNION {[S -> Nat] : S \in SUBSET SecretPaths}
Agreements == [made : BOOLEAN, marker : Nat, ack : Nat, known : Values \cup {<<>>}, managed : BOOLEAN]
UpdateRow == [last : Int, there : BOOLEAN]

\* The state of the updates is well formed.
UpdateTypes ==
  /\ vault \in [SecretPaths -> Nat] /\ wroteAt \in [SecretPaths -> Nat] /\ writes \in Nat /\ second \in Nat
  /\ inForce \subseteq Deploys
  /\ secretRows \in [Deploys -> [SecretPaths -> UpdateRow]]
  /\ poll \in [todo : SUBSET SecretPaths, found : SUBSET Announcements, busy : BOOLEAN]
  /\ announced \in Seq(SUBSET Announcements) /\ governing.updates \subseteq Announcements
  /\ drafts \in [Deploys -> Values \cup {<<>>}]
  /\ contracts \in [Deploys -> Agreements]
  /\ updates \in [Deploys -> Seq(Values)]
  /\ passedBy \in [Deploys -> [SecretPaths -> Nat]]

\* A deployment has to do with the secrets it binds and those of its node.
Related(d, p) == p \in Bound[d] \/ (HasNode(p) /\ d \in NodeLevel)

\* No secret and no announcement has a time later than now, and no value a number later
\* than the last write.
NoTimeAhead ==
  /\ \A p \in SecretPaths : wroteAt[p] <= second /\ vault[p] <= writes
  /\ \A u \in Awaiting : u.time <= second

\* Rows and announcements concern deployments that have to do with the secret.
OnlyRelated ==
  /\ \A d \in Deploys : \A p \in SecretPaths : secretRows[d][p] # NoRow => Related(d, p)
  /\ \A u \in Awaiting : \A d \in u.deps : Related(d, u.path)

\* An agreement belongs to a deployment in force and has a value for each secret it
\* binds; the rows of a managed one are there, and only agreements are sent messages.
OfAgreement ==
  /\ ~poll.busy => poll.found = {}
  /\ \A d \in Deploys :
       /\ contracts[d].made => d \in inForce /\ \A b \in Bound[d] : contracts[d].known[b] \in Nat
       /\ contracts[d].made /\ contracts[d].managed => \A b \in Bound[d] : secretRows[d][b] # NoRow
       /\ ~contracts[d].made => updates[d] = <<>>

\* What InUse says of the deployment and the name alone.
Plain(d, b) ==
  /\ d \notin NodeLevel /\ b \in Bound[d] /\ ~HasNode(b)
  /\ \A c \in Bound[d] : b \in {c, Base(c), Short(c)} => c = b

\* The values of a secret on their way to an agreement follow each other in the
\* order they were written, after the one it has.
InOrder(d, b) ==
  /\ contracts[d].known[b] <= writes
  /\ vault[b] # 0 => contracts[d].known[b] <= vault[b]
  /\ \A i \in DOMAIN updates[d] : b \in DOMAIN updates[d][i] =>
       /\ contracts[d].known[b] <= updates[d][i][b] /\ updates[d][i][b] <= writes
       /\ vault[b] # 0 => updates[d][i][b] <= vault[b]
       /\ \A j \in DOMAIN updates[d] : i < j /\ b \in DOMAIN updates[d][j] =>
            updates[d][i][b] <= updates[d][j][b]
UpdatesInOrder ==
  \A d \in Deploys : \A b \in SecretPaths : contracts[d].made /\ Plain(d, b) => InOrder(d, b)

\* So does the one read for an agreement in the making.
DraftsInOrder ==
  \A d \in Deploys : \A b \in SecretPaths : Plain(d, b) /\ b \in DOMAIN drafts[d] =>
    drafts[d][b] <= writes /\ (vault[b] # 0 => drafts[d][b] <= vault[b])

Followed == \A d \in Deploys : \A b \in SecretPaths : InUse(d, b) => TakenCareOf(d, b) \/ Unseen(d, b)

UpdateInv ==
  UpdateTypes /\ NoTimeAhead /\ OnlyRelated /\ OfAgreement /\ UpdatesInOrder /\ DraftsInOrder /\ Followed

-----------------------------------------------------------------------------

\* An announcement waits in the poll under way or in one of the queued ones.
LEMMA AwaitingIs ==
  \A u : u \in Awaiting <=> u \in poll.found \/ \E i \in DOMAIN announced : u \in announced[i]
BY DEF Awaiting

\* The same in the next state.
LEMMA AwaitingNextIs ==
  \A u : u \in Awaiting' <=> u \in poll'.found \/ \E i \in DOMAIN announced' : u \in announced'[i]
BY DEF Awaiting

\* Without a node in it the path of a secret stands for itself.
LEMMA BaseOfPlain ==
  ASSUME NEW p \in SecretPaths, ~HasNode(p)
  PROVE  Base(p) = p
<1>1. p \in Seq(STRING) /\ p # <<>>
  BY SecretsAssumption
<1>2. CASE HasUser(p)
  <2>1. Short(p) = SubSeq(p, 3, Len(p)) /\ Base(p) = <<"user", p[2]>> \o Short(p)
    BY <1>2 DEF Short, Base
  <2>2. Len(p) \in Nat /\ Len(p) >= 3 /\ p[1] = "user"
    BY <1>1, <1>2 DEF HasUser
  <2>3. Len(Short(p)) = Len(p) - 2 /\ \A i \in 1 .. Len(p) - 2 : Short(p)[i] = p[i + 2]
    BY <1>1, <2>1, <2>2
  <2>4. Short(p) \in Seq(STRING)
    BY <1>1, <2>1, <2>2
  <2>5. <<"user", p[2]>> \in Seq(STRING)
    BY <1>1, <2>2
  <2>6. Base(p) \in Seq(STRING) /\ Len(Base(p)) = Len(p)
    BY <2>1, <2>2, <2>3, <2>4, <2>5
  <2>7. ASSUME NEW i \in 1 .. Len(p) PROVE Base(p)[i] = p[i]
    <3>1. CASE i <= 2
      BY <3>1, <2>1, <2>2, <2>4, <2>5
    <3>2. CASE i > 2
      <4>1. Base(p)[i] = Short(p)[i - 2]
        BY <3>2, <2>1, <2>2, <2>3, <2>4, <2>5
      <4> QED BY <4>1, <3>2, <2>2, <2>3
    <3> QED BY <3>1, <3>2, <2>2
  <2> QED BY <1>1, <2>2, <2>6, <2>7, SeqEqual
<1>3. CASE ~HasUser(p)
  <2>1. Short(p) = SubSeq(p, 1, Len(p)) /\ Base(p) = Short(p)
    BY <1>3 DEF Short, Base
  <2> QED BY <1>1, <2>1
<1> QED BY <1>2, <1>3

\* What the agbot reads of a secret are numbers; they are those of the secret if not 0.
LEMMA ReadsAre ==
  ASSUME UpdateTypes, NEW p
  PROVE  /\ GetSecretMetadata(p) \in Nat /\ GetSecretDetails(p) \in Nat
         /\ GetSecretMetadata(p) # 0 => p \in SecretPaths /\ GetSecretMetadata(p) = wroteAt[p]
         /\ GetSecretDetails(p) # 0 => p \in SecretPaths /\ GetSecretDetails(p) = vault[p]
BY DEF UpdateTypes, GetSecretMetadata, GetSecretDetails, Readable

\* So is the value of a secret; for a plain one it is that of the secret itself.
LEMMA ValueIs ==
  ASSUME UpdateTypes, NEW d, NEW p
  PROVE  /\ Value(d, p) \in Nat
         /\ p \in SecretPaths /\ d \notin NodeLevel /\ ~HasNode(p) /\ Value(d, p) # 0 => Value(d, p) = vault[p]
<1>1. Value(d, p) \in Nat
  BY ReadsAre DEF Value
<1>2. ASSUME p \in SecretPaths, d \notin NodeLevel, ~HasNode(p), Value(d, p) # 0 PROVE Value(d, p) = vault[p]
  <2>1. Value(d, p) = GetSecretDetails(p)
    BY <1>2, BaseOfPlain DEF Value
  <2> QED BY <2>1, <1>2, ReadsAre
<1> QED BY <1>1, <1>2

-----------------------------------------------------------------------------
(* The types. *)

\* The state is well formed when the agbot starts.
LEMMA UpdateTypesInit == SecretsInit => UpdateTypes
<1> SUFFICES ASSUME SecretsInit PROVE UpdateTypes
  OBVIOUS
<1> USE DEF SecretsInit, VaultInit
<1>1. NoRow \in UpdateRow
  BY DEF NoRow, UpdateRow
<1>2. poll \in [todo : SUBSET SecretPaths, found : SUBSET Announcements, busy : BOOLEAN]
  BY DEF NoPoll
<1>3. NoContract \in Agreements
  BY DEF NoContract, Agreements
<1>4. vault \in [SecretPaths -> Nat] /\ wroteAt \in [SecretPaths -> Nat] /\ writes \in Nat /\ second \in Nat
      /\ passedBy \in [Deploys -> [SecretPaths -> Nat]]
  OBVIOUS
<1>5. governing.updates \subseteq Announcements
  BY DEF NoRun
<1>6. announced \in Seq(SUBSET Announcements) /\ updates \in [Deploys -> Seq(Values)] /\ inForce \subseteq Deploys
  OBVIOUS
<1>7. secretRows \in [Deploys -> [SecretPaths -> UpdateRow]] /\ contracts \in [Deploys -> Agreements]
      /\ drafts \in [Deploys -> Values \cup {<<>>}]
  BY <1>1, <1>3
<1> QED BY <1>2, <1>4, <1>5, <1>6, <1>7 DEF UpdateTypes

\* The rows that are added are rows.
LEMMA RowsAdded ==
  ASSUME UpdateTypes, NEW d \in Deploys, NEW p \in SecretPaths
  PROVE  AddManaged(secretRows[d][p], p) \in UpdateRow
BY ReadsAre DEF UpdateTypes, AddManaged, UpdateRow

\* So are those that UpdatePolicies and UpdatePatterns leave.
LEMMA RowsUpdated ==
  ASSUME UpdateTypes, NEW group, NEW served
  PROVE  UpdateRows(group, served) \in [Deploys -> [SecretPaths -> UpdateRow]]
<1>1. NoRow \in UpdateRow
  BY DEF NoRow, UpdateRow
<1> QED BY <1>1, RowsAdded DEF UpdateTypes, UpdateRows

\* An announcement is one.
LEMMA AnnouncementIs ==
  ASSUME UpdateTypes, NEW p \in SecretPaths, NEW t \in Nat, NEW ds \in SUBSET Deploys
  PROVE  Announcement(p, t, ds) \subseteq Announcements
BY DEF UpdateTypes, Announcement, Announcements

\* The largest of a bounded set of numbers.
LEMMA MaxIs ==
  ASSUME NEW T \in SUBSET Nat, T # {}, NEW n \in Nat, \A t \in T : t <= n
  PROVE  Max(T) \in T /\ \A t \in T : t <= Max(T)
<1> DEFINE D == {n - t : t \in T}
<1>1. D \in SUBSET Nat /\ D # {}
  <2>1. ASSUME NEW t \in T PROVE n - t \in Nat
    <3>1. t \in Nat /\ t <= n
      OBVIOUS
    <3> QED BY <3>1
  <2> QED BY <2>1
<1>2. PICK m \in D : \A u \in D : ~(<<u, m>> \in OpToRel(<, Nat))
  <2>1. IsWellFoundedOn(OpToRel(<, Nat), Nat)
    BY NatLessThanWellFounded
  <2> HIDE DEF D
  <2> QED BY <1>1, <2>1, WFMin
<1>3. \A u \in D : m <= u
  <2> TAKE u \in D
  <2> HIDE DEF D
  <2>1. <<u, m>> \in Nat \X Nat
    BY <1>1
  <2>2. ~(<<u, m>> \in {ss \in Nat \X Nat : ss[1] < ss[2]})
    BY <1>2 DEF OpToRel
  <2> QED BY <2>1, <2>2, <1>1
<1>4. PICK s \in T : m = n - s
  OBVIOUS
<1>5. \A t \in T : t <= s
  <2> TAKE t \in T
  <2>1. n - t \in D
    OBVIOUS
  <2>2. t \in Nat /\ s \in Nat
    OBVIOUS
  <2>3. n - s <= n - t
    BY <1>3, <1>4, <2>1
  <2> HIDE DEF D
  <2> QED BY <2>2, <2>3
<1> QED BY <1>4, <1>5 DEF Max

\* The time noted in an agreement is the newest of the announcements.
LEMMA NewestIs ==
  ASSUME NEW us \in SUBSET Announcements, NEW n \in Nat, \A u \in us : u.time <= n
  PROVE  Newest(us) \in Nat /\ Newest(us) <= n /\ \A u \in us : u.time <= Newest(us)
<1> DEFINE T == {0} \cup {u.time : u \in us}
<1>1. T \in SUBSET Nat /\ T # {} /\ (\A t \in T : t <= n) /\ \A u \in us : u.time \in T
  BY DEF Announcements
<1> HIDE DEF T
<1>2. Max(T) \in T /\ \A t \in T : t <= Max(T)
  BY <1>1, MaxIs
<1>3. Newest(us) = Max(T)
  BY DEF Newest, T
<1> QED BY <1>1, <1>2, <1>3

\* What a message carries are values.
LEMMA BindingIs ==
  ASSUME UpdateTypes, NEW d \in Deploys, NEW us
  PROVE  BindingUpdate(d, us) \in Values
<1> DEFINE first(b) == (CHOOSE u \in us : StandsFor(u, b)).path
           S == {c \in Bound[d] : (\E u \in us : StandsFor(u, c)) /\ Value(d, first(c)) # 0}
<1>1. BindingUpdate(d, us) = [b \in S |-> Value(d, first(b))]
  BY DEF BindingUpdate
<1>2. S \in SUBSET SecretPaths
  BY SecretsAssumption
<1>3. \A b \in S : Value(d, first(b)) \in Nat
  BY ValueIs
<1> HIDE DEF S
<1>4. [b \in S |-> Value(d, first(b))] \in [S -> Nat]
  BY <1>3
<1> QED BY <1>1, <1>2, <1>4 DEF Values

\* So are those of a message under way.
LEMMA MessageValueIs ==
  ASSUME UpdateTypes, NEW d \in Deploys, NEW i \in DOMAIN updates[d], NEW b \in DOMAIN updates[d][i]
  PROVE  updates[d][i][b] \in Nat
<1>1. updates[d] \in Seq(Values)
  BY DEF UpdateTypes
<1>2. updates[d][i] \in Values
  BY <1>1, ElementOfSeq
<1>3. PICK S \in SUBSET SecretPaths : updates[d][i] \in [S -> Nat]
  BY <1>2 DEF Values
<1> QED BY <1>3

\* An empty sequence has no element.
LEMMA EmptyHasNone == DOMAIN <<>> = {}
OBVIOUS

\* And those of a draft.
LEMMA DraftIs ==
  ASSUME UpdateTypes, NEW d \in Deploys, NEW b \in DOMAIN drafts[d]
  PROVE  drafts[d][b] \in Nat /\ b \in SecretPaths
<1>1. drafts[d] # <<>>
  BY Zenon, EmptyHasNone
<1>2. PICK S \in SUBSET SecretPaths : drafts[d] \in [S -> Nat]
  BY <1>1 DEF UpdateTypes, Values
<1> QED BY <1>2

-----------------------------------------------------------------------------
(* The steps of the vault and its users. *)

\* A secret stays as it is, is removed, or is written now, as the last write.
LEMMA VaultMoves ==
  ASSUME UpdateTypes, VaultNext
  PROVE  /\ vault' \in [SecretPaths -> Nat] /\ wroteAt' \in [SecretPaths -> Nat]
         /\ writes' \in Nat /\ writes <= writes' /\ second' \in Nat /\ second <= second'
         /\ \A p \in SecretPaths :
              \/ vault'[p] = vault[p] /\ wroteAt'[p] = wroteAt[p]
              \/ vault'[p] = 0 /\ wroteAt'[p] = 0
              \/ vault'[p] = writes' /\ writes < writes' /\ wroteAt'[p] = second'
<1> USE DEF UpdateTypes
<1>1. CASE vault' = vault /\ wroteAt' = wroteAt /\ writes' = writes /\ second' = second
  BY <1>1
<1>2. ASSUME NEW p \in SecretPaths, writes' = writes + 1, second' \in {second, second + 1},
             \/ vault' = [vault EXCEPT ![p] = writes + 1] /\ wroteAt' = [wroteAt EXCEPT ![p] = second']
             \/ vault' = [vault EXCEPT ![p] = 0] /\ wroteAt' = [wroteAt EXCEPT ![p] = 0]
      PROVE  /\ vault' \in [SecretPaths -> Nat] /\ wroteAt' \in [SecretPaths -> Nat]
             /\ writes' \in Nat /\ writes <= writes' /\ second' \in Nat /\ second <= second'
             /\ \A q \in SecretPaths :
                  \/ vault'[q] = vault[q] /\ wroteAt'[q] = wroteAt[q]
                  \/ vault'[q] = 0 /\ wroteAt'[q] = 0
                  \/ vault'[q] = writes' /\ writes < writes' /\ wroteAt'[q] = second'
  <2>1. writes' \in Nat /\ writes < writes' /\ second' \in Nat /\ second <= second'
    BY <1>2
  <2>2. CASE vault' = [vault EXCEPT ![p] = writes'] /\ wroteAt' = [wroteAt EXCEPT ![p] = second']
    BY <2>1, <2>2
  <2>3. CASE vault' = [vault EXCEPT ![p] = 0] /\ wroteAt' = [wroteAt EXCEPT ![p] = 0]
    BY <2>1, <2>3
  <2> QED BY <1>2, <2>2, <2>3
<1>3. ASSUME NEW m, NEW p \in SecretPaths, NEW ok, Request(m, p, ok)
      PROVE  \/ vault' = vault /\ wroteAt' = wroteAt /\ writes' = writes /\ second' = second
             \/ /\ writes' = writes + 1 /\ second' \in {second, second + 1}
                /\ \/ vault' = [vault EXCEPT ![p] = writes + 1] /\ wroteAt' = [wroteAt EXCEPT ![p] = second']
                   \/ vault' = [vault EXCEPT ![p] = 0] /\ wroteAt' = [wroteAt EXCEPT ![p] = 0]
  <2>1. CASE UNCHANGED <<vault, wroteAt, writes, second>>
    BY <2>1
  <2>2. CASE \E done : Written(p, done, TRUE)
    BY <2>2 DEF Written
  <2>3. CASE \E done : Written(p, done, FALSE)
    BY <2>3 DEF Written
  <2> QED BY <1>3, <2>1, <2>2, <2>3 DEF Request
<1>4. CASE Login \/ Renew \/ Outage \/ Recovery
  BY <1>1, <1>4 DEF Login, Renew, Outage, Recovery
<1>5. CASE \E m \in {"POST", "DELETE", "GET", "LIST"}, p \in SecretPaths, ok \in BOOLEAN :
             orgSecret(m, p, ok) \/ userSecret(m, p, ok) \/ nodeSecret(m, p, ok) \/ nodeUserSecret(m, p, ok)
  <2>1. PICK m \in {"POST", "DELETE", "GET", "LIST"}, p \in SecretPaths, ok \in BOOLEAN : Request(m, p, ok)
    BY <1>5 DEF orgSecret, userSecret, nodeSecret, nodeUserSecret
  <2>2. \/ vault' = vault /\ wroteAt' = wroteAt /\ writes' = writes /\ second' = second
        \/ /\ writes' = writes + 1 /\ second' \in {second, second + 1}
           /\ \/ vault' = [vault EXCEPT ![p] = writes + 1] /\ wroteAt' = [wroteAt EXCEPT ![p] = second']
              \/ vault' = [vault EXCEPT ![p] = 0] /\ wroteAt' = [wroteAt EXCEPT ![p] = 0]
    BY <1>3, <2>1
  <2> QED BY <1>1, <1>2, <2>2
<1> QED BY <1>4, <1>5 DEF VaultNext

\* A write makes a secret newer than its rows and announcements, or it is passed by.
LEMMA VaultStepKeeps ==
  ASSUME UpdateInv, VaultStep
  PROVE  UpdateInv'
<1> USE DEF UpdateInv
<1>1. /\ vault' \in [SecretPaths -> Nat] /\ wroteAt' \in [SecretPaths -> Nat]
      /\ writes' \in Nat /\ writes <= writes' /\ second' \in Nat /\ second <= second'
      /\ \A p \in SecretPaths :
           \/ vault'[p] = vault[p] /\ wroteAt'[p] = wroteAt[p]
           \/ vault'[p] = 0 /\ wroteAt'[p] = 0
           \/ vault'[p] = writes' /\ writes < writes' /\ wroteAt'[p] = second'
  BY VaultMoves DEF VaultStep
<1>2. /\ inForce' = inForce /\ secretRows' = secretRows /\ poll' = poll /\ announced' = announced
      /\ governing' = governing /\ drafts' = drafts /\ contracts' = contracts /\ updates' = updates
  BY DEF VaultStep
<1>3. Awaiting' = Awaiting
  BY <1>2 DEF Awaiting
<1>4. ASSUME NEW d \in Deploys, NEW p \in SecretPaths
      PROVE  passedBy'[d][p] = IF /\ vault'[p] \notin {0, vault[p]}
                                  /\ \/ secretRows[d][p].last >= wroteAt'[p]
                                     \/ \E u \in Awaiting \cup governing.updates : u.path = p /\ u.time >= wroteAt'[p]
                               THEN vault'[p] ELSE passedBy[d][p]
  BY DEF VaultStep
<1>5. passedBy' \in [Deploys -> [SecretPaths -> Nat]]
  <2>1. ASSUME NEW d \in Deploys, NEW p \in SecretPaths PROVE passedBy'[d][p] \in Nat
    BY <1>1, <1>4 DEF UpdateTypes
  <2>2. passedBy' = [d \in Deploys |-> [p \in SecretPaths |-> passedBy'[d][p]]]
    BY DEF VaultStep
  <2> QED BY <2>1, <2>2
<1>6. UpdateTypes'
  BY <1>1, <1>2, <1>5 DEF UpdateTypes
<1>7. \A u \in Awaiting \cup governing.updates : u \in Announcements
  BY AwaitingIs, ElementOfSeq DEF UpdateTypes
<1>8. NoTimeAhead'
  <2>1. ASSUME NEW p \in SecretPaths PROVE wroteAt'[p] <= second' /\ vault'[p] <= writes'
    <3>1. /\ vault[p] \in Nat /\ writes \in Nat /\ vault[p] <= writes
          /\ wroteAt[p] \in Nat /\ second \in Nat /\ wroteAt[p] <= second
      BY DEF UpdateTypes, NoTimeAhead
    <3> QED BY <1>1, <3>1
  <2>2. ASSUME NEW u \in Awaiting PROVE u.time <= second'
    <3>1. u.time \in Nat /\ second \in Nat /\ u.time <= second
      BY <1>7 DEF UpdateTypes, NoTimeAhead, Announcements
    <3> QED BY <1>1, <3>1
  <2> QED BY <1>3, <2>1, <2>2 DEF NoTimeAhead
<1>9. OnlyRelated' /\ OfAgreement'
  BY <1>2, <1>3 DEF OnlyRelated, OfAgreement, Related
<1>10. ASSUME NEW b \in SecretPaths, NEW n \in Nat, n <= writes, vault[b] # 0 => n <= vault[b]
       PROVE  n <= writes' /\ (vault'[b] # 0 => n <= vault'[b])
  BY <1>1, <1>10 DEF UpdateTypes
<1>11. UpdatesInOrder'
  <2> SUFFICES ASSUME NEW d \in Deploys, NEW b \in SecretPaths, contracts[d].made, Plain(d, b) PROVE InOrder(d, b)'
    BY <1>2 DEF UpdatesInOrder, Plain
  <2>1. InOrder(d, b)
    BY DEF UpdatesInOrder
  <2>2. contracts[d].known[b] \in Nat
    BY DEF OfAgreement, Plain
  <2>3. ASSUME NEW i \in DOMAIN updates[d], b \in DOMAIN updates[d][i] PROVE updates[d][i][b] \in Nat
    BY <2>3, MessageValueIs
  <2>4. contracts[d].known[b] <= writes' /\ (vault'[b] # 0 => contracts[d].known[b] <= vault'[b])
    BY <1>10, <2>1, <2>2 DEF InOrder
  <2>5. ASSUME NEW i \in DOMAIN updates[d], b \in DOMAIN updates[d][i]
        PROVE  updates[d][i][b] <= writes' /\ (vault'[b] # 0 => updates[d][i][b] <= vault'[b])
    BY <1>10, <2>1, <2>3, <2>5 DEF InOrder
  <2> QED BY <1>2, <2>1, <2>4, <2>5 DEF InOrder
<1>12. DraftsInOrder'
  <2> SUFFICES ASSUME NEW d \in Deploys, NEW b \in SecretPaths, Plain(d, b), b \in DOMAIN drafts[d]
               PROVE  drafts[d][b] <= writes' /\ (vault'[b] # 0 => drafts[d][b] <= vault'[b])
    BY <1>2 DEF DraftsInOrder, Plain
  <2>1. drafts[d][b] \in Nat
    BY DraftIs
  <2> QED BY <1>10, <2>1 DEF DraftsInOrder
<1>13. Followed'
  <2> SUFFICES ASSUME NEW d \in Deploys, NEW b \in SecretPaths, InUse(d, b)' PROVE TakenCareOf(d, b)' \/ Unseen(d, b)'
    BY DEF Followed
  <2>1. CASE vault'[b] = vault[b] /\ wroteAt'[b] = wroteAt[b]
    <3>1. InUse(d, b)
      BY <1>2, <1>4, <2>1 DEF InUse
    <3>2. TakenCareOf(d, b) \/ Unseen(d, b)
      BY <3>1 DEF Followed
    <3> QED BY <1>2, <1>3, <2>1, <3>2 DEF TakenCareOf, Unseen, Announced
  <2>2. CASE vault'[b] = 0
    BY <2>2 DEF InUse
  <2>3. CASE vault'[b] = writes' /\ writes < writes' /\ wroteAt'[b] = second'
    <3>1. vault'[b] \notin {0, vault[b]} /\ vault'[b] \in Nat /\ vault'[b] > passedBy'[d][b]
      <4>1. vault[b] \in Nat /\ vault[b] <= writes /\ writes \in Nat
        BY DEF UpdateTypes, NoTimeAhead
      <4> QED BY <1>1, <2>3, <4>1 DEF InUse
    <3>2. ~(secretRows[d][b].last >= wroteAt'[b])
          /\ \A u \in Awaiting \cup governing.updates : ~(u.path = b /\ u.time >= wroteAt'[b])
      BY <1>4, <3>1
    <3>3. secretRows[d][b].last < wroteAt'[b]
      <4>1. secretRows[d][b].last \in Int /\ wroteAt'[b] \in Nat
        BY <1>1 DEF UpdateTypes, UpdateRow
      <4> QED BY <3>2, <4>1
    <3>4. ASSUME NEW u \in Awaiting \cup governing.updates, u.path = b PROVE u.time < wroteAt'[b]
      <4>1. u.time \in Nat /\ wroteAt'[b] \in Nat
        BY <1>1, <1>7 DEF Announcements
      <4> QED BY <3>2, <3>4, <4>1
    <3> QED BY <1>2, <1>3, <3>3, <3>4 DEF Unseen
  <2> QED BY <1>1, <2>1, <2>2, <2>3
<1> QED BY <1>6, <1>8, <1>9, <1>11, <1>12, <1>13

-----------------------------------------------------------------------------
(* Deployments that come, change and go. *)

\* Only rows of bound secrets are added; one that is there stays.
LEMMA RowsKept ==
  ASSUME NEW group, NEW served, NEW d \in Deploys, NEW p \in SecretPaths
  PROVE  /\ UpdateRows(group, served)[d][p] # NoRow => secretRows[d][p] # NoRow \/ p \in Bound[d]
         /\ p \in Bound[d] /\ secretRows[d][p] # NoRow /\ (d \in group => d \in served)
              => UpdateRows(group, served)[d][p] = secretRows[d][p]
<1> DEFINE r == UpdateRows(group, served)[d][p]
<1>1. r = IF d \notin group \/ ~IsReady THEN secretRows[d][p]
          ELSE IF d \notin served THEN NoRow
          ELSE IF p \in Bound[d] THEN AddManaged(secretRows[d][p], p)
          ELSE IF HasNode(p) THEN secretRows[d][p] ELSE NoRow
  BY DEF UpdateRows
<1>4. secretRows[d][p] # NoRow => AddManaged(secretRows[d][p], p) = secretRows[d][p]
  BY DEF AddManaged
<1> HIDE DEF r
<1>6. r # NoRow => secretRows[d][p] # NoRow \/ p \in Bound[d]
  BY <1>1
<1>7. p \in Bound[d] /\ secretRows[d][p] # NoRow /\ (d \in group => d \in served) => r = secretRows[d][p]
  BY <1>1, <1>4
<1> QED BY <1>6, <1>7 DEF r

\* A step that brings the rows up to date with the deployments, and at most ends
\* agreements, keeps the invariant.
LEMMA RowsStepKeeps ==
  ASSUME UpdateInv, NEW group, NEW served,
         secretRows' = UpdateRows(group, served),
         vault' = vault, wroteAt' = wroteAt, writes' = writes, second' = second, poll' = poll, announced' = announced,
         governing' = governing, passedBy' = passedBy, drafts' \in [Deploys -> Values \cup {<<>>}],
         \A d \in Deploys : drafts'[d] = drafts[d] \/ drafts'[d] = <<>>,
         inForce' \subseteq Deploys, contracts' \in [Deploys -> Agreements], updates' \in [Deploys -> Seq(Values)],
         \A d \in Deploys : \/ contracts'[d] = contracts[d] /\ updates'[d] = updates[d]
                            \/ ~contracts'[d].made /\ updates'[d] = <<>>,
         \A d \in Deploys : contracts'[d].made => d \in inForce' /\ (d \in group => d \in served)
  PROVE  UpdateInv'
<1> USE DEF UpdateInv
<1>1. Awaiting' = Awaiting
  BY DEF Awaiting
<1>2. UpdateTypes'
  BY RowsUpdated DEF UpdateTypes
<1>3. NoTimeAhead'
  BY <1>1 DEF NoTimeAhead
<1>4. OnlyRelated'
  BY <1>1, RowsKept DEF OnlyRelated, Related
<1>5. ASSUME NEW d \in Deploys, contracts'[d].made
      PROVE  contracts'[d] = contracts[d] /\ updates'[d] = updates[d]
  BY <1>5
<1>6. ASSUME NEW d \in Deploys, NEW b \in SecretPaths, contracts'[d].made, contracts[d].managed, b \in Bound[d]
      PROVE  secretRows[d][b] # NoRow /\ secretRows'[d][b] = secretRows[d][b]
  <2>1. secretRows[d][b] # NoRow
    BY <1>5, <1>6 DEF OfAgreement
  <2> QED BY <1>6, <2>1, RowsKept
<1>7. OfAgreement'
  <2>1. \A d \in Deploys : contracts'[d].made => d \in inForce' /\ \A b \in Bound[d] : contracts'[d].known[b] \in Nat
    BY <1>5 DEF OfAgreement
  <2>2. ASSUME NEW d \in Deploys, contracts'[d].made, contracts'[d].managed, NEW b \in Bound[d] PROVE secretRows'[d][b] # NoRow
    <3>1. b \in SecretPaths
      BY SecretsAssumption
    <3> QED BY <3>1, <1>5, <1>6, <2>2
  <2>3. \A d \in Deploys : ~contracts'[d].made => updates'[d] = <<>>
    BY DEF OfAgreement
  <2> QED BY <2>1, <2>2, <2>3 DEF OfAgreement
<1>8. UpdatesInOrder'
  BY <1>5 DEF UpdatesInOrder, InOrder, Plain
<1>10. DraftsInOrder'
  BY EmptyHasNone DEF DraftsInOrder, Plain
<1>9. Followed'
  <2> SUFFICES ASSUME NEW d \in Deploys, NEW b \in SecretPaths, InUse(d, b)' PROVE TakenCareOf(d, b)' \/ Unseen(d, b)'
    BY DEF Followed
  <2>1. contracts'[d] = contracts[d] /\ updates'[d] = updates[d]
    BY <1>5 DEF InUse
  <2>2. InUse(d, b)
    BY <2>1 DEF InUse
  <2>3. secretRows'[d][b] = secretRows[d][b]
    BY <1>6, <2>2, <2>1 DEF InUse
  <2>4. TakenCareOf(d, b) \/ Unseen(d, b)
    BY <2>2 DEF Followed
  <2> QED BY <1>1, <2>1, <2>3, <2>4 DEF TakenCareOf, Unseen, Announced
<1> QED BY <1>2, <1>3, <1>4, <1>7, <1>8, <1>9, <1>10

\* A deployment that comes or goes is such a step.
LEMMA DeploymentStepsKeep ==
  ASSUME UpdateInv, NEW d \in Deploys, DeploymentAdded(d) \/ DeploymentRemoved(d)
  PROVE  UpdateInv'
<1> USE DEF UpdateInv
<1>1. /\ vault' = vault /\ wroteAt' = wroteAt /\ writes' = writes /\ second' = second /\ poll' = poll /\ announced' = announced
      /\ governing' = governing /\ passedBy' = passedBy
  BY DEF DeploymentAdded, DeploymentRemoved, VaultRests
<1>2. CASE DeploymentAdded(d)
  <2>1. /\ contracts' = contracts /\ drafts' = drafts /\ updates' = updates /\ inForce' = inForce \cup {d}
        /\ secretRows' = UpdateRows(KindOf(d), inForce \cup {d})
    BY <1>2 DEF DeploymentAdded
  <2>2. /\ inForce' \subseteq Deploys /\ contracts' \in [Deploys -> Agreements]
        /\ updates' \in [Deploys -> Seq(Values)] /\ drafts' \in [Deploys -> Values \cup {<<>>}]
        /\ \A e \in Deploys : drafts'[e] = drafts[e] \/ drafts'[e] = <<>>
    BY <2>1 DEF UpdateTypes
  <2>3. \A e \in Deploys : contracts[e].made => e \in inForce
    BY DEF OfAgreement
  <2>4. \A e \in Deploys : contracts'[e].made => e \in inForce' /\ (e \in KindOf(d) => e \in inForce \cup {d})
    BY <2>1, <2>3
  <2>5. \A e \in Deploys : \/ contracts'[e] = contracts[e] /\ updates'[e] = updates[e]
                           \/ ~contracts'[e].made /\ updates'[e] = <<>>
    BY <2>1
  <2> QED BY <1>1, <2>1, <2>2, <2>4, <2>5, RowsStepKeeps
<1>3. CASE DeploymentRemoved(d)
  <2>1. /\ contracts' = [contracts EXCEPT ![d] = NoContract] /\ updates' = [updates EXCEPT ![d] = <<>>]
        /\ drafts' = [drafts EXCEPT ![d] = <<>>]
        /\ inForce' = inForce \ {d} /\ secretRows' = UpdateRows(KindOf(d), inForce \ {d})
    BY <1>3 DEF DeploymentRemoved
  <2>2. NoContract \in Agreements /\ ~NoContract.made
    BY DEF NoContract, Agreements
  <2>3. /\ inForce' \subseteq Deploys /\ contracts' \in [Deploys -> Agreements]
        /\ updates' \in [Deploys -> Seq(Values)] /\ drafts' \in [Deploys -> Values \cup {<<>>}]
        /\ \A e \in Deploys : drafts'[e] = drafts[e] \/ drafts'[e] = <<>>
    BY <2>1, <2>2 DEF UpdateTypes
  <2>4. \A e \in Deploys : IF e = d THEN ~contracts'[e].made /\ updates'[e] = <<>>
                           ELSE contracts'[e] = contracts[e] /\ updates'[e] = updates[e]
    BY <2>1, <2>2 DEF UpdateTypes
  <2>5. \A e \in Deploys : contracts[e].made => e \in inForce
    BY DEF OfAgreement
  <2>6. \A e \in Deploys : contracts'[e].made => e \in inForce' /\ (e \in KindOf(d) => e \in inForce \ {d})
    BY <2>1, <2>4, <2>5
  <2>7. \A e \in Deploys : \/ contracts'[e] = contracts[e] /\ updates'[e] = updates[e]
                           \/ ~contracts'[e].made /\ updates'[e] = <<>>
    BY <2>4
  <2> QED BY <1>1, <2>1, <2>3, <2>6, <2>7, RowsStepKeeps
<1> QED BY <1>2, <1>3

\* So is any other change of the deployments of one kind.
LEMMA DeploymentsChangedKeeps ==
  ASSUME UpdateInv, NEW group, DeploymentsChanged(group)
  PROVE  UpdateInv'
<1> USE DEF UpdateInv
<1>1. /\ vault' = vault /\ wroteAt' = wroteAt /\ writes' = writes /\ second' = second /\ poll' = poll /\ announced' = announced
      /\ governing' = governing /\ drafts' = drafts /\ passedBy' = passedBy
      /\ contracts' = contracts /\ updates' = updates /\ inForce' = inForce
      /\ secretRows' = UpdateRows(group, inForce)
  BY DEF DeploymentsChanged, VaultRests
<1>2. /\ inForce' \subseteq Deploys /\ contracts' \in [Deploys -> Agreements]
      /\ updates' \in [Deploys -> Seq(Values)] /\ drafts' \in [Deploys -> Values \cup {<<>>}]
      /\ \A e \in Deploys : drafts'[e] = drafts[e] \/ drafts'[e] = <<>>
  BY <1>1 DEF UpdateTypes
<1>3. \A e \in Deploys : contracts'[e].made => e \in inForce' /\ (e \in group => e \in inForce)
  BY <1>1 DEF OfAgreement
<1>4. \A e \in Deploys : \/ contracts'[e] = contracts[e] /\ updates'[e] = updates[e]
                         \/ ~contracts'[e].made /\ updates'[e] = <<>>
  BY <1>1
<1> QED BY <1>1, <1>2, <1>3, <1>4, RowsStepKeeps

-----------------------------------------------------------------------------
(* Agreements that are made, and polls. *)

\* A step that only changes drafts: what is new in them is the value of now.
LEMMA DraftStepKeeps ==
  ASSUME UpdateInv, vault' = vault, wroteAt' = wroteAt, writes' = writes, second' = second, inForce' = inForce,
         secretRows' = secretRows, poll' = poll, announced' = announced, governing' = governing,
         contracts' = contracts, updates' = updates, passedBy' = passedBy,
         drafts' \in [Deploys -> Values \cup {<<>>}],
         \A e \in Deploys : \A c \in DOMAIN drafts'[e] :
           \/ c \in DOMAIN drafts[e] /\ drafts'[e][c] = drafts[e][c]
           \/ Plain(e, c) => drafts'[e][c] = vault[c]
  PROVE  UpdateInv'
<1> USE DEF UpdateInv
<1>1. UpdateTypes'
  BY DEF UpdateTypes
<1>2. Awaiting' = Awaiting
  BY DEF Awaiting
<1>3. NoTimeAhead' /\ OnlyRelated' /\ OfAgreement'
  BY <1>2 DEF NoTimeAhead, OnlyRelated, OfAgreement, Related
<1>4. UpdatesInOrder'
  BY DEF UpdatesInOrder, InOrder, Plain
<1>5. DraftsInOrder'
  <2> SUFFICES ASSUME NEW e \in Deploys, NEW c \in SecretPaths, Plain(e, c), c \in DOMAIN drafts'[e]
               PROVE  drafts'[e][c] <= writes /\ (vault[c] # 0 => drafts'[e][c] <= vault[c])
    BY DEF DraftsInOrder, Plain
  <2>1. CASE c \in DOMAIN drafts[e] /\ drafts'[e][c] = drafts[e][c]
    BY <2>1 DEF DraftsInOrder
  <2>2. CASE drafts'[e][c] = vault[c]
    BY <2>2 DEF NoTimeAhead, UpdateTypes
  <2> QED BY <2>1, <2>2
<1>6. Followed'
  BY <1>2 DEF Followed, InUse, TakenCareOf, Unseen, Announced
<1> QED BY <1>1, <1>3, <1>4, <1>5, <1>6

\* A secret that is read for an agreement in the making, and an attempt that fails.
LEMMA DraftKeeps ==
  ASSUME UpdateInv, NEW d \in Deploys, DraftFails(d) \/ \E b \in Bound[d] : ExtractSecret(d, b)
  PROVE  UpdateInv'
<1> USE DEF UpdateInv
<1>1. /\ vault' = vault /\ wroteAt' = wroteAt /\ writes' = writes /\ second' = second /\ inForce' = inForce
      /\ secretRows' = secretRows /\ poll' = poll /\ announced' = announced /\ governing' = governing
      /\ contracts' = contracts /\ updates' = updates /\ passedBy' = passedBy
  BY DEF ExtractSecret, DraftFails, VaultRests
<1>2. drafts \in [Deploys -> Values \cup {<<>>}]
  BY DEF UpdateTypes
<1>3. CASE DraftFails(d)
  <2>1. drafts' = [drafts EXCEPT ![d] = <<>>]
    BY <1>3 DEF DraftFails
  <2>2. drafts' \in [Deploys -> Values \cup {<<>>}] /\ drafts'[d] = <<>> /\ \A e \in Deploys \ {d} : drafts'[e] = drafts[e]
    BY <1>2, <2>1
  <2> QED BY <1>1, <2>2, EmptyHasNone, DraftStepKeeps
<1>4. ASSUME NEW b \in Bound[d], ExtractSecret(d, b) PROVE UpdateInv'
  <2> DEFINE old == drafts[d]
  <2>1. PICK new : new = [c \in DOMAIN old \cup {b} |-> IF c = b THEN Value(d, b) ELSE old[c]]
    OBVIOUS
  <2>2. Value(d, b) # 0 /\ drafts' = [drafts EXCEPT ![d] = new]
    BY <1>4, <2>1 DEF ExtractSecret
  <2>3. b \in SecretPaths /\ \A c \in DOMAIN old : c \in SecretPaths /\ old[c] \in Nat
    BY SecretsAssumption, DraftIs
  <2>4. new \in Values
    <3>1. DOMAIN old \cup {b} \in SUBSET SecretPaths
      BY <2>3
    <3>2. new \in [DOMAIN old \cup {b} -> Nat]
      BY <2>1, <2>3, ValueIs
    <3> QED BY <3>1, <3>2 DEF Values
  <2>5. drafts' \in [Deploys -> Values \cup {<<>>}] /\ drafts'[d] = new /\ \A e \in Deploys \ {d} : drafts'[e] = drafts[e]
    BY <1>2, <2>2, <2>4
  <2>6. ASSUME NEW c \in DOMAIN new
        PROVE  (c \in DOMAIN old /\ new[c] = old[c]) \/ (Plain(d, c) => new[c] = vault[c])
    <3>1. CASE c = b
      <4>1. new[c] = Value(d, b)
        BY <2>1, <3>1
      <4> QED BY <2>2, <2>3, <3>1, <4>1, ValueIs DEF Plain
    <3>2. CASE c # b
      BY <2>1, <3>2
    <3> QED BY <3>1, <3>2
  <2>7. \A e \in Deploys : \A c \in DOMAIN drafts'[e] :
           \/ c \in DOMAIN drafts[e] /\ drafts'[e][c] = drafts[e][c]
           \/ Plain(e, c) => drafts'[e][c] = vault[c]
    BY <2>5, <2>6
  <2> QED BY <1>1, <2>5, <2>7, DraftStepKeeps
<1> QED BY <1>3, <1>4

\* A new agreement has the values read for it; one that was written since is still
\* to be announced, or was passed by.
LEMMA PersistDraftKeeps ==
  ASSUME UpdateInv, NEW d \in Deploys, PersistDraft(d)
  PROVE  UpdateInv'
<1> USE DEF UpdateInv
<1>1. /\ vault' = vault /\ wroteAt' = wroteAt /\ writes' = writes /\ second' = second /\ poll' = poll
      /\ announced' = announced /\ governing' = governing
      /\ updates' = updates /\ inForce' = inForce /\ secretRows' = secretRows
      /\ d \in inForce /\ ~contracts[d].made /\ DOMAIN drafts[d] = Bound[d]
  BY DEF PersistDraft, VaultRests
<1>2. PICK new : /\ new = [made |-> TRUE, marker |-> 0, ack |-> 0, known |-> drafts[d],
                           managed |-> \A b \in Bound[d] : secretRows[d][b] # NoRow]
                 /\ contracts' = [contracts EXCEPT ![d] = new]
  BY DEF PersistDraft
<1>3. drafts' = [drafts EXCEPT ![d] = <<>>] /\ drafts \in [Deploys -> Values \cup {<<>>}]
  BY DEF PersistDraft, UpdateTypes
<1>4. \A b \in Bound[d] : drafts[d][b] \in Nat
  BY <1>1, DraftIs
<1>5. new \in Agreements /\ new.made /\ new.known = drafts[d]
      /\ (new.managed => \A b \in Bound[d] : secretRows[d][b] # NoRow)
  <2>1. (\A b \in Bound[d] : secretRows[d][b] # NoRow) \in BOOLEAN
    OBVIOUS
  <2>2. drafts[d] \in Values \cup {<<>>}
    BY <1>3
  <2> QED BY <1>2, <2>1, <2>2 DEF Agreements
<1>6. contracts'[d] = new /\ \A e \in Deploys : e # d => contracts'[e] = contracts[e]
  BY <1>2 DEF UpdateTypes
<1>7. drafts' \in [Deploys -> Values \cup {<<>>}] /\ drafts'[d] = <<>> /\ \A e \in Deploys \ {d} : drafts'[e] = drafts[e]
  BY <1>3
<1>8. /\ \A p \in SecretPaths : passedBy'[d][p] =
            IF p \in Bound[d] /\ drafts[d][p] # vault[p] /\ ~Announced(d, p) /\ ~Unseen(d, p)
            THEN writes ELSE passedBy[d][p]
      /\ \A e \in Deploys \ {d} : passedBy'[e] = passedBy[e]
      /\ passedBy' \in [Deploys -> [SecretPaths -> Nat]]
  <2>1. PICK f : f = [p \in SecretPaths |->
            IF p \in Bound[d] /\ drafts[d][p] # vault[p] /\ ~Announced(d, p) /\ ~Unseen(d, p)
            THEN writes ELSE passedBy[d][p]]
    OBVIOUS
  <2>2. passedBy' = [passedBy EXCEPT ![d] = f] /\ passedBy \in [Deploys -> [SecretPaths -> Nat]] /\ writes \in Nat
    BY <2>1 DEF PersistDraft, UpdateTypes
  <2>3. f \in [SecretPaths -> Nat]
    BY <2>1, <2>2
  <2> QED BY <2>1, <2>2, <2>3
<1>9. UpdateTypes'
  <2>1. contracts' \in [Deploys -> Agreements]
    BY <1>2, <1>5 DEF UpdateTypes
  <2> QED BY <1>1, <1>7, <1>8, <2>1 DEF UpdateTypes
<1>10. Awaiting' = Awaiting
  BY <1>1 DEF Awaiting
<1>11. NoTimeAhead' /\ OnlyRelated'
  BY <1>1, <1>10 DEF NoTimeAhead, OnlyRelated, Related
<1>12. OfAgreement'
  BY <1>1, <1>4, <1>5, <1>6 DEF OfAgreement
<1>13. updates[d] = <<>>
  BY <1>1 DEF OfAgreement
<1>14. UpdatesInOrder'
  <2> SUFFICES ASSUME NEW e \in Deploys, NEW b \in SecretPaths, contracts'[e].made, Plain(e, b) PROVE InOrder(e, b)'
    BY DEF UpdatesInOrder, Plain
  <2>1. CASE e = d
    <3>1. /\ contracts'[e].known[b] = drafts[d][b] /\ drafts[d][b] <= writes
          /\ vault[b] # 0 => drafts[d][b] <= vault[b]
      BY <1>1, <1>5, <1>6, <2>1 DEF DraftsInOrder, Plain
    <3>2. DOMAIN updates'[e] = {}
      BY <1>1, <1>13, <2>1
    <3> QED BY <1>1, <3>1, <3>2 DEF InOrder
  <2>2. CASE e # d
    <3>1. InOrder(e, b)
      BY <1>6, <2>2 DEF UpdatesInOrder
    <3> QED BY <1>1, <1>6, <2>2, <3>1 DEF InOrder
  <2> QED BY <2>1, <2>2
<1>15. DraftsInOrder'
  BY <1>1, <1>7, EmptyHasNone DEF DraftsInOrder, Plain
<1>16. Followed'
  <2> SUFFICES ASSUME NEW e \in Deploys, NEW b \in SecretPaths, InUse(e, b)' PROVE TakenCareOf(e, b)' \/ Unseen(e, b)'
    BY DEF Followed
  <2>1. CASE e = d
    <3>1. b \in Bound[d] /\ vault[b] > passedBy'[d][b]
      BY <1>1, <2>1 DEF InUse
    <3>2. drafts[d][b] = vault[b] \/ Announced(d, b) \/ Unseen(d, b)
      <4>1. vault[b] \in Nat /\ writes \in Nat /\ vault[b] <= writes
        BY DEF UpdateTypes, NoTimeAhead
      <4> QED BY <1>8, <3>1, <4>1
    <3>3. CASE drafts[d][b] = vault[b]
      BY <1>1, <1>5, <1>6, <2>1, <3>3 DEF TakenCareOf
    <3>4. CASE Announced(d, b)
      BY <1>1, <1>10, <2>1, <3>4 DEF TakenCareOf, Announced
    <3>5. CASE Unseen(d, b)
      BY <1>1, <1>10, <2>1, <3>5 DEF Unseen
    <3> QED BY <2>1, <3>2, <3>3, <3>4, <3>5
  <2>2. CASE e # d
    <3>1. InUse(e, b)
      BY <1>1, <1>6, <1>8, <2>2 DEF InUse
    <3>2. TakenCareOf(e, b) \/ Unseen(e, b)
      BY <3>1 DEF Followed
    <3> QED BY <1>1, <1>6, <1>10, <2>2, <3>2 DEF TakenCareOf, Unseen, Announced
  <2> QED BY <2>1, <2>2
<1> QED BY <1>9, <1>11, <1>12, <1>14, <1>15, <1>16

\* A step that changes only the poll and its queue, and no announcement.
LEMMA SameAnnouncementsKeep ==
  ASSUME UpdateInv, vault' = vault, wroteAt' = wroteAt, writes' = writes, second' = second, passedBy' = passedBy, updates' = updates, inForce' = inForce,
         secretRows' = secretRows, contracts' = contracts, governing' = governing, drafts' = drafts, Awaiting' = Awaiting,
         poll' \in [todo : SUBSET SecretPaths, found : SUBSET Announcements, busy : BOOLEAN],
         announced' \in Seq(SUBSET Announcements), ~poll'.busy => poll'.found = {}
  PROVE  UpdateInv'
<1> USE DEF UpdateInv
<1>1. UpdateTypes'
  BY DEF UpdateTypes
<1>2. NoTimeAhead' /\ OnlyRelated' /\ OfAgreement'
  BY DEF NoTimeAhead, OnlyRelated, OfAgreement, Related
<1>3. UpdatesInOrder' /\ DraftsInOrder'
  BY DEF UpdatesInOrder, DraftsInOrder, InOrder, Plain
<1>4. Followed'
  BY DEF Followed, InUse, TakenCareOf, Unseen, Announced
<1> QED BY <1>1, <1>2, <1>3, <1>4

\* A poll that starts has found nothing.
LEMMA PollStartKeeps ==
  ASSUME UpdateInv, PollStart
  PROVE  UpdateInv'
<1> USE DEF UpdateInv
<1>1. /\ vault' = vault /\ wroteAt' = wroteAt /\ writes' = writes /\ second' = second /\ passedBy' = passedBy /\ updates' = updates /\ inForce' = inForce
      /\ secretRows' = secretRows /\ contracts' = contracts /\ announced' = announced
      /\ governing' = governing /\ drafts' = drafts
      /\ ~poll.busy /\ poll' = [todo |-> Managed, found |-> {}, busy |-> TRUE]
  BY DEF PollStart, VaultRests
<1>2. poll.found = {} /\ poll'.found = {} /\ poll'.busy
  BY <1>1 DEF OfAgreement
<1>3. Awaiting' = Awaiting
  BY <1>1, <1>2 DEF Awaiting
<1>4. poll' \in [todo : SUBSET SecretPaths, found : SUBSET Announcements, busy : BOOLEAN]
  BY <1>1 DEF Managed
<1>5. announced' \in Seq(SUBSET Announcements)
  BY <1>1 DEF UpdateTypes
<1> QED BY <1>1, <1>2, <1>3, <1>4, <1>5, SameAnnouncementsKeep

\* What a poll found is queued as it is.
LEMMA PollEndKeeps ==
  ASSUME UpdateInv, PollEnd
  PROVE  UpdateInv'
<1> USE DEF UpdateInv
<1>1. /\ vault' = vault /\ wroteAt' = wroteAt /\ writes' = writes /\ second' = second /\ passedBy' = passedBy /\ updates' = updates /\ inForce' = inForce
      /\ secretRows' = secretRows /\ contracts' = contracts /\ poll' = NoPoll
      /\ governing' = governing /\ drafts' = drafts
      /\ announced' = IF poll.found = {} THEN announced ELSE Append(announced, poll.found)
  BY DEF PollEnd, VaultRests
<1>2. poll'.found = {} /\ ~poll'.busy
      /\ poll' \in [todo : SUBSET SecretPaths, found : SUBSET Announcements, busy : BOOLEAN]
  BY <1>1 DEF NoPoll
<1>3. announced \in Seq(SUBSET Announcements) /\ poll.found \in SUBSET Announcements
  BY DEF UpdateTypes
<1>4. announced' \in Seq(SUBSET Announcements)
  BY <1>1, <1>3
<1>5. Awaiting' = Awaiting
  <2>1. CASE poll.found = {}
    BY <1>1, <1>2, <2>1 DEF Awaiting
  <2>2. CASE poll.found # {}
    <3>1. /\ DOMAIN announced' = DOMAIN announced \cup {Len(announced) + 1}
          /\ announced'[Len(announced) + 1] = poll.found
          /\ \A i \in DOMAIN announced : announced'[i] = announced[i]
      BY <1>1, <1>3, <2>2
    <3>2. \A u : u \in Awaiting' <=> u \in Awaiting
      BY <3>1, <1>2, AwaitingIs, AwaitingNextIs
    <3> QED BY <3>2
  <2> QED BY <2>1, <2>2
<1> QED BY <1>1, <1>2, <1>4, <1>5, SameAnnouncementsKeep

\* The rows that a poll that cannot read a secret marks.
LEMMA RowsMarked ==
  ASSUME UpdateTypes, NEW p, NEW d \in Deploys, NEW q \in SecretPaths
  PROVE  LET r == SetSecretExists(secretRows, p)[d][q] IN
         /\ r \in UpdateRow
         /\ r = NoRow <=> secretRows[d][q] = NoRow
         /\ r = secretRows[d][q] \/ (q = Short(p) /\ secretRows[d][q].there)
<1> DEFINE r == SetSecretExists(secretRows, p)[d][q]
<1>1. r = IF q = Short(p) /\ secretRows[d][q].there THEN [last |-> second, there |-> FALSE] ELSE secretRows[d][q]
  BY DEF SetSecretExists
<1>2. second \in Nat /\ secretRows[d][q] \in UpdateRow
  BY DEF UpdateTypes
<1>3. ~NoRow.there /\ NoRow.last = -1
  BY DEF NoRow
<1>4. [last |-> second, there |-> FALSE] \in UpdateRow /\ [last |-> second, there |-> FALSE].last = second
  BY <1>2 DEF UpdateRow
<1>5. [last |-> second, there |-> FALSE] # NoRow
  BY <1>2, <1>3, <1>4
<1> HIDE DEF r
<1>6. r \in UpdateRow
  BY <1>1, <1>2, <1>4
<1>7. r = NoRow <=> secretRows[d][q] = NoRow
  BY <1>1, <1>3, <1>5
<1>8. r = secretRows[d][q] \/ (q = Short(p) /\ secretRows[d][q].there)
  BY <1>1
<1> QED BY <1>6, <1>7, <1>8 DEF r

\* A poll announces a changed secret to every deployment whose row is older than it,
\* but for those that MayLose names when it cannot be read.
LEMMA PollSecretKeeps ==
  ASSUME UpdateInv, NEW p \in SecretPaths, PollSecret(p)
  PROVE  UpdateInv'
<1> USE DEF UpdateInv
<1> DEFINE t == GetSecretMetadata(p)
           marked == IF t = 0 THEN SetSecretExists(secretRows, p) ELSE secretRows
           pols == RowsBehind(SecretPolicies, secretRows, p, t)
           pats == RowsBehind(SecretPatterns, marked, p, t)
           new == Announcement(p, t, pols) \cup Announcement(p, t, pats)
           time == IF t = 0 THEN second ELSE t
<1>1. /\ vault' = vault /\ wroteAt' = wroteAt /\ writes' = writes /\ second' = second /\ announced' = announced /\ updates' = updates /\ inForce' = inForce
      /\ contracts' = contracts /\ governing' = governing /\ drafts' = drafts /\ poll.busy /\ secretRows' = marked
      /\ poll' = [poll EXCEPT !.todo = @ \ {p}, !.found = @ \cup Announcement(p, t, pols) \cup Announcement(p, t, pats)]
      /\ passedBy' = [e \in Deploys |-> [q \in SecretPaths |-> IF t = 0 /\ MayLose(e, q, p) THEN writes ELSE passedBy[e][q]]]
  BY DEF PollSecret, VaultRests
<1>2. /\ t \in Nat /\ (t # 0 => t = wroteAt[p]) /\ second \in Nat /\ wroteAt[p] <= second /\ wroteAt[p] \in Nat
  BY ReadsAre DEF UpdateTypes, NoTimeAhead
<1>3. time \in Nat /\ wroteAt[p] <= time /\ time <= second
  BY <1>2
<1>4. ASSUME NEW d \in Deploys, NEW q \in SecretPaths
      PROVE  /\ marked[d][q] \in UpdateRow
             /\ marked[d][q] = NoRow <=> secretRows[d][q] = NoRow
             /\ marked[d][q] = secretRows[d][q] \/ (t = 0 /\ q = Short(p) /\ secretRows[d][q].there)
  BY RowsMarked DEF UpdateTypes
<1>5. marked \in [Deploys -> [SecretPaths -> UpdateRow]]
  <2>1. CASE t = 0
    <3>1. SetSecretExists(secretRows, p) \in [Deploys -> [SecretPaths -> UpdateRow]]
      BY <1>4, <2>1 DEF SetSecretExists
    <3> QED BY <2>1, <3>1
  <2>2. CASE t # 0
    BY <2>2 DEF UpdateTypes
  <2> QED BY <2>1, <2>2
<1>6. /\ pols \subseteq Deploys /\ pats \subseteq Deploys
      /\ \A d \in Deploys : d \in pols <=> d \in SecretPolicies /\ secretRows[d][p] # NoRow
                                           /\ (secretRows[d][p].last < t \/ (t = 0 /\ secretRows[d][p].there))
      /\ \A d \in Deploys : d \in pats <=> d \in SecretPatterns /\ marked[d][p] # NoRow
                                           /\ (marked[d][p].last < t \/ (t = 0 /\ marked[d][p].there))
  BY DEF RowsBehind, Deploys
<1>7. \A u : u \in new <=> \/ pols # {} /\ u = [path |-> p, time |-> time, deps |-> pols]
                           \/ pats # {} /\ u = [path |-> p, time |-> time, deps |-> pats]
  BY DEF Announcement
<1>8. new \subseteq Announcements
  BY <1>3, <1>6, <1>7 DEF Announcements
<1>9. \A d \in pols \cup pats : Related(d, p)
  <2> TAKE d \in pols \cup pats
  <2>1. d \in Deploys /\ secretRows[d][p] # NoRow
    BY <1>4, <1>6
  <2> QED BY <2>1 DEF OnlyRelated
<1> HIDE DEF new, pols, pats, marked, t, time
<1>10. /\ poll' \in [todo : SUBSET SecretPaths, found : SUBSET Announcements, busy : BOOLEAN]
       /\ poll'.found = poll.found \cup new /\ poll'.busy
  <2>1. poll' = [poll EXCEPT !.todo = @ \ {p}, !.found = @ \cup new]
    BY <1>1 DEF new
  <2>2. poll \in [todo : SUBSET SecretPaths, found : SUBSET Announcements, busy : BOOLEAN]
    BY DEF UpdateTypes
  <2> QED BY <1>1, <1>8, <2>1, <2>2
<1>11. \A u : u \in Awaiting' <=> u \in Awaiting \/ u \in new
  BY <1>1, <1>10, AwaitingIs, AwaitingNextIs
<1>12. UpdateTypes'
  <2>1. passedBy' \in [Deploys -> [SecretPaths -> Nat]]
    BY <1>1 DEF UpdateTypes
  <2> QED BY <1>1, <1>5, <1>10, <1>2, <2>1 DEF UpdateTypes
<1>13. NoTimeAhead'
  <2>1. \A u \in Awaiting' : u.time <= second
    BY <1>3, <1>7, <1>11 DEF NoTimeAhead
  <2> QED BY <1>1, <2>1 DEF NoTimeAhead
<1>14. OnlyRelated'
  <2>1. \A u \in new : \A d \in u.deps : Related(d, u.path)
    BY <1>7, <1>9
  <2>2. \A d \in Deploys : \A q \in SecretPaths : secretRows'[d][q] # NoRow => Related(d, q)
    BY <1>1, <1>4 DEF OnlyRelated
  <2> QED BY <1>11, <2>1, <2>2 DEF OnlyRelated, Related
<1>15. OfAgreement'
  <2>1. ASSUME NEW d \in Deploys, contracts[d].made, contracts[d].managed, NEW b \in Bound[d] PROVE secretRows'[d][b] # NoRow
    <3>1. b \in SecretPaths /\ secretRows[d][b] # NoRow
      BY <2>1, SecretsAssumption DEF OfAgreement
    <3> QED BY <1>1, <1>4, <3>1
  <2> QED BY <1>1, <1>10, <2>1 DEF OfAgreement
<1>16. UpdatesInOrder' /\ DraftsInOrder'
  BY <1>1 DEF UpdatesInOrder, DraftsInOrder, InOrder, Plain
<1>17. Followed'
  <2> SUFFICES ASSUME NEW d \in Deploys, NEW b \in SecretPaths, InUse(d, b)' PROVE TakenCareOf(d, b)' \/ Unseen(d, b)'
    BY DEF Followed
  <2>1. vault[b] \in Nat /\ vault[b] <= writes /\ writes \in Nat /\ passedBy[d][b] \in Nat /\ vault[b] > passedBy'[d][b]
    BY <1>1 DEF InUse, NoTimeAhead, UpdateTypes
  <2>2. ~(t = 0 /\ MayLose(d, b, p)) /\ passedBy'[d][b] = passedBy[d][b]
    <3>1. passedBy'[d][b] = IF t = 0 /\ MayLose(d, b, p) THEN writes ELSE passedBy[d][b]
      BY <1>1
    <3> QED BY <1>2, <2>1, <3>1
  <2>3. InUse(d, b)
    BY <1>1, <2>2 DEF InUse
  <2>4. CASE TakenCareOf(d, b)
    BY <1>1, <1>11, <2>4 DEF TakenCareOf, Announced
  <2>5. ASSUME d \in pols \cup pats, p = b PROVE TakenCareOf(d, b)'
    <3>1. PICK ds : d \in ds /\ [path |-> p, time |-> time, deps |-> ds] \in new
      <4>1. CASE d \in pols
        BY <1>7, <4>1
      <4>2. CASE d \in pats
        BY <1>7, <4>2
      <4> QED BY <2>5, <4>1, <4>2
    <3>2. PICK u \in new : u.path = p /\ u.time = time /\ d \in u.deps
      BY <3>1
    <3> QED BY <1>1, <1>3, <1>11, <2>5, <3>2 DEF TakenCareOf, Announced
  <2>6. CASE Unseen(d, b) /\ p # b
    <3>1. secretRows'[d][b] = secretRows[d][b]
      BY <1>1, <1>4, <2>2, <2>6 DEF MayLose
    <3>2. \A u \in Awaiting' : u.path = b => u \in Awaiting
      BY <1>7, <1>11, <2>6
    <3> QED BY <1>1, <2>6, <3>1, <3>2 DEF Unseen
  <2>7. CASE Unseen(d, b) /\ p = b /\ d \notin pols \cup pats
    <3>1. d \in SecretPolicies \/ d \in SecretPatterns
      BY DEF Deploys
    <3>2. secretRows[d][b] # NoRow
      BY <2>3 DEF InUse, OfAgreement
    <3>3. t = 0
      <4>1. ASSUME t # 0 PROVE FALSE
        <5>1. secretRows[d][b].last < t
          BY <1>2, <2>7, <4>1 DEF Unseen
        <5>2. marked[d][b] = secretRows[d][b]
          BY <1>4, <4>1
        <5> QED BY <1>6, <2>7, <3>1, <3>2, <5>1, <5>2
      <4> QED BY <4>1
    <3>4. marked[d][b] = secretRows[d][b]
      <4>1. ASSUME marked[d][b] # secretRows[d][b] PROVE FALSE
        <5>1. b = Short(p) /\ secretRows[d][b].there
          BY <1>4, <4>1
        <5>2. d \notin SecretPatterns
          BY <2>2, <2>7, <3>3, <5>1 DEF MayLose
        <5> QED BY <1>6, <2>7, <3>1, <3>2, <3>3, <5>1, <5>2
      <4> QED BY <4>1
    <3>5. pols = {} /\ pats = {}
      <4>1. ASSUME NEW e \in pols \cup pats PROVE FALSE
        <5>1. e \in Deploys /\ Related(e, b)
          BY <1>6, <1>9, <2>7
        <5>2. b \in Bound[e]
          BY <2>3, <5>1 DEF InUse, Related
        <5>3. e = d
          BY <2>2, <2>7, <3>3, <5>1, <5>2 DEF MayLose
        <5> QED BY <2>7, <5>3
      <4> QED BY <4>1
    <3>6. \A u \in Awaiting' : u \in Awaiting
      BY <1>7, <1>11, <3>5
    <3> QED BY <1>1, <2>7, <3>4, <3>6 DEF Unseen
  <2>8. TakenCareOf(d, b) \/ Unseen(d, b)
    BY <2>3 DEF Followed
  <2> QED BY <2>4, <2>5, <2>6, <2>7, <2>8
<1> QED BY <1>12, <1>13, <1>14, <1>15, <1>16, <1>17

-----------------------------------------------------------------------------
(* Governance, and the messages to the node. *)

\* A message that concerns a plain secret carries its value.
LEMMA BindingCarries ==
  ASSUME UpdateTypes, NEW d \in Deploys, NEW b \in SecretPaths, Plain(d, b), NEW us,
         \A u \in us : u.path \in Bound[d], b \in DOMAIN BindingUpdate(d, us)
  PROVE  BindingUpdate(d, us)[b] = vault[b] /\ vault[b] # 0
<1> DEFINE first(c) == (CHOOSE u \in us : StandsFor(u, c)).path
           S == {c \in Bound[d] : (\E u \in us : StandsFor(u, c)) /\ Value(d, first(c)) # 0}
<1>1. BindingUpdate(d, us) = [c \in S |-> Value(d, first(c))]
  BY DEF BindingUpdate
<1>2. b \in S /\ BindingUpdate(d, us)[b] = Value(d, first(b))
  BY <1>1
<1>3. PICK u \in us : u = CHOOSE v \in us : StandsFor(v, b)
  BY <1>2
<1>4. StandsFor(u, b)
  BY <1>2, <1>3
<1>5. first(b) = b
  BY <1>3, <1>4 DEF StandsFor, Plain
<1>6. Value(d, b) # 0
  BY <1>2, <1>5
<1> QED BY <1>2, <1>5, <1>6, ValueIs DEF Plain

\* What governance does to the agreement of a deployment.
LEMMA GovernedAgreement ==
  ASSUME UpdateTypes, NEW us \in SUBSET Announcements, \A u \in us : u.time <= second,
         NEW d \in Deploys, NEW c, c = [contracts[d] EXCEPT !.marker = Newest(GetUpdatedSecrets(d, us))]
  PROVE  /\ c \in Agreements /\ c.made = contracts[d].made /\ c.known = contracts[d].known
         /\ c.managed = contracts[d].managed
<1> DEFINE mine == GetUpdatedSecrets(d, us)
           n == Newest(mine)
<1>1. mine \in SUBSET Announcements /\ \A u \in mine : u.time <= second
  BY DEF GetUpdatedSecrets
<1>2. second \in Nat /\ contracts[d] \in Agreements
  BY DEF UpdateTypes
<1>3. n \in Nat
  BY <1>1, <1>2, NewestIs
<1>4. c = [contracts[d] EXCEPT !.marker = n]
  OBVIOUS
<1> HIDE DEF n
<1> QED BY <1>2, <1>3, <1>4 DEF Agreements

\* The rows of bound secrets are not touched by the upkeep of the node's own ones.
LEMMA NodeRows ==
  ASSUME UpdateTypes, OnlyRelated, NEW d \in Deploys, NEW p \in SecretPaths
  PROVE  LET r == UpdateNodeSecrets[d][p] IN
         /\ r \in UpdateRow /\ (r # NoRow => Related(d, p))
         /\ p \in Bound[d] => r = secretRows[d][p]
<1> DEFINE r == UpdateNodeSecrets[d][p]
<1>1. \/ r = secretRows[d][p]
      \/ p \notin Bound[d] /\ r = NoRow
      \/ p \notin Bound[d] /\ HasNode(p) /\ d \in NodeLevel /\ r = AddManaged(secretRows[d][p], p)
  BY DEF UpdateNodeSecrets
<1>2. secretRows[d][p] \in UpdateRow /\ (secretRows[d][p] # NoRow => Related(d, p))
  BY DEF UpdateTypes, OnlyRelated
<1>3. NoRow \in UpdateRow
  BY DEF NoRow, UpdateRow
<1>4. AddManaged(secretRows[d][p], p) \in UpdateRow
  BY RowsAdded
<1> HIDE DEF r
<1>6. r \in UpdateRow
  BY <1>1, <1>2, <1>3, <1>4
<1>7. (r # NoRow => Related(d, p)) /\ (p \in Bound[d] => r = secretRows[d][p])
  BY <1>1, <1>2 DEF Related
<1> QED BY <1>6, <1>7 DEF r

\* The rows of the announced secrets move to their time.
LEMMA GovernedRows ==
  ASSUME UpdateTypes, NEW d \in Deploys, NEW p \in SecretPaths
  PROVE  LET r == SetSecretUpdate(secretRows, governing)[d][p] IN
         /\ r \in UpdateRow /\ (r = NoRow <=> secretRows[d][p] = NoRow)
         /\ r = secretRows[d][p] \/ \E u \in governing.updates : u.path = p /\ r.last = u.time
<1> DEFINE r == SetSecretUpdate(secretRows, governing)[d][p]
           old == secretRows[d][p]
           us == governing.updates
<1>1. r = IF old # NoRow /\ \E u \in us : u.path = p
          THEN [last |-> (CHOOSE u \in us : u.path = p).time, there |-> p \notin governing.gone] ELSE old
  BY DEF SetSecretUpdate
<1>2. old \in UpdateRow /\ us \in SUBSET Announcements
  BY DEF UpdateTypes
<1> HIDE DEF r, old, us
<1>3. CASE ~(old # NoRow /\ \E u \in us : u.path = p)
  <2>1. r = old
    BY <1>1, <1>3
  <2> QED BY <1>2, <2>1 DEF r, old
<1>4. CASE old # NoRow /\ \E u \in us : u.path = p
  <2>1. PICK w \in us : w.path = p /\ w = CHOOSE u \in us : u.path = p
    BY <1>4
  <2>2. PICK there \in BOOLEAN : r = [last |-> w.time, there |-> there]
    BY <1>1, <1>4, <2>1
  <2>3. w.time \in Nat
    BY <1>2, <2>1 DEF Announcements
  <2>4. r \in UpdateRow /\ r.last = w.time
    BY <2>2, <2>3 DEF UpdateRow
  <2>5. r # NoRow
    BY <2>3, <2>4 DEF NoRow
  <2> QED BY <1>4, <2>1, <2>4, <2>5 DEF r, old, us
<1> QED BY <1>3, <1>4

\* A governance run takes an announcement only for values it sends, or passes by.
LEMMA GovernAgreementsKeep ==
  ASSUME UpdateInv, GovernAgreements
  PROVE  UpdateInv'
<1> USE DEF UpdateInv
<1> DEFINE us == IF announced = <<>> THEN {} ELSE Head(announced)
           told == {d \in Deploys : contracts[d].made /\ GetUpdatedSecrets(d, us) # {}}
           note(d) == [contracts[d] EXCEPT !.marker = Newest(GetUpdatedSecrets(d, us))]
<1>1. /\ vault' = vault /\ wroteAt' = wroteAt /\ writes' = writes /\ second' = second /\ inForce' = inForce /\ poll' = poll
      /\ drafts' = drafts /\ governing'.updates = us
      /\ announced' = IF announced = <<>> THEN announced ELSE Tail(announced)
      /\ contracts' = [d \in Deploys |-> IF d \in told THEN note(d) ELSE contracts[d]]
      /\ secretRows' = UpdateNodeSecrets
  BY DEF GovernAgreements
<1>2. PICK lost \in SUBSET told :
        /\ updates' = [d \in Deploys |->
             IF d \in told \ lost THEN Append(updates[d], BindingUpdate(d, GetUpdatedSecrets(d, us))) ELSE updates[d]]
        /\ passedBy' = [d \in Deploys |-> [p \in SecretPaths |->
             IF /\ contracts[d].made
                /\ \E u \in us : u.path = p /\ d \in u.deps /\ u.time >= wroteAt[p]
                /\ d \in told \ lost => p \notin DOMAIN BindingUpdate(d, GetUpdatedSecrets(d, us))
             THEN writes ELSE passedBy[d][p]]]
  BY DEF GovernAgreements
<1>3. /\ us \in SUBSET Announcements /\ announced' \in Seq(SUBSET Announcements)
      /\ \A u : u \in Awaiting <=> u \in us \/ u \in Awaiting'
  <2>1. announced \in Seq(SUBSET Announcements)
    BY DEF UpdateTypes
  <2>2. CASE announced = <<>>
    <3>1. announced' = announced /\ us = {}
      BY <1>1, <2>2
    <3> QED BY <1>1, <2>1, <3>1, AwaitingIs, AwaitingNextIs
  <2>3. CASE announced # <<>>
    <3>1. announced' = Tail(announced) /\ us = Head(announced)
      BY <1>1, <2>3
    <3> HIDE DEF us
    <3>2. /\ Len(announced) \in Nat /\ Len(announced) > 0 /\ DOMAIN announced = 1 .. Len(announced)
          /\ us = announced[1] /\ us \in SUBSET Announcements
          /\ announced' \in Seq(SUBSET Announcements) /\ DOMAIN announced' = 1 .. Len(announced) - 1
          /\ \A i \in 1 .. Len(announced) - 1 : announced'[i] = announced[i + 1]
      BY <2>1, <2>3, <3>1
    <3>3. ASSUME NEW u, u \in Awaiting PROVE u \in us \/ u \in Awaiting'
      <4>1. CASE u \in poll.found
        BY <1>1, <4>1, AwaitingNextIs
      <4>2. ASSUME NEW i \in DOMAIN announced, u \in announced[i] PROVE u \in us \/ u \in Awaiting'
        <5>1. CASE i = 1
          BY <3>2, <4>2, <5>1
        <5>2. CASE i # 1
          <6>1. i - 1 \in DOMAIN announced' /\ announced'[i - 1] = announced[i]
            BY <3>2, <5>2
          <6> QED BY <4>2, <6>1, AwaitingNextIs
        <5> QED BY <5>1, <5>2
      <4> QED BY <3>3, <4>1, <4>2, AwaitingIs
    <3>4. ASSUME NEW u, u \in us PROVE u \in Awaiting
      <4>1. 1 \in DOMAIN announced /\ u \in announced[1]
        BY <3>2, <3>4
      <4> QED BY <4>1, AwaitingIs
    <3>5. ASSUME NEW u, u \in Awaiting' PROVE u \in Awaiting
      <4>1. CASE u \in poll.found
        BY <4>1, AwaitingIs
      <4>2. ASSUME NEW i \in DOMAIN announced', u \in announced'[i] PROVE u \in Awaiting
        <5>1. i + 1 \in DOMAIN announced /\ announced[i + 1] = announced'[i]
          BY <3>2
        <5> QED BY <4>2, <5>1, AwaitingIs
      <4> QED BY <1>1, <3>5, <4>1, <4>2, AwaitingNextIs
    <3> QED BY <3>2, <3>3, <3>4, <3>5
  <2> QED BY <2>2, <2>3
<1>4. \A u \in us : u.time <= second /\ \A d \in u.deps : Related(d, u.path)
  BY <1>3 DEF NoTimeAhead, OnlyRelated
<1> HIDE DEF us
<1>5. ASSUME NEW d \in Deploys
      PROVE  /\ contracts'[d] \in Agreements /\ contracts'[d].made = contracts[d].made
             /\ contracts'[d].known = contracts[d].known /\ contracts'[d].managed = contracts[d].managed
  <2>1. contracts[d] \in Agreements
    BY DEF UpdateTypes
  <2>2. CASE d \in told
    <3>1. PICK c : c = contracts'[d]
      OBVIOUS
    <3>2. c = [contracts[d] EXCEPT !.marker = Newest(GetUpdatedSecrets(d, us))]
      BY <1>1, <2>2, <3>1
    <3>3. us \in SUBSET Announcements /\ \A u \in us : u.time <= second
      BY <1>3, <1>4
    <3>4. /\ c \in Agreements /\ c.made = contracts[d].made /\ c.known = contracts[d].known
          /\ c.managed = contracts[d].managed
      <4>1. UpdateTypes /\ d \in Deploys
        OBVIOUS
      <4> HIDE DEF UpdateInv, told, note
      <4> QED BY <3>2, <3>3, <4>1, GovernedAgreement, Zenon
    <3> QED BY <3>1, <3>4
  <2>3. CASE d \notin told
    BY <1>1, <2>1, <2>3
  <2> QED BY <2>2, <2>3
<1>6. contracts' \in [Deploys -> Agreements]
  BY <1>1, <1>5
<1>7. updates' \in [Deploys -> Seq(Values)]
  <2>1. ASSUME NEW d \in Deploys PROVE updates'[d] \in Seq(Values)
    <3>1. updates[d] \in Seq(Values) /\ BindingUpdate(d, GetUpdatedSecrets(d, us)) \in Values
      BY BindingIs DEF UpdateTypes
    <3> QED BY <1>2, <3>1
  <2> QED BY <1>2, <2>1
<1>8. secretRows' \in [Deploys -> [SecretPaths -> UpdateRow]]
  <2>1. ASSUME NEW d \in Deploys, NEW p \in SecretPaths PROVE UpdateNodeSecrets[d][p] \in UpdateRow
    BY NodeRows
  <2>2. PICK R : R = UpdateNodeSecrets
    OBVIOUS
  <2>3. R = [d \in Deploys |-> [p \in SecretPaths |-> R[d][p]]]
    BY <2>2 DEF UpdateNodeSecrets
  <2> QED BY <1>1, <2>1, <2>2, <2>3
<1>9. UpdateTypes'
  <2>1. passedBy' \in [Deploys -> [SecretPaths -> Nat]]
    BY <1>2 DEF UpdateTypes
  <2>2. governing'.updates \subseteq Announcements
    BY <1>1, <1>3
  <2> QED BY <1>1, <1>3, <1>6, <1>7, <1>8, <2>1, <2>2 DEF UpdateTypes
<1>10. NoTimeAhead' /\ OnlyRelated'
  <2>1. \A u \in Awaiting' : u.time <= second /\ \A d \in u.deps : Related(d, u.path)
    BY <1>3 DEF NoTimeAhead, OnlyRelated
  <2>2. \A d \in Deploys : \A p \in SecretPaths : secretRows'[d][p] # NoRow => Related(d, p)
    BY <1>1, NodeRows
  <2> QED BY <1>1, <2>1, <2>2 DEF NoTimeAhead, OnlyRelated, Related
<1>11. ASSUME NEW d \in Deploys, NEW b \in SecretPaths, b \in Bound[d]
       PROVE  secretRows'[d][b] = secretRows[d][b]
  BY <1>1, <1>11, NodeRows
<1>12. OfAgreement'
  <2>1. ASSUME NEW d \in Deploys, contracts[d].made, contracts[d].managed, NEW b \in Bound[d] PROVE secretRows'[d][b] # NoRow
    <3>1. b \in SecretPaths /\ secretRows[d][b] # NoRow
      BY <2>1, SecretsAssumption DEF OfAgreement
    <3> QED BY <1>11, <3>1
  <2>2. ASSUME NEW d \in Deploys, ~contracts[d].made PROVE updates'[d] = <<>>
    BY <1>2, <2>2 DEF OfAgreement
  <2> QED BY <1>1, <1>5, <2>1, <2>2 DEF OfAgreement
<1>13. UpdatesInOrder'
  <2> SUFFICES ASSUME NEW d \in Deploys, NEW b \in SecretPaths, contracts'[d].made, Plain(d, b) PROVE InOrder(d, b)'
    BY DEF UpdatesInOrder, Plain
  <2>1. contracts[d].made /\ InOrder(d, b) /\ contracts'[d].known = contracts[d].known
    BY <1>5 DEF UpdatesInOrder
  <2>2. contracts[d].known[b] \in Nat /\ writes \in Nat /\ vault[b] \in Nat /\ vault[b] <= writes
    BY <2>1 DEF OfAgreement, UpdateTypes, Plain, NoTimeAhead
  <2>3. CASE updates'[d] = updates[d]
    BY <1>1, <2>1, <2>3 DEF InOrder
  <2>4. CASE updates'[d] = Append(updates[d], BindingUpdate(d, GetUpdatedSecrets(d, us)))
    <3>1. \A u \in GetUpdatedSecrets(d, us) : u.path \in Bound[d]
      BY <1>4 DEF GetUpdatedSecrets, Related, Plain
    <3>2. PICK m : m = BindingUpdate(d, GetUpdatedSecrets(d, us))
      OBVIOUS
    <3>3. m \in Values /\ (b \in DOMAIN m => m[b] = vault[b] /\ vault[b] # 0)
      BY <3>1, <3>2, BindingIs, BindingCarries
    <3>4. updates[d] \in Seq(Values) /\ updates'[d] = Append(updates[d], m)
      BY <2>4, <3>2 DEF UpdateTypes
    <3>5. /\ Len(updates[d]) \in Nat /\ DOMAIN updates[d] = 1 .. Len(updates[d])
          /\ DOMAIN updates'[d] = 1 .. Len(updates[d]) + 1
          /\ (\A i \in 1 .. Len(updates[d]) : updates'[d][i] = updates[d][i])
          /\ updates'[d][Len(updates[d]) + 1] = m
      BY <3>3, <3>4
    <3>6. \A i \in DOMAIN updates'[d] : (i \in DOMAIN updates[d] /\ updates'[d][i] = updates[d][i]) \/ (i = Len(updates[d]) + 1 /\ updates'[d][i] = m)
      BY <3>5
    <3>7. ASSUME NEW i \in DOMAIN updates'[d], b \in DOMAIN updates'[d][i]
          PROVE  /\ contracts[d].known[b] <= updates'[d][i][b] /\ updates'[d][i][b] <= writes
                 /\ vault[b] # 0 => updates'[d][i][b] <= vault[b]
      <4>1. CASE i \in DOMAIN updates[d] /\ updates'[d][i] = updates[d][i]
        BY <2>1, <3>7, <4>1 DEF InOrder
      <4>2. CASE updates'[d][i] = m
        BY <2>1, <2>2, <3>3, <3>7, <4>2 DEF InOrder
      <4> QED BY <3>6, <4>1, <4>2
    <3>8. ASSUME NEW i \in DOMAIN updates'[d], b \in DOMAIN updates'[d][i],
                 NEW j \in DOMAIN updates'[d], i < j, b \in DOMAIN updates'[d][j]
          PROVE  updates'[d][i][b] <= updates'[d][j][b]
      <4>1. CASE j \in DOMAIN updates[d] /\ updates'[d][j] = updates[d][j]
        <5>1. i \in DOMAIN updates[d] /\ updates'[d][i] = updates[d][i]
          BY <3>5, <3>8, <4>1
        <5> QED BY <2>1, <3>8, <4>1, <5>1 DEF InOrder
      <4>2. CASE updates'[d][j] = m
        <5>1. updates'[d][j][b] = vault[b] /\ vault[b] # 0
          BY <3>3, <3>8, <4>2
        <5> QED BY <3>7, <3>8, <5>1
      <4> QED BY <3>6, <4>1, <4>2
    <3> QED BY <1>1, <2>1, <3>7, <3>8 DEF InOrder
  <2> QED BY <1>2, <2>3, <2>4
<1>14. DraftsInOrder'
  BY <1>1 DEF DraftsInOrder, Plain
<1>15. Followed'
  <2> SUFFICES ASSUME NEW d \in Deploys, NEW b \in SecretPaths, InUse(d, b)' PROVE TakenCareOf(d, b)' \/ Unseen(d, b)'
    BY DEF Followed
  <2>1. /\ contracts[d].made /\ b \in Bound[d] /\ vault[b] \in Nat /\ writes \in Nat /\ vault[b] <= writes
        /\ Plain(d, b) /\ vault[b] > passedBy'[d][b] /\ contracts'[d].known = contracts[d].known
        /\ passedBy[d][b] \in Nat
    BY <1>1, <1>5 DEF InUse, Plain, UpdateTypes, NoTimeAhead
  <2>2. /\ passedBy'[d][b] = passedBy[d][b]
        /\ (\E u \in us : u.path = b /\ d \in u.deps /\ u.time >= wroteAt[b]) =>
             d \in told \ lost /\ b \in DOMAIN BindingUpdate(d, GetUpdatedSecrets(d, us))
    <3>1. passedBy'[d][b] =
            IF /\ contracts[d].made
               /\ \E u \in us : u.path = b /\ d \in u.deps /\ u.time >= wroteAt[b]
               /\ d \in told \ lost => b \notin DOMAIN BindingUpdate(d, GetUpdatedSecrets(d, us))
            THEN writes ELSE passedBy[d][b]
      BY <1>2
    <3>2. ~(vault[b] > writes)
      BY <2>1
    <3> QED BY <2>1, <3>1, <3>2
  <2>3. InUse(d, b)
    BY <1>1, <1>5, <2>2 DEF InUse
  <2>4. \A i \in DOMAIN updates[d] : i \in DOMAIN updates'[d] /\ updates'[d][i] = updates[d][i]
    <3>1. updates[d] \in Seq(Values) /\ BindingUpdate(d, GetUpdatedSecrets(d, us)) \in Values
      BY BindingIs DEF UpdateTypes
    <3> QED BY <1>2, <3>1
  <2>5. CASE contracts[d].known[b] = vault[b]
    BY <1>1, <2>1, <2>5 DEF TakenCareOf
  <2>6. CASE \E i \in DOMAIN updates[d] : b \in DOMAIN updates[d][i] /\ updates[d][i][b] = vault[b]
    BY <1>1, <2>4, <2>6 DEF TakenCareOf
  <2>7. ASSUME NEW u \in Awaiting, u.path = b, d \in u.deps, u.time >= wroteAt[b] PROVE TakenCareOf(d, b)'
    <3>1. CASE u \in us
      <4>1. PICK m : m = BindingUpdate(d, GetUpdatedSecrets(d, us))
        OBVIOUS
      <4>2. d \in told \ lost /\ b \in DOMAIN m
        BY <2>2, <2>7, <3>1, <4>1
      <4>3. \A w \in GetUpdatedSecrets(d, us) : w.path \in Bound[d]
        BY <1>4, <2>1 DEF GetUpdatedSecrets, Related, Plain
      <4>4. m \in Values /\ m[b] = vault[b]
        BY <2>1, <4>1, <4>2, <4>3, BindingIs, BindingCarries
      <4>5. updates[d] \in Seq(Values) /\ updates'[d] = Append(updates[d], m)
        BY <1>2, <4>1, <4>2 DEF UpdateTypes
      <4>6. Len(updates[d]) + 1 \in DOMAIN updates'[d] /\ updates'[d][Len(updates[d]) + 1] = m
        BY <4>4, <4>5
      <4> QED BY <1>1, <4>2, <4>4, <4>6 DEF TakenCareOf
    <3>2. CASE u \in Awaiting'
      BY <1>1, <2>7, <3>2 DEF TakenCareOf, Announced
    <3> QED BY <1>3, <3>1, <3>2
  <2>8. CASE Unseen(d, b)
    <3>1. \A u \in Awaiting' \cup governing'.updates : u \in Awaiting
      BY <1>1, <1>3
    <3>2. secretRows'[d][b] = secretRows[d][b]
      BY <1>11, <2>1
    <3> QED BY <1>1, <2>8, <3>1, <3>2 DEF Unseen
  <2>9. TakenCareOf(d, b) \/ Unseen(d, b)
    BY <2>3 DEF Followed
  <2> QED BY <2>5, <2>6, <2>7, <2>8, <2>9 DEF TakenCareOf, Announced
<1> QED BY <1>9, <1>10, <1>12, <1>13, <1>14, <1>15

\* A row moves only to a time announced.
LEMMA RowsMovedKeeps ==
  ASSUME UpdateInv, RowsMoved
  PROVE  UpdateInv'
<1> USE DEF UpdateInv
<1>1. /\ vault' = vault /\ wroteAt' = wroteAt /\ writes' = writes /\ second' = second /\ passedBy' = passedBy
      /\ inForce' = inForce /\ poll' = poll /\ announced' = announced /\ drafts' = drafts
      /\ contracts' = contracts /\ updates' = updates /\ governing' = NoRun
      /\ secretRows' = SetSecretUpdate(secretRows, governing)
  BY DEF RowsMoved, VaultRests
<1>2. Awaiting' = Awaiting /\ governing'.updates = {}
  BY <1>1 DEF Awaiting, NoRun
<1>3. ASSUME NEW d \in Deploys, NEW p \in SecretPaths
      PROVE  /\ secretRows'[d][p] \in UpdateRow /\ (secretRows'[d][p] = NoRow <=> secretRows[d][p] = NoRow)
             /\ secretRows'[d][p] = secretRows[d][p] \/ \E u \in governing.updates : u.path = p /\ secretRows'[d][p].last = u.time
  BY <1>1, GovernedRows
<1>4. secretRows' \in [Deploys -> [SecretPaths -> UpdateRow]]
  <2>1. PICK R : R = SetSecretUpdate(secretRows, governing)
    OBVIOUS
  <2>2. R = [d \in Deploys |-> [p \in SecretPaths |-> R[d][p]]]
    BY <2>1 DEF SetSecretUpdate
  <2> QED BY <1>1, <1>3, <2>1, <2>2
<1>5. UpdateTypes'
  BY <1>1, <1>2, <1>4 DEF UpdateTypes
<1>6. NoTimeAhead' /\ UpdatesInOrder' /\ DraftsInOrder'
  BY <1>1, <1>2 DEF NoTimeAhead, UpdatesInOrder, DraftsInOrder, InOrder, Plain
<1>7. OnlyRelated' /\ OfAgreement'
  <2>1. \A d \in Deploys : Bound[d] \subseteq SecretPaths
    BY SecretsAssumption
  <2> QED BY <1>1, <1>2, <1>3, <2>1 DEF OnlyRelated, OfAgreement, Related
<1>8. Followed'
  <2> SUFFICES ASSUME NEW d \in Deploys, NEW b \in SecretPaths, InUse(d, b)' PROVE TakenCareOf(d, b)' \/ Unseen(d, b)'
    BY DEF Followed
  <2>1. InUse(d, b)
    BY <1>1 DEF InUse
  <2>2. CASE TakenCareOf(d, b)
    BY <1>1, <1>2, <2>2 DEF TakenCareOf, Announced
  <2>3. CASE Unseen(d, b)
    <3>1. secretRows'[d][b].last < wroteAt[b]
      BY <1>3, <2>3 DEF Unseen
    <3> QED BY <1>1, <1>2, <2>3, <3>1 DEF Unseen
  <2> QED BY <2>1, <2>2, <2>3 DEF Followed
<1> QED BY <1>5, <1>6, <1>7, <1>8

\* The node takes the oldest value over; the later ones follow it.
LEMMA NodeTakesUpdateKeeps ==
  ASSUME UpdateInv, NEW d \in Deploys, NodeTakesUpdate(d)
  PROVE  UpdateInv'
<1> USE DEF UpdateInv
<1>1. /\ vault' = vault /\ wroteAt' = wroteAt /\ writes' = writes /\ second' = second /\ passedBy' = passedBy /\ inForce' = inForce /\ poll' = poll
      /\ announced' = announced /\ secretRows' = secretRows /\ governing' = governing /\ drafts' = drafts
  BY DEF NodeTakesUpdate, VaultRests
<1>2. PICK new : new = Head(updates[d])
  OBVIOUS
<1>3. updates[d] # <<>> /\ updates' = [updates EXCEPT ![d] = Tail(updates[d])]
  BY DEF NodeTakesUpdate
<1>4. updates \in [Deploys -> Seq(Values)] /\ contracts \in [Deploys -> Agreements]
  BY DEF UpdateTypes
<1>5. /\ new \in Values /\ new = updates[d][1] /\ 1 \in DOMAIN updates[d] /\ updates'[d] = Tail(updates[d])
      /\ Len(updates[d]) \in Nat /\ DOMAIN updates[d] = 1 .. Len(updates[d])
      /\ DOMAIN updates'[d] = 1 .. Len(updates[d]) - 1
      /\ \A i \in 1 .. Len(updates[d]) - 1 : updates'[d][i] = updates[d][i + 1]
  <2>1. PICK q : q = updates[d]
    OBVIOUS
  <2>2. q \in Seq(Values) /\ q # <<>> /\ new = Head(q) /\ updates'[d] = Tail(q)
    BY <1>2, <1>3, <1>4, <2>1
  <2>3. /\ new \in Values /\ new = q[1] /\ 1 \in DOMAIN q /\ Len(q) \in Nat /\ DOMAIN q = 1 .. Len(q)
        /\ DOMAIN Tail(q) = 1 .. Len(q) - 1 /\ \A i \in 1 .. Len(q) - 1 : Tail(q)[i] = q[i + 1]
    BY <2>2
  <2> QED BY <2>1, <2>2, <2>3
<1>6. updates' \in [Deploys -> Seq(Values)] /\ \A e \in Deploys \ {d} : updates'[e] = updates[e]
  <2>1. Tail(updates[d]) \in Seq(Values)
    BY <1>3, <1>4
  <2> QED BY <1>3, <1>4, <2>1
<1>7. contracts[d].made /\ \A b \in Bound[d] : contracts[d].known[b] \in Nat
  BY <1>3 DEF OfAgreement
<1>8. PICK k : k = [b \in Bound[d] |-> IF b \in DOMAIN new THEN new[b] ELSE contracts[d].known[b]]
  OBVIOUS
<1>9. k \in [Bound[d] -> Nat] /\ k \in Values
  <2>1. PICK S \in SUBSET SecretPaths : new \in [S -> Nat]
    BY <1>5 DEF Values
  <2>2. k \in [Bound[d] -> Nat]
    BY <1>7, <1>8, <2>1
  <2>3. Bound[d] \in SUBSET SecretPaths
    BY SecretsAssumption
  <2> QED BY <2>2, <2>3 DEF Values
<1>10. contracts' = [contracts EXCEPT ![d].known = k, ![d].ack = contracts[d].marker]
  BY <1>2, <1>4, <1>8 DEF NodeTakesUpdate
<1>11. contracts[d].marker \in Nat
  BY <1>4 DEF Agreements
<1>12. /\ contracts' \in [Deploys -> Agreements] /\ (\A e \in Deploys \ {d} : contracts'[e] = contracts[e])
       /\ contracts'[d].known = k /\ contracts'[d].made = contracts[d].made
       /\ contracts'[d].marker = contracts[d].marker /\ contracts'[d].managed = contracts[d].managed
  <2>1. PICK c : c = contracts[d]
    OBVIOUS
  <2>2. PICK n : n = [[c EXCEPT !.known = k] EXCEPT !.ack = contracts[d].marker]
    OBVIOUS
  <2>3. c \in Agreements
    BY <1>4, <2>1
  <2>4. n \in Agreements /\ n.known = k /\ n.made = c.made /\ n.marker = c.marker /\ n.managed = c.managed
    BY <1>9, <1>11, <2>2, <2>3 DEF Agreements
  <2>5. contracts' = [contracts EXCEPT ![d] = n]
    BY <1>4, <1>10, <2>1, <2>2
  <2> QED BY <1>4, <2>1, <2>4, <2>5
<1>13. UpdateTypes'
  BY <1>1, <1>6, <1>12 DEF UpdateTypes
<1>14. Awaiting' = Awaiting
  BY <1>1 DEF Awaiting
<1>15. NoTimeAhead' /\ OnlyRelated'
  BY <1>1, <1>14 DEF NoTimeAhead, OnlyRelated, Related
<1>16. OfAgreement'
  <2>1. ASSUME NEW e \in Deploys
        PROVE  /\ contracts'[e].made => e \in inForce /\ \A b \in Bound[e] : contracts'[e].known[b] \in Nat
               /\ contracts'[e].made /\ contracts'[e].managed => \A b \in Bound[e] : secretRows[e][b] # NoRow
               /\ ~contracts'[e].made => updates'[e] = <<>>
    <3>1. CASE e = d
      BY <1>7, <1>9, <1>12, <3>1 DEF OfAgreement
    <3>2. CASE e # d
      BY <1>6, <1>12, <3>2 DEF OfAgreement
    <3> QED BY <3>1, <3>2
  <2>2. ~poll.busy => poll.found = {}
    BY DEF OfAgreement
  <2> QED BY <1>1, <2>1, <2>2 DEF OfAgreement
<1>17. UpdatesInOrder'
  <2> SUFFICES ASSUME NEW e \in Deploys, NEW b \in SecretPaths, contracts'[e].made, Plain(e, b) PROVE InOrder(e, b)'
    BY DEF UpdatesInOrder, Plain
  <2>1. CASE e # d
    <3>1. InOrder(e, b) /\ contracts'[e] = contracts[e] /\ updates'[e] = updates[e]
      BY <1>6, <1>12, <2>1 DEF UpdatesInOrder
    <3> QED BY <1>1, <3>1 DEF InOrder
  <2>2. CASE e = d
    <3>1. InOrder(d, b) /\ b \in Bound[d]
      BY <1>7, <2>2 DEF UpdatesInOrder, Plain
    <3>2. contracts[d].known[b] \in Nat /\ writes \in Nat /\ vault[b] \in Nat
      BY <1>7, <3>1 DEF UpdateTypes
    <3>3. k[b] = IF b \in DOMAIN new THEN updates[d][1][b] ELSE contracts[d].known[b]
      BY <1>5, <1>8, <3>1
    <3>4. k[b] <= writes /\ (vault[b] # 0 => k[b] <= vault[b])
      BY <1>5, <3>1, <3>3 DEF InOrder
    <3>5. ASSUME NEW i \in DOMAIN updates'[d] PROVE i + 1 \in DOMAIN updates[d] /\ updates'[d][i] = updates[d][i + 1] /\ 1 < i + 1
      BY <1>5
    <3>6. ASSUME NEW i \in DOMAIN updates'[d], b \in DOMAIN updates'[d][i]
          PROVE  /\ k[b] <= updates'[d][i][b] /\ updates'[d][i][b] <= writes
                 /\ vault[b] # 0 => updates'[d][i][b] <= vault[b]
      <4>1. PICK j \in DOMAIN updates[d] : updates'[d][i] = updates[d][j] /\ 1 < j
        BY <3>5
      <4> QED BY <1>5, <3>1, <3>3, <3>6, <4>1 DEF InOrder
    <3>7. ASSUME NEW i \in DOMAIN updates'[d], b \in DOMAIN updates'[d][i],
                 NEW j \in DOMAIN updates'[d], i < j, b \in DOMAIN updates'[d][j]
          PROVE  updates'[d][i][b] <= updates'[d][j][b]
      <4>1. i \in Nat /\ j \in Nat /\ i + 1 < j + 1
        BY <1>5, <3>7
      <4> QED BY <3>1, <3>5, <3>7, <4>1 DEF InOrder
    <3> QED BY <1>1, <1>12, <2>2, <3>4, <3>6, <3>7 DEF InOrder
  <2> QED BY <2>1, <2>2
<1>18. Followed'
  <2> SUFFICES ASSUME NEW e \in Deploys, NEW b \in SecretPaths, InUse(e, b)' PROVE TakenCareOf(e, b)' \/ Unseen(e, b)'
    BY DEF Followed
  <2>1. InUse(e, b) /\ Plain(e, b)
    <3>1. contracts'[e].made = contracts[e].made /\ contracts'[e].managed = contracts[e].managed
      BY <1>12
    <3> QED BY <1>1, <3>1 DEF InUse, Plain
  <2>2. TakenCareOf(e, b) \/ Unseen(e, b)
    BY <2>1 DEF Followed
  <2>3. CASE e # d
    <3>1. contracts'[e] = contracts[e] /\ updates'[e] = updates[e]
      BY <1>6, <1>12, <2>3
    <3> QED BY <1>1, <1>14, <2>2, <3>1 DEF TakenCareOf, Unseen, Announced
  <2>4. CASE e = d
    <3>1. InOrder(d, b) /\ b \in Bound[d] /\ vault[b] # 0
      BY <2>1, <2>4 DEF UpdatesInOrder, InUse
    <3>2. k[b] = IF b \in DOMAIN new THEN updates[d][1][b] ELSE contracts[d].known[b]
      BY <1>5, <1>8, <3>1
    <3>3. CASE contracts[d].known[b] = vault[b]
      <4>1. k[b] = vault[b]
        <5>1. k[b] \in Nat /\ vault[b] \in Nat
          BY <1>9, <3>1 DEF UpdateTypes
        <5>2. k[b] >= vault[b] /\ k[b] <= vault[b]
          BY <1>5, <3>1, <3>2, <3>3, <5>1 DEF InOrder
        <5> QED BY <5>1, <5>2
      <4> QED BY <1>1, <1>12, <2>4, <4>1 DEF TakenCareOf
    <3>4. ASSUME NEW i \in DOMAIN updates[d], b \in DOMAIN updates[d][i], updates[d][i][b] = vault[b]
          PROVE  TakenCareOf(d, b)'
      <4>1. CASE i = 1
        BY <1>1, <1>5, <1>12, <3>2, <3>4, <4>1 DEF TakenCareOf
      <4>2. CASE i # 1
        <5>1. i - 1 \in DOMAIN updates'[d] /\ updates'[d][i - 1] = updates[d][i]
          BY <1>5, <4>2
        <5> QED BY <1>1, <3>4, <5>1 DEF TakenCareOf
      <4> QED BY <4>1, <4>2
    <3>5. CASE Announced(d, b)
      BY <1>1, <1>14, <2>4, <3>5 DEF TakenCareOf, Announced
    <3>6. CASE Unseen(d, b)
      BY <1>1, <1>14, <2>4, <3>6 DEF Unseen
    <3> QED BY <2>2, <2>4, <3>3, <3>4, <3>5, <3>6 DEF TakenCareOf
  <2> QED BY <2>3, <2>4
<1>19. DraftsInOrder'
  BY <1>1 DEF DraftsInOrder, Plain
<1> QED BY <1>13, <1>15, <1>16, <1>17, <1>18, <1>19

-----------------------------------------------------------------------------
(* The invariant. *)

\* Nothing is under way when the agbot starts.
LEMMA UpdateInvInit == SecretsInit => UpdateInv
<1> SUFFICES ASSUME SecretsInit PROVE UpdateInv
  OBVIOUS
<1>1. UpdateTypes
  BY UpdateTypesInit
<1>2. \A d \in Deploys : ~contracts[d].made /\ updates[d] = <<>> /\ drafts[d] = <<>>
  BY DEF SecretsInit, NoContract
<1>3. Awaiting = {}
  BY DEF SecretsInit, Awaiting, NoPoll
<1>4. NoTimeAhead
  BY <1>3 DEF NoTimeAhead, SecretsInit, VaultInit
<1>5. OnlyRelated
  BY <1>3 DEF OnlyRelated, SecretsInit
<1>6. OfAgreement
  BY <1>2 DEF OfAgreement, SecretsInit, NoPoll
<1>7. UpdatesInOrder /\ DraftsInOrder /\ Followed
  BY <1>2, EmptyHasNone DEF UpdatesInOrder, DraftsInOrder, Followed, InUse
<1> QED BY <1>1, <1>4, <1>5, <1>6, <1>7 DEF UpdateInv

\* Every step of the agbot, the node and the users of the vault keeps the invariant.
LEMMA UpdateInvStep == UpdateInv /\ [SecretsNext]_secretVars => UpdateInv'
<1> SUFFICES ASSUME UpdateInv, [SecretsNext]_secretVars PROVE UpdateInv'
  OBVIOUS
<1>1. CASE VaultStep
  BY <1>1, VaultStepKeeps
<1>2. ASSUME NEW d \in Deploys, DeploymentAdded(d) \/ DeploymentRemoved(d) PROVE UpdateInv'
  BY <1>2, DeploymentStepsKeep
<1>3. ASSUME NEW d \in Deploys, DraftFails(d) \/ \E b \in Bound[d] : ExtractSecret(d, b) PROVE UpdateInv'
  BY <1>3, DraftKeeps
<1>11. ASSUME NEW d \in Deploys, PersistDraft(d) PROVE UpdateInv'
  BY <1>11, PersistDraftKeeps
<1>4. ASSUME NEW d \in Deploys, NodeTakesUpdate(d) PROVE UpdateInv'
  BY <1>4, NodeTakesUpdateKeeps
<1>5. ASSUME NEW group \in {SecretPolicies, SecretPatterns}, DeploymentsChanged(group) PROVE UpdateInv'
  BY <1>5, DeploymentsChangedKeeps
<1>6. CASE PollStart
  BY <1>6, PollStartKeeps
<1>7. ASSUME NEW p \in SecretPaths, PollSecret(p) PROVE UpdateInv'
  BY <1>7, PollSecretKeeps
<1>8. CASE PollEnd
  BY <1>8, PollEndKeeps
<1>9. CASE GovernAgreements
  BY <1>9, GovernAgreementsKeep
<1>12. CASE RowsMoved
  BY <1>12, RowsMovedKeeps
<1>10. CASE UNCHANGED secretVars
  <2>1. /\ vault' = vault /\ wroteAt' = wroteAt /\ writes' = writes /\ second' = second /\ UNCHANGED trackVars
    BY <1>10 DEF secretVars, vaultVars, trackVars
  <2>2. /\ inForce' = inForce /\ secretRows' = secretRows /\ poll' = poll /\ announced' = announced
        /\ governing' = governing /\ drafts' = drafts
        /\ contracts' = contracts /\ updates' = updates /\ passedBy' = passedBy /\ Awaiting' = Awaiting
    BY <2>1 DEF trackVars, Awaiting
  <2> QED BY <2>1, <2>2 DEF UpdateInv, UpdateTypes, NoTimeAhead, OnlyRelated, OfAgreement, UpdatesInOrder,
             DraftsInOrder, InOrder, Followed, InUse, TakenCareOf, Unseen, Announced, Plain, Related
<1> QED BY <1>1, <1>2, <1>3, <1>4, <1>5, <1>6, <1>7, <1>8, <1>9, <1>10, <1>11, <1>12 DEF SecretsNext

\* A secret written while its deployment is managed is not forgotten, for any deployments
\* and secrets: the agreement has the value, or it is on its way, or a poll or an
\* announcement still has to deal with it, unless the value was passed by in one of the
\* ways that NoUpdateForgotten names.
THEOREM SecretUpdateNotForgotten == SecretsSpec => []NoUpdateForgotten
<1>1. SecretsInit => UpdateInv
  BY UpdateInvInit
<1>2. UpdateInv /\ [SecretsNext]_secretVars => UpdateInv'
  BY UpdateInvStep
<1>3. UpdateInv => NoUpdateForgotten
  BY DEF UpdateInv, Followed, NoUpdateForgotten, Unseen
<1> QED BY <1>1, <1>2, <1>3, PTL DEF SecretsSpec
=============================================================================
