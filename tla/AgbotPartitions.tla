-------------------------- MODULE AgbotPartitions --------------------------
(***************************************************************************)
(* The database that clustered agbots share.  Every agbot writes its       *)
(* records into the tables of the partition it owns and renews a           *)
(* heartbeat; the partitions of agbots that quiesced or stopped are        *)
(* claimed by the others, who move the records into their own tables and   *)
(* drop the old ones.                                                      *)
(***************************************************************************)
EXTENDS Integers, FiniteSets

CONSTANTS Agbots,         \* identities; each is used by one process, once
          Records,        \* rows the agbots may write
          SameOrg,        \* the rows among them that are secrets of their deployment's organization
          MaxPartitions,  \* bound on the partition ids handed out
          MaxAges         \* bound on the heartbeats that grow old

VARIABLES owner,      \* partition -> its owner, NoOwner, or NoPartition when there is no such row
          beaten,     \* is the heartbeat of the partition younger than the timeout
          tables,     \* partition -> how many of its tables exist, in the order of creation
          rows,       \* partition -> the records in its tables
          serial,     \* the last partition id handed out
          agbot,      \* agbot -> phase and primary partition
          take,       \* agbot -> the take-over under way
          written,    \* records written and not deleted
          everWritten,
          ages,       \* heartbeats that grew old
          late,       \* an agbot wrote to, or dropped, a partition that was no longer its own
          selfTaken,  \* an agbot claimed its own partition to move it
          unverified  \* partitions given up, with their tables, because the database failed when asked for them

partitionVars ==
  <<owner, beaten, tables, rows, serial, agbot, take, written, everWritten, ages, late, selfTaken, unverified>>

PartitionIds == 1 .. MaxPartitions
NoOwner == "nobody"
NoPartition == "absent"
AllTables == 3                \* workload usages, agreements, secrets
HasAgreements(p) == tables[p] >= 2
NoTake == [step |-> "idle"]

ASSUME PartitionAssumption ==
  MaxPartitions \in Nat /\ MaxAges \in Nat /\ NoOwner \notin Agbots /\ NoPartition \notin Agbots

PartitionInit ==
  /\ owner = [p \in PartitionIds |-> NoPartition] /\ beaten = [p \in PartitionIds |-> FALSE]
  /\ tables = [p \in PartitionIds |-> 0] /\ rows = [p \in PartitionIds |-> {}]
  /\ serial = 0 /\ agbot = [a \in Agbots |-> [phase |-> "off", part |-> 0]]
  /\ take = [a \in Agbots |-> NoTake] /\ written = {} /\ everWritten = {} /\ ages = 0
  /\ late = FALSE /\ selfTaken = FALSE /\ unverified = {}

PartitionTypeOK ==
  /\ owner \in [PartitionIds -> Agbots \cup {NoOwner, NoPartition}]
  /\ beaten \in [PartitionIds -> BOOLEAN] /\ tables \in [PartitionIds -> 0 .. AllTables]
  /\ rows \in [PartitionIds -> SUBSET Records] /\ serial \in 0 .. MaxPartitions
  /\ \A a \in Agbots : /\ agbot[a].phase \in {"off", "starting", "up", "quiesced", "gone"}
                       /\ agbot[a].part \in 0 .. MaxPartitions
                       /\ take[a].step \in {"idle", "alive", "claimed", "copied"}
  /\ written \subseteq everWritten /\ everWritten \subseteq Records /\ unverified \subseteq PartitionIds

-----------------------------------------------------------------------------
(* Claiming. *)

\* claim_ownerless: quiesced, or not renewed for longer than the timeout.
Claimable(p) == owner[p] = NoOwner \/ (owner[p] \in Agbots /\ ~beaten[p])

Own(a, p) == owner' = [owner EXCEPT ![p] = a] /\ beaten' = [beaten EXCEPT ![p] = TRUE]

Searching(a) == agbot[a].phase = "off" \/ take[a].step = "alive"

\* findUnownedPartition: the row of a claimed partition is deleted when it has no agreements
\* table, and also when VerifyPartitions cannot tell; when the deletion fails too, the
\* partition stays claimed.  The search goes on.
DiscardPartition(a, p) ==
  /\ Searching(a) /\ Claimable(p)
  /\ \/ /\ owner' = [owner EXCEPT ![p] = NoPartition] /\ beaten' = [beaten EXCEPT ![p] = FALSE]
        /\ unverified' = IF HasAgreements(p) THEN unverified \cup {p} ELSE unverified
     \/ Own(a, p) /\ UNCHANGED unverified
  /\ UNCHANGED <<tables, rows, serial, agbot, take, written, everWritten, ages, late, selfTaken>>

\* ClaimPartition of a starting agbot: any partition that can be claimed, else a new one.
StartAgbot(a) ==
  /\ agbot[a].phase = "off"
  /\ \E p \in PartitionIds :
       /\ \/ Claimable(p) /\ HasAgreements(p) /\ UNCHANGED serial
          \/ ~ (\E q \in PartitionIds : Claimable(q)) /\ p = serial + 1 /\ serial' = p
       /\ Own(a, p) /\ agbot' = [agbot EXCEPT ![a] = [phase |-> "starting", part |-> p]]
  /\ UNCHANGED <<tables, rows, take, written, everWritten, ages, late, selfTaken, unverified>>

\* Initialize: the tables that do not exist are created one after the other.
CreateTables(a) ==
  /\ agbot[a].phase = "starting"
  /\ LET p == agbot[a].part IN
       \/ /\ tables[p] < AllTables /\ tables' = [tables EXCEPT ![p] = @ + 1] /\ UNCHANGED agbot
       \/ /\ tables[p] = AllTables /\ agbot' = [agbot EXCEPT ![a].phase = "up"] /\ UNCHANGED tables
  /\ UNCHANGED <<owner, beaten, rows, serial, take, written, everWritten, ages, late, selfTaken, unverified>>

-----------------------------------------------------------------------------
(* Heartbeats and records. *)

\* databaseHeartBeat, HeartbeatPartition: an agbot whose partition is not its own any
\* more panics.
HeartbeatPartition(a) ==
  /\ agbot[a].phase = "up"
  /\ \/ /\ owner[agbot[a].part] = a /\ beaten' = [beaten EXCEPT ![agbot[a].part] = TRUE]
        /\ UNCHANGED <<agbot, take>>
     \/ /\ owner[agbot[a].part] # a /\ UNCHANGED beaten
        /\ agbot' = [agbot EXCEPT ![a].phase = "gone"] /\ take' = [take EXCEPT ![a] = NoTake]
  /\ UNCHANGED <<owner, tables, rows, serial, written, everWritten, ages, late, selfTaken, unverified>>

\* Time passes without a heartbeat.
HeartbeatAges(p) ==
  /\ beaten[p] /\ beaten' = [beaten EXCEPT ![p] = FALSE] /\ ages < MaxAges /\ ages' = ages + 1
  /\ UNCHANGED <<owner, tables, rows, serial, agbot, take, written, everWritten, late, selfTaken, unverified>>

\* insertAgreement, insertWorkloadUsage, AddManagedPolicySecret.
InsertRecord(a, r) ==
  /\ agbot[a].phase = "up" /\ tables[agbot[a].part] = AllTables /\ r \notin everWritten
  /\ rows' = [rows EXCEPT ![agbot[a].part] = @ \cup {r}]
  /\ written' = written \cup {r} /\ everWritten' = everWritten \cup {r}
  /\ late' = (late \/ owner[agbot[a].part] # a)
  /\ UNCHANGED <<owner, beaten, tables, serial, agbot, take, ages, selfTaken, unverified>>

\* deleteAgreement, deleteWU; waits for a transaction that is moving the row.
DeleteRecord(a, r) ==
  /\ agbot[a].phase = "up" /\ r \in rows[agbot[a].part]
  /\ \A b \in Agbots : take[b].step = "copied" /\ take[b].from = agbot[a].part => r \notin take[b].rows
  /\ rows' = [rows EXCEPT ![agbot[a].part] = @ \ {r}] /\ written' = written \ {r}
  /\ late' = (late \/ owner[agbot[a].part] # a)
  /\ UNCHANGED <<owner, beaten, tables, serial, agbot, take, everWritten, ages, selfTaken, unverified>>

-----------------------------------------------------------------------------
(* stalePartitions, MovePartition. *)

\* GetHeartbeat: the row of the own partition has a recent heartbeat, whoever wrote it.
CheckOwnHeartbeat(a) ==
  /\ agbot[a].phase = "up" /\ take[a] = NoTake /\ beaten[agbot[a].part]
  /\ take' = [take EXCEPT ![a] = [step |-> "alive"]]
  /\ UNCHANGED <<owner, beaten, tables, rows, serial, agbot, written, everWritten, ages, late, selfTaken, unverified>>

\* findUnownedPartition does not exclude the agbot's own partition.
ClaimForMove(a) ==
  /\ take[a].step = "alive"
  /\ \/ \E p \in PartitionIds :
          /\ Claimable(p) /\ HasAgreements(p) /\ Own(a, p)
          /\ take' = [take EXCEPT ![a] = [step |-> "claimed", from |-> p]]
          /\ selfTaken' = (selfTaken \/ p = agbot[a].part)
     \/ /\ ~ (\E p \in PartitionIds : Claimable(p))
        /\ take' = [take EXCEPT ![a] = NoTake] /\ UNCHANGED <<owner, beaten, selfTaken>>
  /\ UNCHANGED <<tables, rows, serial, agbot, written, everWritten, ages, late, unverified>>

\* The transaction deletes the rows it sees and inserts them into the own tables.  It
\* waits for another one that moves the same rows, and fails when a table is missing.
CopyRows(a) ==
  /\ take[a].step = "claimed"
  /\ \A b \in Agbots \ {a} : take[b].step = "copied" => take[b].from # take[a].from
  /\ take' = [take EXCEPT ![a] =
       IF tables[@.from] = AllTables /\ tables[agbot[a].part] = AllTables
       THEN [step |-> "copied", from |-> @.from, rows |-> rows[@.from]] ELSE NoTake]
  /\ UNCHANGED <<owner, beaten, tables, rows, serial, agbot, written, everWritten, ages, late, selfTaken, unverified>>

\* Mutant: the tables are dropped without their rows being inserted elsewhere.
MovedNowhere(rs) == {}
\* Secrets of the deployment's own organization are not inserted again.
Moved(rs) == rs \ SameOrg

\* The tables are dropped, which waits for whoever is inserting into them, the
\* partition's row is deleted, and the transaction commits.
CommitMove(a) ==
  /\ take[a].step = "copied"
  /\ LET from == take[a].from
         to == agbot[a].part
     IN  /\ \A b \in Agbots \ {a} : take[b].step = "copied" => agbot[b].part # from
         /\ rows' = [p \in PartitionIds |-> IF p = from THEN {}
                                            ELSE IF p = to THEN rows[p] \cup Moved(take[a].rows) ELSE rows[p]]
         /\ tables' = [tables EXCEPT ![from] = 0]
         /\ owner' = [owner EXCEPT ![from] = NoPartition] /\ beaten' = [beaten EXCEPT ![from] = FALSE]
         /\ late' = (late \/ owner[from] # a \/ (owner[to] # a /\ take[a].rows # {}))
  /\ take' = [take EXCEPT ![a] = NoTake]
  /\ UNCHANGED <<serial, agbot, written, everWritten, ages, selfTaken, unverified>>

\* An error of the database rolls the transaction back; the partition stays claimed.
RollbackMove(a) ==
  /\ take[a].step \in {"claimed", "copied"} /\ take' = [take EXCEPT ![a] = NoTake]
  /\ UNCHANGED <<owner, beaten, tables, rows, serial, agbot, written, everWritten, ages, late, selfTaken, unverified>>

-----------------------------------------------------------------------------
\* QuiescePartition gives up every partition of the agbot; a take-over under way ends
\* on its own.
QuiescePartition(a) ==
  /\ agbot[a].phase = "up" /\ agbot' = [agbot EXCEPT ![a].phase = "quiesced"]
  /\ owner' = [p \in PartitionIds |-> IF owner[p] = a THEN NoOwner ELSE owner[p]]
  /\ beaten' = [p \in PartitionIds |-> beaten[p] /\ owner[p] # a]
  /\ UNCHANGED <<tables, rows, serial, take, written, everWritten, ages, late, selfTaken, unverified>>

\* The process ends.
Stop(a) ==
  /\ agbot[a].phase \in {"starting", "up", "quiesced"}
  /\ agbot' = [agbot EXCEPT ![a].phase = "gone"] /\ take' = [take EXCEPT ![a] = NoTake]
  /\ UNCHANGED <<owner, beaten, tables, rows, serial, written, everWritten, ages, late, selfTaken, unverified>>

PartitionNext ==
  \/ \E p \in PartitionIds : HeartbeatAges(p) \/ \E a \in Agbots : DiscardPartition(a, p)
  \/ \E a \in Agbots, r \in Records : InsertRecord(a, r) \/ DeleteRecord(a, r)
  \/ \E a \in Agbots :
       \/ StartAgbot(a) \/ CreateTables(a) \/ HeartbeatPartition(a) \/ CheckOwnHeartbeat(a)
       \/ ClaimForMove(a) \/ CopyRows(a) \/ CommitMove(a) \/ RollbackMove(a)
       \/ QuiescePartition(a) \/ Stop(a)

PartitionSpec == PartitionInit /\ [][PartitionNext]_partitionVars

-----------------------------------------------------------------------------
\* A record that was written and not deleted is in the tables of exactly one partition,
\* and that partition can be found by the agbots, whatever starts, stops, quiesces and
\* takes over; unless an agbot wrote to or dropped a partition it had lost, or took
\* its own.  In a partition that was given up because it could not be verified the record
\* stays, but nobody will find it.  Secrets of the deployment's own organization are left
\* out (MovePartition, findUnownedPartition, HeartbeatPartition).
NoRecordLost ==
  ~late /\ ~selfTaken =>
    \A r \in written \ SameOrg :
      \E p \in PartitionIds : /\ r \in rows[p] /\ HasAgreements(p) /\ (owner[p] # NoPartition \/ p \in unverified)
                              /\ \A q \in PartitionIds \ {p} : r \notin rows[q]

\* "Move is meant literally": a record in a partition that is taken over is in the
\* tables of another one afterwards (MovePartition).
MoveIsLiteral ==
  [][~late' /\ ~selfTaken =>
       \A p \in PartitionIds : tables[p] = AllTables /\ tables'[p] = 0 =>
         \A r \in rows[p] : \E q \in PartitionIds : r \in rows'[q]]_partitionVars
=============================================================================
