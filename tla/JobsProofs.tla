----------------------------- MODULE JobsProofs -----------------------------
(***************************************************************************)
(* Proofs about Jobs, for every value of its constants: any starts of any  *)
(* peers, any cap, and however often the allowlist changes.                *)
(***************************************************************************)
EXTENDS Jobs, FiniteSetTheorems, TLAPS

(***************************************************************************)
(* The inductive invariant.                                                *)
(***************************************************************************)
\* Where a start stands says what its worker, its process and its entry in the table are.
StartOf(j) ==
    /\ at[j] \in {"idle", "asked", "reserved", "counted"} => spawn[j] = "none"
    /\ at[j] \in {"idle", "asked"} => j \notin table
    /\ at[j] \in {"reserved", "counted", "spawning"} => status[j] = "running"
    /\ at[j] = "failing" => status[j] = "ended"
    /\ spawn[j] = "busy" => at[j] \in {"spawning", "dropped"}
    /\ at[j] = "started" => spawn[j] = "spawned"
    /\ spawn[j] # "spawned" => process[j] = "none"
    /\ Alive(j) => at[j] \in {"spawning", "started"} /\ status[j] = "running"

\* What may still have a process is counted, and what runs is in the table until it is stopped.
Accounted(j) ==
    /\ at[j] = "counted" \/ spawn[j] = "busy" \/ Alive(j) => j \in counted
    /\ at[j] \in {"reserved", "counted", "spawning", "started"} /\ status[j] = "running"
          => j \in table \cup stop

\* Of the running jobs in the table, no two of a peer have a name.
NamesDiffer ==
    \A j, k \in table :
        /\ status[j] = "running" /\ status[k] = "running"
        /\ StartPeer[j] = StartPeer[k] /\ name[j] = name[k]
        => j = k

JobsInv ==
    /\ \A j \in Starts : StartOf(j) /\ Accounted(j)
    /\ NamesDiffer
    /\ drained => shutdown /\ \A j \in Starts : ~Alive(j) /\ spawn[j] # "busy"

(***************************************************************************)
(* Types.  The table's bound needs that it is a finite set.                *)
(***************************************************************************)
LEMMA TableFinite ==
  ASSUME JobsAssumption, TypeOK
  PROVE  /\ IsFiniteSet(table) /\ Cardinality(table) \in Nat
         /\ \A kept \in SUBSET table : IsFiniteSet(kept) /\ Cardinality(kept) <= MaxJobs
<1> IsFiniteSet(Starts) /\ table \in SUBSET Starts /\ MaxJobs \in Nat /\ Cardinality(table) <= MaxJobs
  BY DEF JobsAssumption, TypeOK
<1>1. IsFiniteSet(table) /\ Cardinality(table) \in Nat
  BY FS_Subset, FS_CardinalityType
<1>2. ASSUME NEW kept \in SUBSET table PROVE IsFiniteSet(kept) /\ Cardinality(kept) <= MaxJobs
  <2>1. IsFiniteSet(kept) /\ Cardinality(kept) <= Cardinality(table)
    BY <1>1, FS_Subset
  <2>2. Cardinality(kept) \in Nat
    BY <2>1, FS_CardinalityType
  <2> QED
    BY <1>1, <2>1, <2>2
<1> QED
  BY <1>1, <1>2

\* Room was made, or there was some: one more is not too many.
LEMMA RoomForOne ==
  ASSUME JobsAssumption, TypeOK, NEW rest \in SUBSET table, NEW j \in Starts,
         ~Full(rest) \/ \E k \in rest : table' = (rest \ {k}) \cup {j},
         Full(rest) \/ table' = rest \cup {j}
  PROVE  table' \subseteq Starts /\ Cardinality(table') <= MaxJobs
<1> MaxJobs \in Nat
  BY DEF JobsAssumption
<1>1. IsFiniteSet(rest) /\ Cardinality(rest) <= MaxJobs /\ Cardinality(rest) \in Nat
  BY TableFinite, FS_CardinalityType
<1>2. CASE ~Full(rest)
  <2>1. table' = rest \cup {j} /\ Cardinality(rest) < MaxJobs
    BY <1>1, <1>2 DEF Full
  <2>2. Cardinality(rest \cup {j}) = IF j \in rest THEN Cardinality(rest) ELSE Cardinality(rest) + 1
    BY <1>1, FS_AddElement
  <2> QED
    BY <1>1, <2>1, <2>2 DEF TypeOK
<1>3. CASE Full(rest)
  <2>1. PICK k \in rest : table' = (rest \ {k}) \cup {j}
    BY <1>3
  <2>2. IsFiniteSet(rest \ {k}) /\ Cardinality(rest \ {k}) = Cardinality(rest) - 1
    BY <1>1, FS_RemoveElement
  <2>3. Cardinality((rest \ {k}) \cup {j})
          = IF j \in rest \ {k} THEN Cardinality(rest \ {k}) ELSE Cardinality(rest \ {k}) + 1
    BY <2>2, FS_AddElement
  <2> QED
    BY <1>1, <2>1, <2>2, <2>3 DEF TypeOK
<1> QED
  BY <1>2, <1>3

LEMMA TypeInit == ASSUME JobsAssumption, Init PROVE TypeOK
<1>1. Cardinality(table) = 0
  BY FS_EmptySet DEF Init
<1>2. allowed \in [Peers -> Scopes \cup {None}]
  BY DEF Init
<1>3. MaxJobs \in Nat /\ SignalQueue \in Nat /\ MaxPublish \in Nat /\ MaxKill \in Nat
  BY DEF JobsAssumption
<1>4. table \subseteq Starts /\ Cardinality(table) <= MaxJobs
  BY <1>1, <1>3 DEF Init
<1>5. published \in 0..MaxPublish /\ sent \in 0..MaxKill /\ signals \in [Starts -> 0..SignalQueue]
  <2>1. published = 0 /\ sent = 0 /\ signals = [j \in Starts |-> 0]
    BY DEF Init
  <2> QED
    BY <1>3, <2>1
<1>6. /\ at \in [Starts -> {"idle", "asked", "reserved", "counted", "spawning", "failing", "started",
                            "refused", "dropped"}]
      /\ scope \in [Starts -> Scopes \cup {None}] /\ name \in [Starts -> Names \cup {None}]
      /\ spawn \in [Starts -> {"none", "busy", "failed", "spawned"}]
  BY DEF Init
<1>7. /\ began \in [Starts -> Nat] /\ status \in [Starts -> {"none", "running", "ended"}]
      /\ process \in [Starts -> {"none", "alive", "exited", "gone"}]
      /\ stop \subseteq Starts /\ counted \subseteq Starts /\ toEnd \subseteq Peers
      /\ shutdown \in BOOLEAN /\ drained \in BOOLEAN
  BY DEF Init
<1> QED
  BY <1>2, <1>4, <1>5, <1>6, <1>7 DEF TypeOK

LEMMA TypeStep == ASSUME JobsAssumption, TypeOK, [Next]_vars PROVE TypeOK'
<1> USE DEF TypeOK
<1>1. ASSUME NEW j \in Starts, Reserve(j) PROVE TypeOK'
  <2>1. PICK expired \in SUBSET Ended(table), n \in Names : Reserve(j)!2!(expired, n)
    BY <1>1 DEF Reserve
  <2> DEFINE kept == table \ expired
             rest == kept \ Called(j, n, kept)
  <2>2. rest \in SUBSET table /\ kept \in SUBSET table
    OBVIOUS
  <2> HIDE DEF rest, kept
  <2>3. /\ table' \subseteq Starts /\ Cardinality(table') <= MaxJobs
        /\ name' \in [Starts -> Names \cup {None}] /\ began' \in [Starts -> Nat]
        /\ status' \in [Starts -> {"none", "running", "ended"}]
        /\ at' \in [Starts -> {"idle", "asked", "reserved", "counted", "spawning", "failing", "started",
                               "refused", "dropped"}]
    <3>1. CASE Taken(j, n, kept) /\ table' = kept /\ at' = [at EXCEPT ![j] = "refused"]
               /\ UNCHANGED <<name, began, status>>
      BY <2>2, <3>1, TableFinite
    <3>2. CASE Full(rest) /\ table' = rest /\ at' = [at EXCEPT ![j] = "refused"]
               /\ UNCHANGED <<name, began, status>>
      BY <2>2, <3>2, TableFinite
    <3>3. CASE /\ \/ ~Full(rest) /\ table' = rest \cup {j}
                  \/ Full(rest) /\ \E k \in Evictable(rest) : table' = (rest \ {k}) \cup {j}
               /\ at' = [at EXCEPT ![j] = "reserved"] /\ name' = [name EXCEPT ![j] = n]
               /\ began' = [began EXCEPT ![j] = Cardinality({k \in Starts : began[k] # 0}) + 1]
               /\ status' = [status EXCEPT ![j] = "running"]
      <4>1. table' \subseteq Starts /\ Cardinality(table') <= MaxJobs
        BY <2>2, <3>3, RoomForOne DEF Evictable, Ended
      <4>2. Cardinality({k \in Starts : began[k] # 0}) \in Nat
        BY FS_Subset, FS_CardinalityType DEF JobsAssumption
      <4> QED
        BY <3>3, <4>1, <4>2
    <3> QED
      BY <2>1, <3>1, <3>2, <3>3 DEF kept, rest
  <2> QED
    BY <1>1, <2>3 DEF Reserve, stopVars, listVars
<1>2. ASSUME NEW j \in Starts,
             StartAsked(j) \/ StartCounts(j) \/ StartIsLate(j) \/ StartSpawns(j) \/ StartDone(j)
               \/ StartFailed(j) \/ StartDropped(j)
      PROVE  TypeOK'
  BY <1>2 DEF StartAsked, StartCounts, StartIsLate, StartSpawns, StartDone, StartFailed, StartFails,
              StartDropped, startVars, jobVars, listVars, stopVars
<1>3. ASSUME NEW j \in Starts, StartForgets(j) PROVE TypeOK'
  <2>1. Cardinality(table') <= MaxJobs /\ table' \subseteq Starts
    BY <1>3, TableFinite DEF StartForgets
  <2> QED
    BY <1>3, <2>1 DEF StartForgets, listVars, stopVars
<1>4. ASSUME NEW j \in Starts, Worker(j) \/ ProcessExits(j) \/ RunnerEnds(j) PROVE TypeOK'
  BY <1>4 DEF Worker, WorkerSpawns, WorkerFails, ProcessExits, RunnerEnds, startVars, jobVars,
              listVars, stopVars
<1>5. ASSUME NEW j \in Starts, RunnerSignals(j) \/ Kill(j) PROVE TypeOK'
  BY <1>5 DEF RunnerSignals, Kill, JobsAssumption, startVars, listVars, stopVars
<1>6. CASE WatcherPublishes
  BY <1>6 DEF WatcherPublishes, JobsAssumption, startVars, jobVars, stopVars
<1>7. ASSUME NEW p \in Peers, WatcherEnds(p) PROVE TypeOK'
  <2>1. Cardinality(table') <= MaxJobs /\ table' \subseteq Starts
    BY <1>7, TableFinite DEF WatcherEnds
  <2> QED
    BY <1>7, <2>1 DEF WatcherEnds, JobsOf, startVars, stopVars
<1>8. CASE Shutdown \/ ShutdownDrained
  BY <1>8 DEF Shutdown, ShutdownDrained, startVars, jobVars, listVars
<1>9. CASE UNCHANGED vars
  BY <1>9 DEF vars, startVars, jobVars, listVars, stopVars
<1> QED
  BY <1>1, <1>2, <1>3, <1>4, <1>5, <1>6, <1>7, <1>8, <1>9 DEF Next, Start

(***************************************************************************)
(* The invariant.                                                          *)
(***************************************************************************)
LEMMA InvInit == ASSUME JobsAssumption, Init PROVE JobsInv
BY DEF Init, JobsInv, StartOf, Accounted, Alive, NamesDiffer

LEMMA StartStep ==
  ASSUME JobsAssumption, TypeOK, JobsInv, [Next]_vars, NEW i \in Starts
  PROVE  StartOf(i)' /\ Accounted(i)'
<1> USE DEF StartOf, Accounted, Alive
<1> StartOf(i) /\ Accounted(i)
  BY DEF JobsInv
<1>1. ASSUME NEW j \in Starts, Reserve(j) PROVE StartOf(i)' /\ Accounted(i)'
  <2>1. i \in table /\ i # j /\ status[i] = "running" => i \in table'
    BY <1>1 DEF Reserve, Ended, Called, Taken, Evictable
  <2>2. i # j => UNCHANGED <<at[i], status[i]>> /\ (i \in table' => i \in table)
    BY <1>1 DEF Reserve, TypeOK, Ended
  <2>3. i = j => \/ at'[i] = "refused" /\ i \notin table
                 \/ at'[i] = "reserved" /\ status'[i] = "running" /\ i \in table'
    BY <1>1 DEF Reserve, TypeOK
  <2> QED
    BY <1>1, <2>1, <2>2, <2>3 DEF Reserve, TypeOK
<1>2. ASSUME NEW j \in Starts,
             StartAsked(j) \/ StartCounts(j) \/ StartIsLate(j) \/ StartSpawns(j)
      PROVE  StartOf(i)' /\ Accounted(i)'
  BY <1>2 DEF StartAsked, StartCounts, Counts, StartIsLate, StartFails, StartSpawns, jobVars, TypeOK
<1>3. ASSUME NEW j \in Starts,
             StartDone(j) \/ StartFailed(j) \/ StartForgets(j) \/ StartDropped(j)
      PROVE  StartOf(i)' /\ Accounted(i)'
  BY <1>3 DEF StartDone, StartFailed, StartFails, StartForgets, Forgotten, StartDropped, jobVars, TypeOK
<1>4. ASSUME NEW j \in Starts, Worker(j) PROVE StartOf(i)' /\ Accounted(i)'
  BY <1>4 DEF Worker, WorkerSpawns, WorkerFails, jobVars, TypeOK
<1>5. ASSUME NEW j \in Starts, ProcessExits(j) \/ RunnerEnds(j) \/ RunnerSignals(j) \/ Kill(j)
      PROVE  StartOf(i)' /\ Accounted(i)'
  <2>1. CASE ProcessExits(j) \/ RunnerSignals(j)
    <3> UNCHANGED <<at, spawn, status, table, stop, counted>>
      BY <2>1 DEF ProcessExits, RunnerSignals, startVars
    <3>1. \/ process' = process
          \/ process[j] = "alive" /\ process' = [process EXCEPT ![j] = "exited"]
      BY <2>1 DEF ProcessExits, RunnerSignals
    <3> QED
      BY <3>1 DEF TypeOK
  <2>2. CASE RunnerEnds(j)
    BY <2>2 DEF RunnerEnds, Runs, startVars, TypeOK
  <2>3. CASE Kill(j)
    BY <2>3 DEF Kill, startVars
  <2> QED
    BY <1>5, <2>1, <2>2, <2>3
<1>6. ASSUME NEW p \in Peers, WatcherEnds(p) PROVE StartOf(i)' /\ Accounted(i)'
  BY <1>6 DEF WatcherEnds, JobsOf, startVars
<1>7. CASE WatcherPublishes \/ Shutdown \/ ShutdownDrained \/ UNCHANGED vars
  BY <1>7 DEF WatcherPublishes, Shutdown, ShutdownDrained, vars, startVars, jobVars
<1> QED
  BY <1>1, <1>2, <1>3, <1>4, <1>5, <1>6, <1>7 DEF Next, Start

\* A name is given only where no running job of the peer has it, and a job keeps the one it got.
LEMMA NamesStep ==
  ASSUME JobsAssumption, TypeOK, JobsInv, [Next]_vars PROVE NamesDiffer'
<1> NamesDiffer
  BY DEF JobsInv
<1>1. ASSUME NEW j \in Starts, Reserve(j) PROVE NamesDiffer'
  <2>1. j \notin table
    BY <1>1 DEF Reserve, JobsInv, StartOf
  <2>2. PICK expired \in SUBSET Ended(table), n \in Names : Reserve(j)!2!(expired, n)
    BY <1>1 DEF Reserve
  <2>3. CASE table' \subseteq table /\ UNCHANGED <<name, status>>
    BY <2>3 DEF NamesDiffer
  <2>4. CASE /\ ~Taken(j, n, table \ expired) /\ table' \subseteq (table \ expired) \cup {j}
             /\ name' = [name EXCEPT ![j] = n] /\ status' = [status EXCEPT ![j] = "running"]
    <3>1. \A k \in table' \ {j} :
             /\ k \in table \ expired /\ name'[k] = name[k] /\ status'[k] = status[k]
             /\ ~(status[k] = "running" /\ StartPeer[k] = StartPeer[j] /\ name[k] = n)
      BY <2>1, <2>4 DEF Taken, Called, Ended, TypeOK
    <3>2. name'[j] = n
      BY <2>4 DEF TypeOK
    <3> QED
      BY <3>1, <3>2 DEF NamesDiffer
  <2> QED
    BY <2>2, <2>3, <2>4 DEF Evictable, Ended
<1>2. CASE /\ UNCHANGED name /\ table' \subseteq table
           /\ \A k \in table' : status'[k] = "running" => status[k] = "running"
  BY <1>2 DEF NamesDiffer
<1>3. ASSUME NEW j \in Starts,
             StartAsked(j) \/ StartCounts(j) \/ StartIsLate(j) \/ StartSpawns(j) \/ StartDone(j)
               \/ StartFailed(j) \/ StartForgets(j) \/ StartDropped(j)
      PROVE  NamesDiffer'
  BY <1>2, <1>3 DEF StartAsked, StartCounts, StartIsLate, StartFails, StartSpawns, StartDone,
                    StartFailed, StartForgets, StartDropped, jobVars, TypeOK
<1>4. ASSUME NEW j \in Starts,
             Worker(j) \/ ProcessExits(j) \/ RunnerEnds(j) \/ RunnerSignals(j) \/ Kill(j)
      PROVE  NamesDiffer'
  BY <1>2, <1>4 DEF Worker, WorkerSpawns, WorkerFails, ProcessExits, RunnerEnds, RunnerSignals, Kill,
                    jobVars, TypeOK
<1>5. ASSUME NEW p \in Peers, WatcherEnds(p) PROVE NamesDiffer'
  BY <1>2, <1>5 DEF WatcherEnds
<1>6. CASE WatcherPublishes \/ Shutdown \/ ShutdownDrained \/ UNCHANGED vars
  BY <1>2, <1>6 DEF WatcherPublishes, Shutdown, ShutdownDrained, vars, jobVars
<1> QED
  BY <1>1, <1>3, <1>4, <1>5, <1>6 DEF Next, Start

\* Once drained nothing spawns: a start that comes late is refused.
LEMMA DrainedStep ==
  ASSUME JobsAssumption, TypeOK, JobsInv, [Next]_vars, drained'
  PROVE  shutdown' /\ \A j \in Starts : (~Alive(j) /\ spawn[j] # "busy")'
<1> USE DEF Alive
<1>1. CASE ShutdownDrained
  BY <1>1 DEF ShutdownDrained, JobsInv, Accounted, startVars, jobVars
<1>2. CASE drained
  <2> shutdown /\ \A j \in Starts : ~Alive(j) /\ spawn[j] # "busy"
    BY <1>2 DEF JobsInv
  <2>1. ASSUME NEW j \in Starts,
               StartAsked(j) \/ Reserve(j) \/ StartCounts(j) \/ StartIsLate(j) \/ StartSpawns(j)
                 \/ StartDone(j) \/ StartFailed(j) \/ StartForgets(j)
        PROVE  UNCHANGED <<shutdown, process, spawn>>
    BY <2>1 DEF StartAsked, Reserve, StartCounts, StartIsLate, StartSpawns, StartDone, StartFailed,
                StartForgets, jobVars, stopVars
  <2>2. ASSUME NEW j \in Starts,
               StartDropped(j) \/ Worker(j) \/ ProcessExits(j) \/ RunnerEnds(j) \/ RunnerSignals(j)
                 \/ Kill(j)
        PROVE  UNCHANGED <<shutdown, spawn>> /\ \A k \in Starts : ~Alive(k)'
    <3> process[j] \notin {"alive", "exited"} /\ spawn[j] # "busy"
      OBVIOUS
    <3>1. CASE StartDropped(j)
      <4>1. process' = process \/ process' = [process EXCEPT ![j] = "gone"]
        BY <3>1 DEF StartDropped
      <4>2. UNCHANGED <<shutdown, spawn>>
        BY <3>1 DEF StartDropped, stopVars
      <4> QED
        BY <4>1, <4>2 DEF TypeOK
    <3>2. ~Worker(j) /\ ~ProcessExits(j)
      BY DEF Worker, WorkerSpawns, WorkerFails, ProcessExits
    <3>3. CASE RunnerEnds(j)
      <4>1. process' = [process EXCEPT ![j] = "gone"] /\ UNCHANGED <<shutdown, spawn>>
        BY <3>3 DEF RunnerEnds, startVars, stopVars
      <4> QED
        BY <4>1 DEF TypeOK
    <3>4. CASE RunnerSignals(j)
      BY <3>4 DEF RunnerSignals, startVars, stopVars
    <3>5. CASE Kill(j)
      BY <3>5 DEF Kill, startVars, stopVars
    <3> QED
      BY <2>2, <3>1, <3>2, <3>3, <3>4, <3>5
  <2>3. CASE WatcherPublishes \/ Shutdown \/ ShutdownDrained \/ UNCHANGED vars
    BY <2>3 DEF WatcherPublishes, Shutdown, ShutdownDrained, vars, startVars, jobVars, stopVars
  <2>4. ASSUME NEW p \in Peers, WatcherEnds(p) PROVE UNCHANGED <<shutdown, process, spawn>>
    BY <2>4 DEF WatcherEnds, startVars, stopVars
  <2> QED
    BY <2>1, <2>2, <2>3, <2>4 DEF Next, Start
<1>3. CASE ~drained /\ ~ShutdownDrained
  <2>1. ASSUME NEW j \in Starts,
               StartAsked(j) \/ Start(j) \/ StartDropped(j) \/ Worker(j) \/ ProcessExits(j)
                 \/ RunnerEnds(j) \/ RunnerSignals(j) \/ Kill(j)
        PROVE  UNCHANGED drained
    BY <2>1 DEF StartAsked, Start, Reserve, StartCounts, StartIsLate, StartSpawns, StartDone,
                StartFailed, StartForgets, StartDropped, Worker, WorkerSpawns, WorkerFails,
                ProcessExits, RunnerEnds, RunnerSignals, Kill, stopVars
  <2>2. ASSUME WatcherPublishes \/ Shutdown \/ (\E p \in Peers : WatcherEnds(p)) \/ UNCHANGED vars
        PROVE  UNCHANGED drained
    BY <2>2 DEF WatcherPublishes, Shutdown, WatcherEnds, vars, stopVars
  <2> QED
    BY <1>3, <2>1, <2>2 DEF Next
<1> QED
  BY <1>1, <1>2, <1>3

LEMMA InvStep == ASSUME JobsAssumption, TypeOK, JobsInv, [Next]_vars PROVE JobsInv'
BY StartStep, NamesStep, DrainedStep DEF JobsInv, Alive

LEMMA InvAlways == ASSUME JobsAssumption PROVE Spec => [](TypeOK /\ JobsInv)
<1>1. Init => TypeOK /\ JobsInv
  BY TypeInit, InvInit
<1>2. TypeOK /\ JobsInv /\ [Next]_vars => TypeOK' /\ JobsInv'
  BY TypeStep, InvStep
<1> QED
  BY <1>1, <1>2, PTL DEF Spec

(***************************************************************************)
(* The results.                                                            *)
(***************************************************************************)
\* Of a peer's jobs by one name at most one has a process and was not told to stop, and the table
\* never exceeds its cap (Jobs::reserve under the table's lock); and once the shutdown's wait for
\* what is counted is over, no process is left and none comes (spawn: "counted first").
THEOREM TableAlways == ASSUME JobsAssumption PROVE Spec => []TableIsTrue
<1>1. TypeOK /\ JobsInv => TableIsTrue
  <2> SUFFICES ASSUME TypeOK, JobsInv PROVE TableIsTrue
    OBVIOUS
  <2>1. OneOfAName
    <3> SUFFICES ASSUME NEW j \in Starts, NEW k \in Starts, Alive(j), Alive(k),
                        StartPeer[j] = StartPeer[k], name[j] = name[k], j \notin stop, k \notin stop
                 PROVE  j = k
      BY DEF OneOfAName
    <3>1. /\ j \in table /\ status[j] = "running"
          /\ k \in table /\ status[k] = "running"
      BY DEF JobsInv, StartOf, Accounted
    <3> QED
      BY <3>1 DEF JobsInv, NamesDiffer
  <2>2. DrainedOfProcesses
    BY DEF JobsInv, DrainedOfProcesses
  <2> QED
    BY <2>1, <2>2 DEF TableIsTrue
<1> QED
  BY <1>1, InvAlways, PTL

\* A job keeps its place in the table while it runs, or was told to stop: reserve makes room of ended
\* jobs alone, and what StartForgets takes away had ended (Arc::ptr_eq in Jobs::start).
THEOREM RunningKeepsItsPlaceAlways == ASSUME JobsAssumption PROVE Spec => RunningKeepsItsPlace
<1>1. ASSUME TypeOK, JobsInv, [Next]_vars, NEW i \in table, status[i] = "running"
      PROVE  i \in table' \/ i \in stop'
  <2>1. ASSUME NEW j \in Starts, Reserve(j) PROVE i \in table'
    BY <1>1, <2>1 DEF Reserve, Ended, Called, Taken, Evictable
  <2>2. ASSUME NEW j \in Starts, StartForgets(j) PROVE i \in table'
    <3> i # j
      BY <1>1, <2>2 DEF StartForgets, JobsInv, StartOf
    <3> QED
      BY <1>1, <2>2 DEF StartForgets, Forgotten
  <2>3. ASSUME NEW p \in Peers, WatcherEnds(p) PROVE i \in table' \cup stop'
    BY <1>1, <2>3 DEF WatcherEnds
  <2>4. ASSUME NEW j \in Starts,
               StartAsked(j) \/ StartCounts(j) \/ StartIsLate(j) \/ StartSpawns(j) \/ StartDone(j)
                 \/ StartFailed(j) \/ StartDropped(j) \/ Worker(j)
        PROVE  UNCHANGED table
    BY <2>4 DEF StartAsked, StartCounts, StartIsLate, StartSpawns, StartDone, StartFailed,
                StartDropped, Worker, WorkerSpawns, WorkerFails, jobVars
  <2>5. ASSUME NEW j \in Starts, ProcessExits(j) \/ RunnerEnds(j) \/ RunnerSignals(j) \/ Kill(j)
        PROVE  UNCHANGED table
    BY <2>5 DEF ProcessExits, RunnerEnds, RunnerSignals, Kill
  <2>6. ASSUME WatcherPublishes \/ Shutdown \/ ShutdownDrained \/ UNCHANGED vars
        PROVE  UNCHANGED table
    BY <2>6 DEF WatcherPublishes, Shutdown, ShutdownDrained, vars, jobVars
  <2> QED
    BY <1>1, <2>1, <2>2, <2>3, <2>4, <2>5, <2>6 DEF Next, Start
<1>2. TypeOK /\ JobsInv /\ [Next]_vars
        => [\A j \in table : status[j] = "running" => j \in table' \/ j \in stop']_vars
  BY <1>1
<1> QED
  BY <1>2, InvAlways, PTL DEF Spec, RunningKeepsItsPlace
=============================================================================
