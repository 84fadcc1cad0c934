------------------------------ MODULE Components ------------------------------
(***************************************************************************)
(* The job stores and executors registered under aliases, the rows of the  *)
(* metadata database that restore them after a restart, and the jobs that  *)
(* the stores hold: adding, moving and removing jobs, and configuring,     *)
(* exchanging, migrating and removing components, while requests overlap,  *)
(* writes fail and the process is restarted.                               *)
(*                                                                         *)
(* Scheduler._lock makes the locked part of a request one step.  What a    *)
(* request does before it takes the lock or after it released it is a step *)
(* of its own.  When jobs run is the subject of JobScheduler, what an      *)
(* exchange of executors does to their runs that of SchedulerLifecycle.    *)
(***************************************************************************)
EXTENDS Naturals, FiniteSets

CONSTANTS
    Jobs,         \* job ids; each is used for one add_job, as with a new uuid
    Executor,     \* executor alias of each job
    Databases,    \* what configurations other than "memory" connect to
    Memories,     \* instances of MemoryJobStore
    Plugins,      \* executor plugins that a request may ask for
    Requests,     \* API threads
    Ops,          \* operations that each of them uses
    MaxRequests,  \* bound on the number of requests
    MaxFaults,    \* bound on the number of writes that fail
    MaxRestarts   \* bound on the number of restarts

Aliases == {"default", "extra"}
None    == "none"
Stores  == Databases \cup Memories

\* Names that a request may give for a plugin; one is in no registry.
StorePlugins    == Databases \cup {"memory"}
ExecutorPlugins == Plugins \cup {"threadpool"}
Unknown         == "unknown"

JobOps   == {"add_job", "update_job", "remove_job", "migrate_two"}
StoreOps == {"configure", "put", "migrate", "delete"}
ExecutorOps == {"configure_executor", "put_executor", "delete_executor"}

ASSUME SetsAssumption ==
    /\ IsFiniteSet(Jobs) /\ IsFiniteSet(Requests)
    /\ Executor \in [Jobs -> Aliases]
    /\ Ops \in [Requests -> SUBSET (JobOps \cup StoreOps \cup ExecutorOps)]
    /\ {None, Unknown} \cap (Stores \cup Aliases \cup Plugins \cup {"memory"}) = {}
    /\ Databases \cap Memories = {} /\ "memory" \notin Databases \cup Memories

\* The aliases and every request keep at most one instance each from reuse.
ASSUME MemoriesAssumption ==
    IsFiniteSet(Memories) /\ Cardinality(Memories) > 2 + 2 * Cardinality(Requests)

ASSUME BoundsAssumption == {MaxRequests, MaxFaults, MaxRestarts} \subseteq Nat

VARIABLES
    jobstores,  \* Scheduler._jobstores: a store for each alias, or None
    executors,  \* Scheduler._executors: a plugin for each alias, or None
    content,    \* what each store holds: the job's own jobstore_alias, or None
    rows,       \* the jobstore_config and executor_config tables
    calls,      \* what each request has read or done so far
    added,      \* jobs that add_job was called for
    requests, faults, restarts,     \* how many there were
    held,       \* ghost: jobs that add_job accepted and nobody removed
    gone,       \* ghost: jobs that remove_job removed
    lost,       \* ghost: jobs given up in one of the ways NoJobLost lists
    split,      \* ghost: jobs with a copy or an alias left behind
    unsettled   \* ghost: rows that need not agree with the live component

counters == <<requests, faults, restarts>>
ghosts   == <<held, gone, lost, split, unsettled>>
vars == <<jobstores, executors, content, rows, calls, added, counters, ghosts>>

Idle  == [op |-> "idle"]
Empty == [j \in Jobs |-> None]
-----------------------------------------------------------------------------
(* Stores.                                                                 *)

JobsIn(s) == {j \in Jobs : content[s][j] # None}

Backend(s) == IF s \in Memories THEN "memory" ELSE s

Live == {jobstores[a] : a \in Aliases} \ {None}

\* Instances that an alias or a request still refers to.
Referenced ==
    Live \cup {calls[c].store : c \in {d \in Requests : calls[d].op \in JobOps}}
         \cup {calls[c].target : c \in {d \in Requests : calls[d].op = "migrate_two"}}

\* _resolve_plugin: a configuration builds a new, empty MemoryJobStore or
\* connects to a database, with whatever that holds already.
StoreFor(plugin) ==
    IF plugin = "memory" THEN CHOOSE m \in Memories : m \notin Referenced
                         ELSE plugin

\* close clears a memory store; a database keeps what it holds.
Closed(K, s) == IF s \in Memories THEN [K EXCEPT ![s] = Empty] ELSE K

(***************************************************************************)
(* How a write to a store may end.  After "refused" and "unsure" it        *)
(* raises, as SQLAlchemyJobStore does when four attempts met a locked      *)
(* database; an "unsure" one has taken effect all the same.  A process     *)
(* that ends between two writes leaves what a refused write leaves.        *)
(***************************************************************************)
Write(s) ==
    {"done"} \cup IF s \in Databases /\ faults < MaxFaults
                  THEN {"refused", "unsure"} ELSE {}

Takes(result) == result # "refused"

Count(result) == faults' = IF result = "done" THEN faults ELSE faults + 1

\* add and remove, for a job that is not there and one that is.
Added(K, s, j, a) == [K EXCEPT ![s][j] = a]
Removed(K, s, j)  == [K EXCEPT ![s][j] = None]

\* _find_job: the first store that holds j, in the order of registration.
Find(j) ==
    CASE content[jobstores["default"]][j] # None -> jobstores["default"]
      [] jobstores["extra"] # None /\ content[jobstores["extra"]][j] # None ->
            jobstores["extra"]
      [] OTHER -> None

\* _jobstores.get(alias, self._jobstore)
StoreOf(a) == IF jobstores[a] # None THEN jobstores[a] ELSE jobstores["default"]

\* job.jobstore_alias = a, for the job object read from s: a memory store
\* holds that very object, a database is not written.
Renamed(s, j, a) ==
    IF s \in Memories
    THEN [t \in Stores |-> IF t \in Memories /\ content[t][j] # None
                           THEN [content[t] EXCEPT ![j] = a] ELSE content[t]]
    ELSE content
-----------------------------------------------------------------------------
(* Requests.                                                               *)

\* A request of thread c that has taken all its steps.
Single(c, op) ==
    /\ calls[c] = Idle
    /\ op \in Ops[c]
    /\ requests < MaxRequests
    /\ requests' = requests + 1
    /\ UNCHANGED calls

\* One that has more to do.
Begins(c, call) ==
    /\ calls[c] = Idle
    /\ call.op \in Ops[c]
    /\ requests < MaxRequests
    /\ requests' = requests + 1
    /\ calls' = [calls EXCEPT ![c] = call]

Ends(c) == calls' = [calls EXCEPT ![c] = Idle] /\ UNCHANGED requests

Continues(c, call) == calls' = [calls EXCEPT ![c] = call] /\ UNCHANGED requests

\* Requests that are configuring alias a of a table.
Configuring(table, a) ==
    {c \in Requests : /\ calls[c].op \notin JobOps \cup {"idle"}
                      /\ calls[c].table = table /\ calls[c].alias = a}

\* Two requests for one alias at a time: the row is left to the later one.
Overlaps(table, a) ==
    unsettled' = IF Configuring(table, a) = {} THEN unsettled
                                       ELSE unsettled \cup {<<table, a>>}
-----------------------------------------------------------------------------
(* Jobs.                                                                   *)

\* add_job looks the store up before it takes the lock ...
AddJob(c) ==
    /\ \E j \in Jobs \ added, a \in Aliases :
          /\ jobstores[a] # None
          /\ Begins(c, [op |-> "add_job", job |-> j, alias |-> a,
                        store |-> jobstores[a]])
          /\ added' = added \cup {j}
    /\ UNCHANGED <<jobstores, executors, content, rows, faults, restarts, ghosts>>

\* ... and adds to that one, be it the alias's store still or not.
AddJobLocked(c) ==
    /\ calls[c].op = "add_job"
    /\ LET j == calls[c].job
           s == calls[c].store
       IN \E result \in Write(s) :
            /\ content' = IF Takes(result)
                          THEN Added(content, s, j, calls[c].alias)
                          ELSE content
            /\ Count(result)
            /\ held' = IF result = "done" THEN held \cup {j} ELSE held
            /\ lost' = IF s \in Live THEN lost ELSE lost \cup {j}
            /\ split' = IF s = jobstores[calls[c].alias] THEN split
                                                         ELSE split \cup {j}
    /\ Ends(c)
    /\ UNCHANGED <<jobstores, executors, rows, added, restarts, gone, unsettled>>

RemoveJob(c) ==
    /\ Single(c, "remove_job")
    /\ \E j \in Jobs :
          /\ Find(j) # None
          /\ LET s == StoreOf(content[Find(j)][j]) IN
                /\ content[s][j] # None
                /\ \E result \in Write(s) :
                      /\ content' = IF Takes(result)
                                    THEN Removed(content, s, j)
                                    ELSE content
                      /\ Count(result)
                      /\ held' = IF Takes(result) THEN held \ {j} ELSE held
                      /\ gone' = IF result = "done" THEN gone \cup {j} ELSE gone
    /\ UNCHANGED <<jobstores, executors, rows, added, restarts, lost, split,
                   unsettled>>

(***************************************************************************)
(* update_job with another jobstore_alias: the job takes the new alias, is *)
(* removed from the store of the old one and added to the new one.  An     *)
(* alias nobody registered is found out only then.                         *)
(***************************************************************************)
MoveJob(c) ==
    /\ Single(c, "update_job")
    /\ \E j \in Jobs, a \in Aliases :
          /\ Find(j) # None
          /\ content[Find(j)][j] # a
          /\ LET old == StoreOf(content[Find(j)][j])
                 new == jobstores[a]
                 K   == Renamed(Find(j), j, a)
             IN \E removes \in Write(old) :
                  LET R == IF Takes(removes) THEN Removed(K, old, j) ELSE K
                      stops == removes # "done" \/ IF new = None THEN TRUE
                                                   ELSE R[new][j] # None
                  IN \/ /\ stops
                        /\ content' = R
                        /\ Count(removes)
                        /\ lost' = IF Takes(removes) THEN lost \cup {j} ELSE lost
                        /\ split' = split \cup {j}
                     \/ /\ ~stops
                        /\ \E adds \in Write(new) :
                              /\ content' = IF Takes(adds)
                                            THEN Added(R, new, j, a) ELSE R
                              /\ Count(adds)
                              /\ lost' = IF Takes(adds) THEN lost
                                                        ELSE lost \cup {j}
                              /\ UNCHANGED split
    /\ UNCHANGED <<jobstores, executors, rows, added, restarts, held, gone,
                   unsettled>>
-----------------------------------------------------------------------------
(* Migration.                                                              *)

\* migrate_jobstore(source, target) reads the jobs before it takes the lock ...
MigrateTwo(c) ==
    /\ \E a \in Aliases, b \in Aliases :
          /\ jobstores[a] # None /\ jobstores[b] # None
          /\ Begins(c, [op |-> "migrate_two", alias |-> b, store |-> jobstores[a],
                        target |-> jobstores[b], jobs |-> JobsIn(jobstores[a])])
    /\ UNCHANGED <<jobstores, executors, content, rows, added, faults, restarts,
                   ghosts>>

\* Mutant: the source keeps its copy.
Copied(K, src, dst, S, b) ==
    [K EXCEPT ![dst] = [j \in Jobs |-> IF j \in S THEN b ELSE @[j]]]

\* Mutant: the jobs keep their alias.
MovedUnnamed(K, src, dst, S, b) ==
    [K EXCEPT ![dst] = [j \in Jobs |-> IF j \in S THEN K[src][j] ELSE @[j]],
              ![src] = [j \in Jobs |-> IF j \in S THEN None ELSE @[j]]]

\* The jobs of S moved from src to dst, with alias b.
Moved(K, src, dst, S, b) ==
    [K EXCEPT ![dst] = [j \in Jobs |-> IF j \in S THEN b ELSE @[j]],
              ![src] = [j \in Jobs |-> IF j \in S THEN None ELSE @[j]]]

(***************************************************************************)
(* ... and moves them one by one: new alias, add, remove.  It stops at the *)
(* first job i that dst holds already, that src holds no longer, or whose  *)
(* write fails; the jobs of S have been moved by then.                     *)
(***************************************************************************)
MigrateTwoLocked(c) ==
    /\ calls[c].op = "migrate_two"
    /\ LET src == calls[c].store
           dst == calls[c].target
           b   == calls[c].alias
           J   == calls[c].jobs
           movable(S) == src # dst /\ \A j \in S : /\ content[dst][j] = None
                                                   /\ content[src][j] # None
       IN /\ \/ /\ J = {} \/ movable(J)
                /\ content' = Moved(content, src, dst, J, b)
                /\ split' = IF dst = jobstores[b] THEN split ELSE split \cup J
                /\ UNCHANGED faults
             \/ \E S \in SUBSET J : \E i \in J \ S :
                  /\ S = {} \/ movable(S)
                  /\ LET M == Moved(Renamed(src, i, b), src, dst, S, b) IN
                     \/ /\ content[dst][i] # None
                        /\ content' = M
                        /\ UNCHANGED faults
                     \/ /\ content[dst][i] = None
                        /\ \E adds \in Write(dst) \ {"done"} :
                              /\ content' = IF Takes(adds)
                                            THEN Added(M, dst, i, b) ELSE M
                              /\ Count(adds)
                     \/ /\ content[dst][i] = None /\ content[src][i] = None
                        /\ content' = Added(M, dst, i, b)
                        /\ UNCHANGED faults
                     \/ /\ movable({i})
                        /\ \E removes \in Write(src) \ {"done"} :
                              /\ content' = LET A == Added(M, dst, i, b) IN
                                            IF Takes(removes)
                                            THEN Removed(A, src, i) ELSE A
                              /\ Count(removes)
                  /\ split' = split \cup {i}
                                 \cup IF dst = jobstores[b] THEN {} ELSE S
          /\ lost' = IF dst \in Live THEN lost ELSE lost \cup J
    /\ Ends(c)
    /\ UNCHANGED <<jobstores, executors, rows, added, restarts, held, gone,
                   unsettled>>

\* _migrate_jobstore_from_config(alias) reads the row before it takes the
\* lock ...
Migrate(c) ==
    /\ \E a \in Aliases :
          /\ rows["jobstore"][a] # None
          /\ Begins(c, [op |-> "migrate", table |-> "jobstore", alias |-> a,
                        plugin |-> rows["jobstore"][a]])
          /\ Overlaps("jobstore", a)
    /\ UNCHANGED <<jobstores, executors, content, rows, added, faults, restarts,
                   held, gone, lost, split>>

\* Mutant: the new store replaces the old one however far the copying got.
SwappedAnyway(a, old, new) == [jobstores EXCEPT ![a] = new]

\* After a failed copy the old store stays.
AfterFailure(a, old, new) == jobstores

(***************************************************************************)
(* ... and copies every job to the store it describes; a job that is there *)
(* already or cannot be written ends the migration.  Then the new store    *)
(* replaces the old one, which is closed; a database keeps its jobs.       *)
(***************************************************************************)
MigrateLocked(c) ==
    /\ calls[c].op = "migrate"
    /\ LET a   == calls[c].alias
           old == jobstores[a]
           new == StoreFor(calls[c].plugin)
           K   == IF new \in Memories THEN [content EXCEPT ![new] = Empty]
                                      ELSE content
           copied(S) == [K EXCEPT ![new] = [j \in Jobs |->
                            IF j \in S THEN content[old][j] ELSE @[j]]]
           free(S) == \A j \in S : K[new][j] = None
       IN \/ /\ old = None
             /\ UNCHANGED <<jobstores, content, faults, split, unsettled>>
          \/ /\ old # None /\ free(JobsIn(old))
             /\ content' = Closed(copied(JobsIn(old)), old)
             /\ jobstores' = [jobstores EXCEPT ![a] = new]
             /\ split' = IF old \in Databases THEN split \cup JobsIn(old) ELSE split
             /\ unsettled' = IF /\ Configuring("jobstore", a) = {c}
                                /\ calls[c].plugin = rows["jobstore"][a]
                             THEN unsettled \ {<<"jobstore", a>>} ELSE unsettled
             /\ UNCHANGED faults
          \/ /\ old # None
             /\ \E S \in SUBSET JobsIn(old) : \E i \in JobsIn(old) \ S :
                  /\ free(S)
                  /\ \/ /\ ~free({i})
                        /\ content' = Closed(copied(S), new)
                        /\ UNCHANGED faults
                     \/ /\ free({i})
                        /\ \E result \in Write(new) \ {"done"} :
                              /\ content' = Closed(copied(
                                    IF Takes(result) THEN S \cup {i} ELSE S), new)
                              /\ Count(result)
                  /\ split' = split \cup S \cup {i}
             /\ jobstores' = AfterFailure(a, old, new)
             /\ UNCHANGED unsettled
    /\ Ends(c)
    /\ UNCHANGED <<executors, rows, added, restarts, held, gone, lost>>
-----------------------------------------------------------------------------
(* Configuring job stores: api/routers/components.py.                      *)

Job(op, table, a, plugin) ==
    [op |-> op, table |-> table, alias |-> a, plugin |-> plugin]

\* POST: the store is registered under a free alias ...
ConfigureStore(c) ==
    /\ \E a \in Aliases, plugin \in StorePlugins :
          /\ jobstores[a] = None
          /\ Begins(c, Job("configure", "jobstore", a, plugin))
          /\ jobstores' = [jobstores EXCEPT ![a] = StoreFor(plugin)]
          /\ content' = IF plugin = "memory"
                        THEN [content EXCEPT ![StoreFor(plugin)] = Empty]
                        ELSE content
          /\ Overlaps("jobstore", a)
    /\ UNCHANGED <<executors, rows, added, faults, restarts, held, gone, lost,
                   split>>

\* PUT: the new configuration is tried out, under the lock ...
CheckStore(c) ==
    /\ \E a \in Aliases, plugin \in StorePlugins :
          /\ jobstores[a] # None
          /\ Begins(c, Job("put", "jobstore", a, plugin))
          /\ Overlaps("jobstore", a)
    /\ UNCHANGED <<jobstores, executors, content, rows, added, faults, restarts,
                   held, gone, lost, split>>

(***************************************************************************)
(* ... and saved: save_jobstore_config and save_executor_config write the  *)
(* row, new or not; update_jobstore_config only one that is there.  The    *)
(* live store stays what it was until it is migrated.  The metadata        *)
(* database may be locked.                                                 *)
(***************************************************************************)
Save(c) ==
    /\ calls[c].op \in {"configure", "put", "configure_executor", "put_executor"}
    /\ LET t == calls[c].table
           a == calls[c].alias
       IN \/ /\ calls[c].op = "put" /\ rows[t][a] = None
             /\ UNCHANGED <<rows, faults, unsettled>>
          \/ /\ calls[c].op = "put" => rows[t][a] # None
             /\ rows' = [rows EXCEPT ![t][a] = calls[c].plugin]
             /\ unsettled' = IF calls[c].op = "put" /\ jobstores[a] # None
                                /\ Backend(jobstores[a]) # calls[c].plugin
                             THEN unsettled \cup {<<t, a>>} ELSE unsettled
             /\ UNCHANGED faults
          \/ /\ faults < MaxFaults
             /\ faults' = faults + 1
             /\ unsettled' = unsettled \cup {<<t, a>>}
             /\ UNCHANGED rows
    /\ Ends(c)
    /\ UNCHANGED <<jobstores, executors, content, added, restarts, held, gone,
                   lost, split>>

\* Mutant: the default can be removed, too.
AnyAlias == Aliases

Removable == Aliases \ {"default"}

\* DELETE: refused while the store holds jobs, which are counted first ...
CountJobs(c) ==
    /\ \E a \in Removable :
          /\ jobstores[a] # None => JobsIn(jobstores[a]) = {}
          /\ Begins(c, Job("delete", "jobstore", a, None))
          /\ Overlaps("jobstore", a)
    /\ UNCHANGED <<jobstores, executors, content, rows, added, faults, restarts,
                   held, gone, lost, split>>

\* ... then it is taken off its alias, if it is there, and closed ...
DeleteStore(c) ==
    /\ calls[c].op = "delete"
    /\ LET a == calls[c].alias
           s == jobstores[a]
       IN \/ s = None /\ Ends(c) /\ UNCHANGED <<jobstores, content, lost>>
          \/ /\ s # None
             /\ jobstores' = [jobstores EXCEPT ![a] = None]
             /\ content' = Closed(content, s)
             /\ lost' = lost \cup JobsIn(s)
             /\ Continues(c, Job("deleted", "jobstore", a, None))
    /\ UNCHANGED <<executors, rows, added, faults, restarts, held, gone, split,
                   unsettled>>

\* Mutant: the row stays, and the component comes back with a restart.
RowKept(t, a) == rows

RowRemoved(t, a) == [rows EXCEPT ![t][a] = None]

\* ... and its row is removed.
RemoveRow(c) ==
    /\ calls[c].op \in {"deleted", "deleted_executor"}
    /\ LET t == calls[c].table
           a == calls[c].alias
       IN \/ /\ rows' = RowRemoved(t, a)
             /\ UNCHANGED <<faults, unsettled>>
          \/ /\ faults < MaxFaults
             /\ faults' = faults + 1
             /\ unsettled' = unsettled \cup {<<t, a>>}
             /\ UNCHANGED rows
    /\ Ends(c)
    /\ UNCHANGED <<jobstores, executors, content, added, restarts, held, gone,
                   lost, split>>
-----------------------------------------------------------------------------
(* Configuring executors.                                                  *)

\* POST: add_executor, then Save.
ConfigureExecutor(c) ==
    /\ \E a \in Aliases, plugin \in ExecutorPlugins :
          /\ executors[a] = None
          /\ Begins(c, Job("configure_executor", "executor", a, plugin))
          /\ executors' = [executors EXCEPT ![a] = plugin]
          /\ Overlaps("executor", a)
    /\ UNCHANGED <<jobstores, content, rows, added, faults, restarts, held, gone,
                   lost, split>>

\* PUT: update_executor replaces the live one at once, then Save.
UpdateExecutor(c) ==
    /\ \E a \in Aliases, plugin \in ExecutorPlugins :
          /\ executors[a] # None
          /\ Begins(c, Job("put_executor", "executor", a, plugin))
          /\ executors' = [executors EXCEPT ![a] = plugin]
          /\ Overlaps("executor", a)
    /\ UNCHANGED <<jobstores, content, rows, added, faults, restarts, held, gone,
                   lost, split>>

\* DELETE: refused while a job that some store holds names the executor ...
CountReferences(c) ==
    /\ \E a \in Removable :
          /\ \A j \in Jobs : Find(j) # None => Executor[j] # a
          /\ Begins(c, Job("delete_executor", "executor", a, None))
          /\ Overlaps("executor", a)
    /\ UNCHANGED <<jobstores, executors, content, rows, added, faults, restarts,
                   held, gone, lost, split>>

\* ... then removed, if it is there, and RemoveRow.
DeleteExecutor(c) ==
    /\ calls[c].op = "delete_executor"
    /\ LET a == calls[c].alias IN
          \/ executors[a] = None /\ Ends(c) /\ UNCHANGED executors
          \/ /\ executors[a] # None
             /\ executors' = [executors EXCEPT ![a] = None]
             /\ Continues(c, Job("deleted_executor", "executor", a, None))
    /\ UNCHANGED <<jobstores, content, rows, added, faults, restarts, ghosts>>
-----------------------------------------------------------------------------
(* Restart and specification.                                              *)

\* Every row but the default's, whose instance is the one the constructor
\* made, is registered anew; a memory store comes back empty.
Restored(row) ==
    LET n == CHOOSE f \in [1 .. 2 -> Memories] : f[1] # f[2] IN
    [a \in Aliases |-> IF row[a] # "memory" THEN row[a]
                       ELSE n[IF a = "default" THEN 1 ELSE 2]]

Volatile == {j \in Jobs : \A s \in Live : s \in Databases => content[s][j] = None}

(***************************************************************************)
(* The process ends at any moment, its requests and memory stores with it. *)
(* A new Scheduler is made with a memory store and a thread pool under     *)
(* "default", to which restore_component_configs applies the rows; those   *)
(* of "default" are seeded, so both are there.                             *)
(***************************************************************************)
Restart ==
    /\ restarts < MaxRestarts
    /\ restarts' = restarts + 1
    /\ jobstores' = Restored(rows["jobstore"])
    /\ executors' = rows["executor"]
    /\ content' = [s \in Stores |-> IF s \in Memories THEN Empty ELSE content[s]]
    /\ calls' = [c \in Requests |-> Idle]
    /\ lost' = lost \cup Volatile
                    \cup UNION {JobsIn(jobstores[a]) : a \in {b \in Aliases :
                           /\ jobstores[b] # None
                           /\ Backend(jobstores[b]) # rows["jobstore"][b]
                           /\ \/ <<"jobstore", b>> \in unsettled
                              \/ Configuring("jobstore", b) # {}}}
    /\ unsettled' = {}
    /\ UNCHANGED <<rows, added, requests, faults, held, gone, split>>

Init ==
    /\ jobstores = Restored([a \in Aliases |-> IF a = "default" THEN "memory"
                                                                ELSE None])
    /\ executors = [a \in Aliases |-> IF a = "default" THEN "threadpool" ELSE None]
    /\ rows = [jobstore |-> [a \in Aliases |-> IF a = "default" THEN "memory"
                                                                ELSE None],
               executor |-> executors]
    /\ content = [s \in Stores |-> Empty]
    /\ calls = [c \in Requests |-> Idle]
    /\ added = {}
    /\ requests = 0 /\ faults = 0 /\ restarts = 0
    /\ held = {} /\ gone = {} /\ lost = {} /\ split = {} /\ unsettled = {}

Next ==
    \/ \E c \in Requests :
          \/ AddJob(c) \/ AddJobLocked(c) \/ RemoveJob(c) \/ MoveJob(c)
          \/ MigrateTwo(c) \/ MigrateTwoLocked(c)
          \/ Migrate(c) \/ MigrateLocked(c)
          \/ ConfigureStore(c) \/ CheckStore(c) \/ Save(c)
          \/ CountJobs(c) \/ DeleteStore(c) \/ RemoveRow(c)
          \/ ConfigureExecutor(c) \/ UpdateExecutor(c)
          \/ CountReferences(c) \/ DeleteExecutor(c)
    \/ Restart

Spec == Init /\ [][Next]_vars
-----------------------------------------------------------------------------
(* Properties.                                                             *)

\* What a request remembers between its steps.
CallTypes ==
    {Idle}
    \cup [op : {"add_job"}, job : Jobs, alias : Aliases, store : Stores]
    \cup [op : {"migrate_two"}, alias : Aliases, store : Stores, target : Stores,
          jobs : SUBSET Jobs]
    \cup [op : {"configure", "put", "migrate"}, table : {"jobstore"},
          alias : Aliases, plugin : StorePlugins]
    \cup [op : {"delete", "deleted"}, table : {"jobstore"},
          alias : {"extra"}, plugin : {None}]
    \cup [op : {"configure_executor", "put_executor"}, table : {"executor"},
          alias : Aliases, plugin : ExecutorPlugins]
    \cup [op : {"delete_executor", "deleted_executor"}, table : {"executor"},
          alias : {"extra"}, plugin : {None}]

\* There is always a default store and a default executor, with a row each;
\* every store a job can be found in is a store (Scheduler.__init__,
\* _ensure_default_component_configs, remove_jobstore, remove_executor).
TypeOK ==
    /\ jobstores \in [Aliases -> Stores \cup {None}]
    /\ executors \in [Aliases -> ExecutorPlugins \cup {None}]
    /\ content \in [Stores -> [Jobs -> Aliases \cup {None}]]
    /\ rows \in [jobstore : [Aliases -> StorePlugins \cup {None}],
                executor : [Aliases -> ExecutorPlugins \cup {None}]]
    /\ calls \in [Requests -> CallTypes]
    /\ {jobstores["default"], executors["default"], rows["jobstore"]["default"],
        rows["executor"]["default"]} \cap {None} = {}
    /\ {held, gone, lost, split, added} \subseteq SUBSET Jobs
    /\ held \subseteq added /\ gone \subseteq added
    /\ unsettled \subseteq {"jobstore", "executor"} \X Aliases
    /\ {requests, faults, restarts} \subseteq Nat

(***************************************************************************)
(* A job that add_job accepted and nobody removed is found in a registered *)
(* store, whatever was migrated, exchanged or restarted since.  It may be  *)
(* lost only                                                               *)
(*   - when update_job removed it and could not add it to the other store; *)
(*   - when add_job or migrate_jobstore wrote it to a store that had been  *)
(*     replaced since it was looked up;                                    *)
(*   - when it was added to a store whose jobs had been counted already,   *)
(*     before that store was removed;                                      *)
(*   - by a restart, from a memory store, or from one whose row described  *)
(*     another store because it was not migrated or not saved yet.         *)
(* In particular a failed migration loses nothing: "The old store is still *)
(* intact" (core/scheduler.py:340).                                        *)
(***************************************************************************)
NoJobLost == \A j \in held \ lost : Find(j) # None

(***************************************************************************)
(* update_job, remove_job and pause_job find a job in one store and work   *)
(* on the store of the alias it names.  Those are the same, or hold it     *)
(* both, unless a migration or move was cut short or left a copy behind.   *)
(***************************************************************************)
Locatable ==
    \A j \in held \ (lost \cup split) : content[StoreOf(content[Find(j)][j])][j] # None

(***************************************************************************)
(* A removed job does not come back: no registered store holds it, unless  *)
(* a migration or move was cut short or left a copy behind.                *)
(***************************************************************************)
StaysRemoved == \A j \in gone \ split : Find(j) = None

(***************************************************************************)
(* What a restart would restore is what is there now, for every alias that *)
(* no request is working on.  Excepted are a job store that was given      *)
(* another configuration and not migrated yet, a row that could not be     *)
(* written, and an alias that two requests worked on at a time.            *)
(***************************************************************************)
RestoredAsLive ==
    \A a \in Aliases :
      /\ Configuring("jobstore", a) = {} /\ <<"jobstore", a>> \notin unsettled =>
            rows["jobstore"][a] = IF jobstores[a] = None THEN None
                                  ELSE Backend(jobstores[a])
      /\ Configuring("executor", a) = {} /\ <<"executor", a>> \notin unsettled =>
            rows["executor"][a] = executors[a]

(***************************************************************************)
(* Why these hold, inductively.  First, the copies of a job: a job is in   *)
(* one store at most, until a migration or move leaves a copy behind.      *)
(***************************************************************************)
Adding == {c \in Requests : calls[c].op = "add_job"}

\* The jobs that add_job wrote, or gave up writing.
Placed == added \ {calls[c].job : c \in Adding}

\* A job is in one store at most, unless a failed move split it, a removed job
\* is in none, and each job is added by one call, which writes it at its end.
CopiesInv ==
    /\ \A c \in Adding : calls[c].job \in added
    /\ \A c, d \in Adding : calls[c].job = calls[d].job => c = d
    /\ \A s \in Stores : JobsIn(s) \subseteq Placed
    /\ held \cup gone \subseteq Placed
    /\ \A c \in Requests :
           calls[c].op = "migrate_two" => calls[c].jobs \subseteq Placed
    /\ \A s \in Stores : \A j \in JobsIn(s) \ split :
           /\ j \notin gone
           /\ \A t \in Stores : j \in JobsIn(t) => s = t

(***************************************************************************)
(* Second, the rows: while no two requests meet at an alias, what a request*)
(* has done to the live component so far is what it will write to the row. *)
(***************************************************************************)
InStore(a) == IF jobstores[a] = None THEN None ELSE Backend(jobstores[a])

StoreAgrees(a) ==
    /\ Configuring("jobstore", a) = {} => rows["jobstore"][a] = InStore(a)
    /\ \A c, d \in Configuring("jobstore", a) : c = d
    /\ \A c \in Configuring("jobstore", a) :
          /\ calls[c].op \in {"put", "delete", "migrate"} =>
                rows["jobstore"][a] = InStore(a)
          /\ calls[c].op = "migrate" => rows["jobstore"][a] = calls[c].plugin
          /\ calls[c].op = "configure" => InStore(a) = calls[c].plugin
          /\ calls[c].op = "deleted" => InStore(a) = None

ExecutorAgrees(a) ==
    /\ Configuring("executor", a) = {} => rows["executor"][a] = executors[a]
    /\ \A c, d \in Configuring("executor", a) : c = d
    /\ \A c \in Configuring("executor", a) :
          /\ calls[c].op = "delete_executor" => rows["executor"][a] = executors[a]
          /\ calls[c].op \in {"configure_executor", "put_executor"} =>
                executors[a] = calls[c].plugin
          /\ calls[c].op = "deleted_executor" => executors[a] = None

\* Rows and live components agree, up to the one request about their alias that
\* is under way, unless overlapping or failed requests unsettled them.
RowsInv ==
    \A a \in Aliases : /\ <<"jobstore", a>> \notin unsettled => StoreAgrees(a)
                       /\ <<"executor", a>> \notin unsettled => ExecutorAgrees(a)

(***************************************************************************)
(* Third, the jobs that are held: each is in a registered store, and in    *)
(* that of the alias it names.  No two aliases share a memory store.       *)
(***************************************************************************)
Apart == jobstores["default"] = jobstores["extra"] =>
             jobstores["default"] \notin Memories

Named ==
    \A j \in held \ (lost \cup split) : \A s \in Live :
        j \in JobsIn(s) => jobstores[content[s][j]] = s

\* A job that was added is in a live store, which its own alias names, unless
\* it was lost or split; no memory store has two aliases.
JobsInv == Apart /\ NoJobLost /\ Named

\* All of it: copies of jobs, saved rows, live components and the aliases that
\* jobs name fit each other, whatever requests overlapped, failed or were cut
\* off by a restart (scheduler.py, api/routers/components.py).
RegistryInv == TypeOK /\ CopiesInv /\ RowsInv /\ JobsInv
=============================================================================
