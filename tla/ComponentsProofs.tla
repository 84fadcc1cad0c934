--------------------------- MODULE ComponentsProofs ---------------------------
(***************************************************************************)
(* Theorems about Components: whatever requests overlap, whatever writes   *)
(* fail and however often the process is restarted, a job that was         *)
(* accepted is kept, where its alias says, a removed one stays removed,    *)
(* and the saved configuration describes the live one, for every set of    *)
(* jobs, databases, plugins and requests and for every bound.              *)
(***************************************************************************)
EXTENDS Components, FiniteSetTheorems, TLAPS

USE DEF None

-----------------------------------------------------------------------------
(* Instances of memory stores.                                             *)

LEMMA ImageSmall ==
    ASSUME NEW S, IsFiniteSet(S), NEW f, DOMAIN f = S
    PROVE  LET T == {f[x] : x \in S} IN
           IsFiniteSet(T) /\ Cardinality(T) <= Cardinality(S)
<1> DEFINE T == {f[x] : x \in S}
           g == [x \in S |-> f[x]]
<1>1. g \in Surjection(S, T)
    BY DEF Surjection
<1>2. IsFiniteSet(T) /\ Cardinality(T) <= Cardinality(S)
    BY <1>1, FS_Surjection
<1>3. QED BY <1>2

LEMMA UnionSmall ==
    ASSUME NEW S, NEW T, IsFiniteSet(S), IsFiniteSet(T)
    PROVE  /\ IsFiniteSet(S \cup T)
           /\ Cardinality(S \cup T) <= Cardinality(S) + Cardinality(T)
<1>1. /\ IsFiniteSet(S \cup T) /\ IsFiniteSet(S \cap T)
      /\ Cardinality(S \cup T) = Cardinality(S) + Cardinality(T) - Cardinality(S \cap T)
    BY FS_Union, FS_Intersection
<1>2. /\ Cardinality(S) \in Nat /\ Cardinality(T) \in Nat
      /\ Cardinality(S \cap T) \in Nat
    BY <1>1, FS_CardinalityType
<1>3. QED BY <1>1, <1>2

\* A configuration of "memory" gets an instance that nobody uses.
LEMMA FreshMemory ==
    StoreFor("memory") \in Memories /\ StoreFor("memory") \notin Referenced
<1> DEFINE A == {jobstores["default"], jobstores["extra"]}
           D == {d \in Requests : calls[d].op \in JobOps}
           E == {d \in Requests : calls[d].op = "migrate_two"}
           f == [c \in D |-> calls[c].store]
           g == [c \in E |-> calls[c].target]
           B == {f[c] : c \in D}
           C == {g[c] : c \in E}
<1>1. IsFiniteSet(A) /\ Cardinality(A) <= 2
    <2>1. /\ IsFiniteSet({jobstores["default"]}) /\ IsFiniteSet({jobstores["extra"]})
          /\ Cardinality({jobstores["default"]}) = 1
          /\ Cardinality({jobstores["extra"]}) = 1
        BY FS_Singleton
    <2>2. A = {jobstores["default"]} \cup {jobstores["extra"]}
        OBVIOUS
    <2>3. QED BY <2>1, <2>2, UnionSmall
<1>2. /\ IsFiniteSet(D) /\ Cardinality(D) <= Cardinality(Requests)
      /\ IsFiniteSet(E) /\ Cardinality(E) <= Cardinality(Requests)
    BY FS_Subset, SetsAssumption
<1>3. IsFiniteSet(B) /\ Cardinality(B) <= Cardinality(D)
    <2> HIDE DEF D
    <2>1. DOMAIN f = D
        OBVIOUS
    <2> HIDE DEF f
    <2>2. QED BY <1>2, <2>1, ImageSmall
<1>4. IsFiniteSet(C) /\ Cardinality(C) <= Cardinality(E)
    <2> HIDE DEF E
    <2>1. DOMAIN g = E
        OBVIOUS
    <2> HIDE DEF g
    <2>2. QED BY <1>2, <2>1, ImageSmall
<1>5. Referenced \subseteq (A \cup B) \cup C
    BY DEF Referenced, Live, Aliases
<1> HIDE DEF A, B, C, D, E
<1>6. /\ IsFiniteSet(A \cup B)
      /\ Cardinality(A \cup B) <= Cardinality(A) + Cardinality(B)
      /\ IsFiniteSet((A \cup B) \cup C)
      /\ Cardinality((A \cup B) \cup C) <= Cardinality(A \cup B) + Cardinality(C)
    BY <1>1, <1>3, <1>4, UnionSmall
<1>7. /\ Cardinality(A) \in Nat /\ Cardinality(B) \in Nat /\ Cardinality(C) \in Nat
      /\ Cardinality(D) \in Nat /\ Cardinality(E) \in Nat
      /\ Cardinality(Requests) \in Nat /\ Cardinality(Memories) \in Nat
      /\ Cardinality(A \cup B) \in Nat /\ Cardinality((A \cup B) \cup C) \in Nat
    BY <1>1, <1>2, <1>3, <1>4, <1>6, FS_CardinalityType, SetsAssumption,
       MemoriesAssumption
<1>8. Cardinality((A \cup B) \cup C) < Cardinality(Memories)
    BY <1>1, <1>2, <1>3, <1>4, <1>6, <1>7, MemoriesAssumption
<1>9. \E m \in Memories : m \notin Referenced
    <2>1. SUFFICES ASSUME Memories \subseteq (A \cup B) \cup C PROVE FALSE
        BY <1>5
    <2>2. Cardinality(Memories) <= Cardinality((A \cup B) \cup C)
        BY <2>1, <1>6, FS_Subset
    <2>3. QED BY <2>2, <1>7, <1>8
<1>10. QED BY <1>9 DEF StoreFor

\* A restart makes two of them.
LEMMA TwoMemories == \E f \in [1 .. 2 -> Memories] : f[1] # f[2]
<1>1. Cardinality(Memories) \in Nat /\ Cardinality(Requests) \in Nat
    BY MemoriesAssumption, SetsAssumption, FS_CardinalityType
<1>2. Cardinality(Memories) # 0 /\ Cardinality(Memories) # 1
    BY <1>1, MemoriesAssumption
<1>3. PICK m \in Memories : TRUE
    BY <1>2, FS_EmptySet, MemoriesAssumption
<1>4. PICK n \in Memories : n # m
    <2>1. SUFFICES ASSUME Memories = {m} PROVE FALSE
        BY <1>3
    <2>2. QED BY <2>1, <1>2, FS_Singleton
<1> DEFINE f == [i \in 1 .. 2 |-> IF i = 1 THEN m ELSE n]
<1>5. f \in [1 .. 2 -> Memories] /\ f[1] # f[2]
    BY <1>4
<1>6. QED BY <1>5

LEMMA RestoredStores ==
    ASSUME NEW row \in [Aliases -> StorePlugins \cup {None}]
    PROVE  /\ Restored(row) \in [Aliases -> Stores \cup {None}]
           /\ \A a \in Aliases : IF row[a] = "memory" THEN Restored(row)[a] \in Memories
                                 ELSE Restored(row)[a] = row[a]
           /\ Restored(row)["default"] = Restored(row)["extra"] =>
                  Restored(row)["default"] \notin Memories
<1> DEFINE n == CHOOSE f \in [1 .. 2 -> Memories] : f[1] # f[2]
<1>1. n \in [1 .. 2 -> Memories] /\ n[1] # n[2]
    BY TwoMemories
<1>2. Restored(row) = [a \in Aliases |-> IF row[a] # "memory" THEN row[a]
                                         ELSE n[IF a = "default" THEN 1 ELSE 2]]
    BY DEF Restored
<1> HIDE DEF n
<1>3. n[1] \in Memories /\ n[2] \in Memories
    BY <1>1
<1>4. /\ Databases \cap Memories = {} /\ "memory" \notin Databases \cup Memories
      /\ None \notin Stores
    BY SetsAssumption
<1>5. \A a \in Aliases : row[a] = "memory" \/ row[a] = None \/ row[a] \in Databases
    BY DEF StorePlugins
<1>6. QED BY <1>1, <1>2, <1>3, <1>4, <1>5 DEF Aliases, Stores

LEMMA Constants ==
    /\ Databases \cap Memories = {} /\ "memory" \notin Stores /\ None \notin Stores
    /\ None \notin StorePlugins /\ None \notin ExecutorPlugins /\ None \notin Aliases
    /\ "default" \in Aliases /\ "extra" \in Aliases
    /\ \A s \in Stores : Backend(s) \in StorePlugins
    /\ \A s \in Databases : Backend(s) = s
    /\ \A s \in Memories : Backend(s) = "memory"
BY SetsAssumption DEF Stores, StorePlugins, ExecutorPlugins, Aliases, Backend

LEMMA StoreForType ==
    ASSUME NEW plugin \in StorePlugins
    PROVE  /\ StoreFor(plugin) \in Stores /\ Backend(StoreFor(plugin)) = plugin
           /\ plugin # "memory" => StoreFor(plugin) = plugin /\ plugin \in Databases
           /\ StoreFor(plugin) \in Memories => /\ plugin = "memory"
                                               /\ StoreFor(plugin) \notin Referenced
<1>1. CASE plugin = "memory"
    BY <1>1, FreshMemory, Constants DEF Stores
<1>2. CASE plugin # "memory"
    BY <1>2, Constants DEF Stores, StorePlugins, StoreFor
<1>3. QED BY <1>1, <1>2

-----------------------------------------------------------------------------
(* Types.                                                                  *)

LEMMA CallFields ==
    ASSUME TypeOK, NEW c \in Requests
    PROVE  /\ calls[c] \in CallTypes
           /\ calls[c].op = "add_job" =>
                  /\ calls[c].job \in Jobs /\ calls[c].alias \in Aliases
                  /\ calls[c].store \in Stores
           /\ calls[c].op = "migrate_two" =>
                  /\ calls[c].alias \in Aliases /\ calls[c].store \in Stores
                  /\ calls[c].target \in Stores /\ calls[c].jobs \in SUBSET Jobs
           /\ calls[c].op \in {"configure", "put", "migrate"} =>
                  /\ calls[c].table = "jobstore" /\ calls[c].alias \in Aliases
                  /\ calls[c].plugin \in StorePlugins
           /\ calls[c].op \in {"delete", "deleted"} =>
                  calls[c].table = "jobstore" /\ calls[c].alias = "extra"
           /\ calls[c].op \in {"configure_executor", "put_executor"} =>
                  /\ calls[c].table = "executor" /\ calls[c].alias \in Aliases
                  /\ calls[c].plugin \in ExecutorPlugins
           /\ calls[c].op \in {"delete_executor", "deleted_executor"} =>
                  calls[c].table = "executor" /\ calls[c].alias = "extra"
           /\ calls[c].op \in {"idle", "add_job", "migrate_two", "configure", "put",
                               "migrate", "delete", "deleted", "configure_executor",
                               "put_executor", "delete_executor", "deleted_executor"}
<1>1. calls[c] \in CallTypes
    BY DEF TypeOK
<1>2. QED BY <1>1 DEF CallTypes, Idle

LEMMA LiveStores ==
    ASSUME TypeOK
    PROVE  /\ Live \subseteq Stores /\ jobstores["default"] \in Live
           /\ \A a \in Aliases : jobstores[a] # None => jobstores[a] \in Live
           /\ \A s \in Live : \E a \in Aliases : s = jobstores[a]
           /\ \A a \in Aliases : StoreOf(a) \in Live
           /\ \A a \in Aliases : jobstores[a] \in Stores \cup {None}
<1>1. /\ \A a \in Aliases : jobstores[a] \in Stores \cup {None}
      /\ jobstores["default"] # None
    BY DEF TypeOK
<1>2. "default" \in Aliases
    BY Constants
<1>3. Live = {jobstores[a] : a \in Aliases} \ {None}
    BY DEF Live
<1>4. QED BY <1>1, <1>2, <1>3 DEF StoreOf

LEMMA HeldStores ==
    ASSUME TypeOK, NEW c \in Requests, calls[c].op \in JobOps
    PROVE  calls[c].store \in Referenced
BY DEF Referenced

\* _find_job finds a job exactly if a registered store holds it.
LEMMA FindLive ==
    ASSUME TypeOK, NEW j \in Jobs
    PROVE  /\ Find(j) # None => Find(j) \in Live /\ j \in JobsIn(Find(j))
           /\ \A s \in Live : j \in JobsIn(s) => Find(j) # None
<1>1. /\ jobstores["default"] # None
      /\ jobstores["default"] \in Stores \cup {None}
      /\ jobstores["extra"] \in Stores \cup {None}
    BY Constants DEF TypeOK
<1>2. Live = {jobstores["default"], jobstores["extra"]} \ {None}
    BY DEF Live, Aliases
<1>3. QED BY <1>1, <1>2 DEF Find, JobsIn

\* What the assignments to the stores and to the requests keep.
ContentType == [Stores -> [Jobs -> Aliases \cup {None}]]

LEMMA ContentKept ==
    ASSUME NEW K \in ContentType, NEW s \in Stores, NEW j \in Jobs, NEW a \in Aliases
    PROVE  /\ Added(K, s, j, a) \in ContentType /\ Removed(K, s, j) \in ContentType
           /\ Closed(K, s) \in ContentType /\ [K EXCEPT ![s] = Empty] \in ContentType
BY DEF ContentType, Added, Removed, Closed, Empty

LEMMA RenamedType ==
    ASSUME content \in ContentType, NEW s \in Stores, NEW j \in Jobs, NEW a \in Aliases
    PROVE  Renamed(s, j, a) \in ContentType
BY DEF ContentType, Renamed

LEMMA MovedType ==
    ASSUME NEW K \in ContentType, NEW src \in Stores, NEW dst \in Stores,
           NEW S, NEW b \in Aliases
    PROVE  Moved(K, src, dst, S, b) \in ContentType
<1> DEFINE L == [K EXCEPT ![dst] = [j \in Jobs |-> IF j \in S THEN b ELSE @[j]]]
<1>1. L \in ContentType
    BY DEF ContentType
<1>2. Moved(K, src, dst, S, b) =
          [L EXCEPT ![src] = [j \in Jobs |-> IF j \in S THEN None ELSE @[j]]]
    BY DEF Moved
<1> HIDE DEF L
<1>3. QED BY <1>1, <1>2 DEF ContentType

LEMMA CallsType ==
    ASSUME TypeOK, NEW c \in Requests, NEW call \in CallTypes,
           calls' = [calls EXCEPT ![c] = call]
    PROVE  calls' \in [Requests -> CallTypes]
BY DEF TypeOK

LEMMA JobType ==
    /\ Idle \in CallTypes
    /\ \A op \in {"configure", "put", "migrate"}, a \in Aliases, plugin \in StorePlugins :
          Job(op, "jobstore", a, plugin) \in CallTypes
    /\ \A op \in {"delete", "deleted"} : Job(op, "jobstore", "extra", None) \in CallTypes
    /\ \A op \in {"configure_executor", "put_executor"}, a \in Aliases,
          plugin \in ExecutorPlugins : Job(op, "executor", a, plugin) \in CallTypes
    /\ \A op \in {"delete_executor", "deleted_executor"} :
          Job(op, "executor", "extra", None) \in CallTypes
BY DEF CallTypes, Job

LEMMA OverlapsType ==
    ASSUME TypeOK, NEW t \in {"jobstore", "executor"}, NEW a \in Aliases, Overlaps(t, a)
    PROVE  unsettled' \subseteq {"jobstore", "executor"} \X Aliases
BY DEF TypeOK, Overlaps

LEMMA CountType ==
    ASSUME TypeOK, NEW result, Count(result)
    PROVE  faults' \in Nat
BY DEF TypeOK, Count

\* The parts of the type invariant that a step can disturb.
LEMMA TypeKept ==
    ASSUME TypeOK,
           \/ UNCHANGED jobstores
           \/ /\ jobstores' \in [Aliases -> Stores \cup {None}]
              /\ jobstores'["default"] # None,
           \/ UNCHANGED executors
           \/ /\ executors' \in [Aliases -> ExecutorPlugins \cup {None}]
              /\ executors'["default"] # None,
           UNCHANGED content \/ content' \in ContentType,
           \/ UNCHANGED rows
           \/ \E t \in {"jobstore", "executor"}, a \in Aliases :
                 \/ a = "extra" /\ rows' = [rows EXCEPT ![t][a] = None]
                 \/ \E plugin \in IF t = "jobstore" THEN StorePlugins
                                                    ELSE ExecutorPlugins :
                       rows' = [rows EXCEPT ![t][a] = plugin],
           UNCHANGED calls \/ calls' \in [Requests -> CallTypes],
           UNCHANGED added \/ (added' \subseteq Jobs /\ added \subseteq added'),
           UNCHANGED held \/ held' \subseteq added',
           UNCHANGED gone \/ gone' \subseteq added',
           UNCHANGED lost \/ lost' \subseteq Jobs,
           UNCHANGED split \/ split' \subseteq Jobs,
           \/ UNCHANGED unsettled
           \/ unsettled' \subseteq {"jobstore", "executor"} \X Aliases,
           UNCHANGED requests \/ requests' \in Nat,
           UNCHANGED faults \/ faults' \in Nat,
           UNCHANGED restarts \/ restarts' \in Nat
    PROVE  TypeOK'
<1> DEFINE RowType == [jobstore : [Aliases -> StorePlugins \cup {None}],
                       executor : [Aliases -> ExecutorPlugins \cup {None}]]
<1>1. /\ rows \in RowType
      /\ rows["jobstore"]["default"] # None /\ rows["executor"]["default"] # None
    BY DEF TypeOK
<1>2. /\ rows' \in RowType
      /\ rows'["jobstore"]["default"] # None /\ rows'["executor"]["default"] # None
    BY <1>1, Constants
<1>3. /\ jobstores' \in [Aliases -> Stores \cup {None}]
      /\ executors' \in [Aliases -> ExecutorPlugins \cup {None}]
      /\ content' \in [Stores -> [Jobs -> Aliases \cup {None}]]
      /\ calls' \in [Requests -> CallTypes]
      /\ jobstores'["default"] # None /\ executors'["default"] # None
      /\ unsettled' \subseteq {"jobstore", "executor"} \X Aliases
      /\ requests' \in Nat /\ faults' \in Nat /\ restarts' \in Nat
    BY DEF TypeOK, ContentType
<1>4. /\ added' \subseteq Jobs /\ held' \subseteq added' /\ gone' \subseteq added'
      /\ lost' \subseteq Jobs /\ split' \subseteq Jobs
    BY DEF TypeOK
<1>5. QED BY <1>2, <1>3, <1>4 DEF TypeOK

LEMMA TypeParts ==
    ASSUME TypeOK
    PROVE  /\ jobstores \in [Aliases -> Stores \cup {None}]
           /\ executors \in [Aliases -> ExecutorPlugins \cup {None}]
           /\ jobstores["default"] # None /\ executors["default"] # None
           /\ content \in ContentType /\ calls \in [Requests -> CallTypes]
           /\ {held, gone, lost, split, added} \subseteq SUBSET Jobs
           /\ held \subseteq added /\ gone \subseteq added
           /\ unsettled \subseteq {"jobstore", "executor"} \X Aliases
           /\ {requests, faults, restarts} \subseteq Nat
BY DEF TypeOK, ContentType

LEMMA TypeInit == Init => TypeOK
<1> SUFFICES ASSUME Init PROVE TypeOK
    OBVIOUS
<1> DEFINE row == [a \in Aliases |-> IF a = "default" THEN "memory" ELSE None]
<1>1. row \in [Aliases -> StorePlugins \cup {None}] /\ row["default"] = "memory"
    BY Constants DEF StorePlugins
<1>2. jobstores = Restored(row) /\ rows.jobstore = row
    BY DEF Init
<1> HIDE DEF row
<1>3. /\ jobstores \in [Aliases -> Stores \cup {None}]
      /\ jobstores["default"] \in Memories
    BY <1>1, <1>2, RestoredStores, Constants
<1>4. /\ executors \in [Aliases -> ExecutorPlugins \cup {None}]
      /\ executors["default"] # None
    BY Constants DEF Init, ExecutorPlugins
<1>5. /\ rows = [jobstore |-> row, executor |-> executors]
      /\ rows["jobstore"] = row /\ rows["executor"] = executors
    BY <1>2 DEF Init
<1>6. rows \in [jobstore : [Aliases -> StorePlugins \cup {None}],
                executor : [Aliases -> ExecutorPlugins \cup {None}]]
    BY <1>1, <1>4, <1>5
<1>7. jobstores["default"] # None /\ rows["jobstore"]["default"] # None
    BY <1>1, <1>3, <1>5, Constants DEF Stores
<1>8. /\ content \in [Stores -> [Jobs -> Aliases \cup {None}]]
      /\ calls \in [Requests -> CallTypes]
    BY JobType DEF Init, Empty
<1>9. /\ {held, gone, lost, split, added} \subseteq SUBSET Jobs
      /\ held \subseteq added /\ gone \subseteq added
      /\ unsettled \subseteq {"jobstore", "executor"} \X Aliases
      /\ {requests, faults, restarts} \subseteq Nat
    BY DEF Init
<1>10. QED BY <1>3, <1>4, <1>5, <1>6, <1>7, <1>8, <1>9 DEF TypeOK

\* The steps about jobs.
LEMMA TypeAddJob ==
    ASSUME TypeOK, NEW c \in Requests, AddJob(c)
    PROVE  TypeOK'
<1>1. PICK j \in Jobs \ added, a \in Aliases :
          /\ jobstores[a] # None
          /\ Begins(c, [op |-> "add_job", job |-> j, alias |-> a,
                        store |-> jobstores[a]])
          /\ added' = added \cup {j}
    BY DEF AddJob
<1>2. [op |-> "add_job", job |-> j, alias |-> a, store |-> jobstores[a]] \in CallTypes
    BY <1>1, TypeParts DEF CallTypes
<1>3. calls' \in [Requests -> CallTypes] /\ requests' \in Nat
    BY <1>1, <1>2, CallsType, TypeParts DEF Begins
<1>4. added' \subseteq Jobs /\ added \subseteq added'
    BY <1>1, TypeParts
<1>5. UNCHANGED <<jobstores, executors, content, rows, faults, restarts, held, gone,
                  lost, split, unsettled>>
    BY DEF AddJob, ghosts
<1>6. QED BY <1>3, <1>4, <1>5, TypeKept

\* What the locked part of add_job does, to the one job.
AddsOne(c, result) ==
    /\ calls[c].op = "add_job" /\ calls[c].job \in Jobs /\ calls[c].store \in Stores
    /\ calls[c].alias \in Aliases
    /\ content' = IF Takes(result)
                  THEN Added(content, calls[c].store, calls[c].job, calls[c].alias)
                  ELSE content
    /\ Count(result)
    /\ held' = IF result = "done" THEN held \cup {calls[c].job} ELSE held
    /\ lost' = IF calls[c].store \in Live THEN lost ELSE lost \cup {calls[c].job}
    /\ split' = IF calls[c].store = jobstores[calls[c].alias] THEN split
                                                ELSE split \cup {calls[c].job}

LEMMA AddsJob ==
    ASSUME TypeOK, NEW c \in Requests, AddJobLocked(c)
    PROVE  \E result : AddsOne(c, result)
BY CallFields DEF AddJobLocked, AddsOne

LEMMA TypeAddJobLocked ==
    ASSUME TypeOK, NEW c \in Requests, AddJobLocked(c),
           \A d \in Adding : calls[d].job \in added
    PROVE  TypeOK'
<1>1. PICK result : AddsOne(c, result)
    BY AddsJob
<1>2. content' \in ContentType /\ faults' \in Nat
    BY <1>1, ContentKept, CountType, TypeParts DEF AddsOne
<1>3. /\ held' \subseteq held \cup {calls[c].job} /\ lost' \subseteq lost \cup {calls[c].job}
      /\ split' \subseteq split \cup {calls[c].job} /\ calls[c].job \in added
    BY <1>1 DEF AddsOne, Adding
<1>4. calls' \in [Requests -> CallTypes] /\ requests' = requests
    BY CallsType, JobType DEF AddJobLocked, Ends
<1>5. UNCHANGED <<jobstores, executors, rows, added, restarts, gone, unsettled>>
    BY DEF AddJobLocked
<1>6. /\ held' \subseteq added' /\ lost' \subseteq Jobs /\ split' \subseteq Jobs
    BY <1>1, <1>3, <1>5, TypeParts DEF AddsOne
<1>7. QED BY <1>2, <1>4, <1>5, <1>6, TypeKept

\* What remove_job does, to the one job.
RemovesOne(j, s, result) ==
    /\ j \in Jobs /\ s \in Live /\ j \in JobsIn(s)
    /\ content' = IF Takes(result) THEN Removed(content, s, j) ELSE content
    /\ Count(result)
    /\ held' = IF Takes(result) THEN held \ {j} ELSE held
    /\ gone' = IF result = "done" THEN gone \cup {j} ELSE gone

LEMMA RemovesJob ==
    ASSUME TypeOK, NEW c \in Requests, RemoveJob(c)
    PROVE  \E j, s, result : RemovesOne(j, s, result)
<1>1. PICK j \in Jobs :
          /\ Find(j) # None
          /\ LET s == StoreOf(content[Find(j)][j]) IN
                /\ content[s][j] # None
                /\ \E result \in Write(s) :
                      /\ content' = IF Takes(result) THEN Removed(content, s, j)
                                                     ELSE content
                      /\ Count(result)
                      /\ held' = IF Takes(result) THEN held \ {j} ELSE held
                      /\ gone' = IF result = "done" THEN gone \cup {j} ELSE gone
    BY DEF RemoveJob
<1> DEFINE s == StoreOf(content[Find(j)][j])
<1>2. Find(j) \in Stores /\ j \in JobsIn(Find(j))
    BY <1>1, FindLive, LiveStores
<1>3. content[Find(j)][j] \in Aliases
    BY <1>2, TypeParts DEF JobsIn, ContentType
<1>4. s \in Live /\ j \in JobsIn(s)
    BY <1>1, <1>3, LiveStores DEF JobsIn
<1>5. QED BY <1>1, <1>4 DEF RemovesOne

LEMMA TypeRemoveJob ==
    ASSUME TypeOK, NEW c \in Requests, RemoveJob(c),
           \A s \in Stores : JobsIn(s) \subseteq Placed
    PROVE  TypeOK'
<1>1. PICK j, s, result : RemovesOne(j, s, result)
    BY RemovesJob
<1>2. s \in Stores /\ j \in added
    BY <1>1, LiveStores DEF RemovesOne, Placed
<1>3. content' \in ContentType /\ faults' \in Nat
    BY <1>1, <1>2, CountType, TypeParts
       DEF RemovesOne, Removed, ContentType
<1>4. held' \subseteq held /\ gone' \subseteq gone \cup {j}
    BY <1>1 DEF RemovesOne
<1>5. /\ requests' \in Nat
      /\ UNCHANGED <<jobstores, executors, rows, calls, added, restarts, lost, split,
                     unsettled>>
    BY TypeParts DEF RemoveJob, Single
<1>6. held' \subseteq added' /\ gone' \subseteq added'
    BY <1>2, <1>4, <1>5, TypeParts
<1>7. QED BY <1>3, <1>5, <1>6, TypeKept

(***************************************************************************)
(* What update_job does, to the one job.  A move that stopped leaves the   *)
(* job in either store or in both, which is left open here; a move that    *)
(* went on took it out of the store where it was found, for otherwise the  *)
(* new store would have been the one where it was found, which holds it    *)
(* already.                                                                *)
(***************************************************************************)
MovesOne(j, a) ==
    /\ j \in Jobs /\ a \in Aliases /\ Find(j) # None
    /\ content' \in ContentType /\ faults' \in Nat
    /\ \A s \in Stores, i \in Jobs : i # j => content'[s][i] = content[s][i]
    /\ \/ /\ split' = split \cup {j}
          /\ \A s \in Stores : content'[s][j] # None => j \in JobsIn(s)
          /\ \/ lost' = lost \cup {j}
             \/ lost' = lost /\ \A s \in Stores : j \in JobsIn(s) => content'[s][j] # None
       \/ /\ split' = split /\ jobstores[a] # None
          /\ \A s \in Stores : content'[s][j] # None =>
                s = jobstores[a] \/ (j \in JobsIn(s) /\ s # Find(j))
          /\ \/ lost' = lost \cup {j}
             \/ lost' = lost /\ content'[jobstores[a]][j] = a

LEMMA RenamedEffect ==
    ASSUME TypeOK, NEW s \in Stores, NEW j \in Jobs, NEW a \in Aliases
    PROVE  /\ Renamed(s, j, a) \in ContentType
           /\ \A t \in Stores, i \in Jobs :
                 /\ i # j => Renamed(s, j, a)[t][i] = content[t][i]
                 /\ Renamed(s, j, a)[t][i] # None <=> i \in JobsIn(t)
<1>1. content \in ContentType /\ a # None
    BY TypeParts, Constants
<1>2. QED BY <1>1 DEF Renamed, ContentType, JobsIn

LEMMA RemovedEffect ==
    ASSUME NEW K \in ContentType, NEW s \in Stores, NEW j \in Jobs
    PROVE  /\ Removed(K, s, j) \in ContentType
           /\ \A t \in Stores, i \in Jobs :
                 Removed(K, s, j)[t][i] = IF t = s /\ i = j THEN None ELSE K[t][i]
BY DEF Removed, ContentType

LEMMA AddedEffect ==
    ASSUME NEW K \in ContentType, NEW s \in Stores, NEW j \in Jobs, NEW a \in Aliases
    PROVE  /\ Added(K, s, j, a) \in ContentType
           /\ \A t \in Stores, i \in Jobs :
                 Added(K, s, j, a)[t][i] = IF t = s /\ i = j THEN a ELSE K[t][i]
BY DEF Added, ContentType

LEMMA MovesJob ==
    ASSUME TypeOK, NEW c \in Requests, MoveJob(c)
    PROVE  \E j, a : MovesOne(j, a)
<1>1. PICK j \in Jobs, a \in Aliases :
          /\ Find(j) # None
          /\ content[Find(j)][j] # a
          /\ LET old == StoreOf(content[Find(j)][j])
                 new == jobstores[a]
                 K   == Renamed(Find(j), j, a)
             IN \E removes \in Write(old) :
                  LET R == IF Takes(removes) THEN Removed(K, old, j) ELSE K
                      stops == removes # "done" \/ IF new = None THEN TRUE
                                                   ELSE R[new][j] # None
                  IN \/ /\ stops
                        /\ content' = R
                        /\ Count(removes)
                        /\ lost' = IF Takes(removes) THEN lost \cup {j} ELSE lost
                        /\ split' = split \cup {j}
                     \/ /\ ~stops
                        /\ \E adds \in Write(new) :
                              /\ content' = IF Takes(adds)
                                            THEN Added(R, new, j, a) ELSE R
                              /\ Count(adds)
                              /\ lost' = IF Takes(adds) THEN lost
                                                        ELSE lost \cup {j}
                              /\ UNCHANGED split
    BY DEF MoveJob
<1> DEFINE b   == content[Find(j)][j]
           old == StoreOf(b)
           new == jobstores[a]
           K   == Renamed(Find(j), j, a)
           R(removes) == IF Takes(removes) THEN Removed(K, old, j) ELSE K
           stops(removes) == removes # "done" \/ IF new = None THEN TRUE
                                                 ELSE R(removes)[new][j] # None
<1>2. Find(j) \in Live /\ Find(j) \in Stores /\ j \in JobsIn(Find(j))
    BY <1>1, FindLive, LiveStores
<1>3. b \in Aliases /\ b # a
    BY <1>1, <1>2, TypeParts DEF JobsIn, ContentType
<1>4. old \in Stores /\ new \in Stores \cup {None}
    BY <1>3, LiveStores
<1>5. /\ K \in ContentType
      /\ \A t \in Stores, i \in Jobs : /\ i # j => K[t][i] = content[t][i]
                                       /\ K[t][i] # None <=> i \in JobsIn(t)
    BY <1>2, RenamedEffect
<1>6. PICK removes :
          \/ /\ stops(removes)
             /\ content' = R(removes)
             /\ Count(removes)
             /\ lost' = IF Takes(removes) THEN lost \cup {j} ELSE lost
             /\ split' = split \cup {j}
          \/ /\ ~stops(removes)
             /\ \E adds : /\ content' = IF Takes(adds)
                                        THEN Added(R(removes), new, j, a) ELSE R(removes)
                          /\ Count(adds)
                          /\ lost' = IF Takes(adds) THEN lost ELSE lost \cup {j}
                          /\ UNCHANGED split
    BY <1>1
<1> HIDE DEF K
<1>7. /\ R(removes) \in ContentType
      /\ \A t \in Stores, i \in Jobs :
            R(removes)[t][i] = IF Takes(removes) /\ t = old /\ i = j THEN None ELSE K[t][i]
    BY <1>4, <1>5, RemovedEffect
<1> HIDE DEF R, old
<1>8. \A s \in Stores, i \in Jobs : i # j => R(removes)[s][i] = content[s][i]
    BY <1>5, <1>7
<1>9. CASE stops(removes)
    <2>1. /\ content' = R(removes) /\ Count(removes)
          /\ lost' = IF Takes(removes) THEN lost \cup {j} ELSE lost
          /\ split' = split \cup {j}
        BY <1>6, <1>9
    <2>2. \A s \in Stores : content'[s][j] # None => j \in JobsIn(s)
        BY <2>1, <1>5, <1>7
    <2>3. ~Takes(removes) => \A s \in Stores : j \in JobsIn(s) => content'[s][j] # None
        BY <2>1, <1>5, <1>7
    <2>4. QED
        BY <1>1, <1>7, <1>8, <2>1, <2>2, <2>3, CountType DEF MovesOne
<1>10. CASE ~stops(removes)
    <2>1. PICK adds : /\ content' = IF Takes(adds) THEN Added(R(removes), new, j, a)
                                                   ELSE R(removes)
                      /\ Count(adds)
                      /\ lost' = IF Takes(adds) THEN lost ELSE lost \cup {j}
                      /\ split' = split
        BY <1>6, <1>10
    <2>2. removes = "done" /\ new # None /\ R(removes)[new][j] = None /\ Takes(removes)
        BY <1>10 DEF Takes
    <2>3. old = Find(j)
        <3>1. PICK x \in Aliases : jobstores[x] = Find(j)
            BY <1>2, LiveStores
        <3>2. x = a \/ x = b
            BY <3>1, <1>3 DEF Aliases
        <3>3. CASE x = b
            BY <3>1, <3>3, <1>2, Constants, LiveStores DEF StoreOf, old
        <3>4. CASE x = a
            BY <3>1, <3>4, <1>2, <1>5, <1>7, <2>2
        <3>5. QED BY <3>2, <3>3, <3>4
    <2>4. \A s \in Stores : R(removes)[s][j] # None => j \in JobsIn(s) /\ s # Find(j)
        BY <1>5, <1>7, <2>2, <2>3
    <2>5. new \in Stores
        BY <1>4, <2>2
    <2>6. /\ content' \in ContentType
          /\ \A t \in Stores, i \in Jobs : content'[t][i] =
                 IF Takes(adds) /\ t = new /\ i = j THEN a ELSE R(removes)[t][i]
        BY <1>7, <2>1, <2>5, AddedEffect
    <2>7. faults' \in Nat
        BY <2>1, CountType
    <2>8. QED
        BY <1>1, <1>8, <2>1, <2>2, <2>4, <2>5, <2>6, <2>7 DEF MovesOne
<1>11. QED BY <1>9, <1>10

LEMMA TypeMoveJob ==
    ASSUME TypeOK, NEW c \in Requests, MoveJob(c)
    PROVE  TypeOK'
<1>1. PICK j, a : MovesOne(j, a)
    BY MovesJob
<1>2. /\ content' \in ContentType /\ faults' \in Nat
      /\ lost' \subseteq Jobs /\ split' \subseteq Jobs
    BY <1>1, TypeParts DEF MovesOne
<1>3. /\ requests' \in Nat
      /\ UNCHANGED <<jobstores, executors, rows, calls, added, restarts, held, gone,
                     unsettled>>
    BY TypeParts DEF MoveJob, Single
<1>4. QED BY <1>2, <1>3, TypeKept

LEMMA TypeMigrateTwo ==
    ASSUME TypeOK, NEW c \in Requests, MigrateTwo(c)
    PROVE  TypeOK'
<1>1. PICK a \in Aliases, b \in Aliases :
          /\ jobstores[a] # None /\ jobstores[b] # None
          /\ Begins(c, [op |-> "migrate_two", alias |-> b, store |-> jobstores[a],
                        target |-> jobstores[b], jobs |-> JobsIn(jobstores[a])])
    BY DEF MigrateTwo
<1>2. [op |-> "migrate_two", alias |-> b, store |-> jobstores[a],
       target |-> jobstores[b], jobs |-> JobsIn(jobstores[a])] \in CallTypes
    <2>1. JobsIn(jobstores[a]) \in SUBSET Jobs
        BY DEF JobsIn
    <2>2. jobstores[a] \in Stores /\ jobstores[b] \in Stores
        BY <1>1, TypeParts
    <2>3. QED BY <2>1, <2>2 DEF CallTypes
<1>3. calls' \in [Requests -> CallTypes] /\ requests' \in Nat
    BY <1>1, <1>2, CallsType, TypeParts DEF Begins
<1>4. QED BY <1>3, TypeKept DEF MigrateTwo, ghosts

(***************************************************************************)
(* What the locked part of migrate_jobstore does: the jobs of S are moved, *)
(* those of I (the one that stopped it, or none) are somewhere still.      *)
(***************************************************************************)
MovesMany(c, S, I) ==
    LET src == calls[c].store
        dst == calls[c].target
        b   == calls[c].alias
    IN /\ S \cup I \subseteq calls[c].jobs /\ S \cap I = {}
       /\ content' \in ContentType /\ faults' \in Nat
       /\ \A k \in Jobs \ (S \cup I) : \A s \in Stores : content'[s][k] = content[s][k]
       /\ \A k \in S :
             /\ src # dst /\ k \in JobsIn(src) /\ k \notin JobsIn(dst)
             /\ content'[dst][k] = b /\ content'[src][k] = None
             /\ \A s \in Stores \ {src, dst} : content'[s][k] = content[s][k]
       /\ \A k \in I : /\ \A s \in Stores : content'[s][k] # None =>
                                               k \in JobsIn(s) \/ s = dst
                       /\ \A s \in Stores : k \in JobsIn(s) =>
                             content'[s][k] # None \/ content'[dst][k] # None
       /\ split \cup I \subseteq split' /\ split' \subseteq Jobs
       /\ dst = jobstores[b] \/ S \subseteq split'
       /\ lost' = IF dst \in Live THEN lost ELSE lost \cup calls[c].jobs

LEMMA MovedEffect ==
    ASSUME NEW K \in ContentType, NEW src \in Stores, NEW dst \in Stores, src # dst,
           NEW S \in SUBSET Jobs, NEW b \in Aliases
    PROVE  /\ Moved(K, src, dst, S, b) \in ContentType
           /\ \A t \in Stores, i \in Jobs :
                 Moved(K, src, dst, S, b)[t][i] =
                     IF i \notin S THEN K[t][i]
                     ELSE IF t = src THEN None ELSE IF t = dst THEN b ELSE K[t][i]
BY DEF Moved, ContentType

LEMMA MovedNone ==
    ASSUME NEW K \in ContentType, NEW src \in Stores, NEW dst \in Stores, NEW b \in Aliases
    PROVE  /\ Moved(K, src, dst, {}, b) \in ContentType
           /\ \A t \in Stores, i \in Jobs : Moved(K, src, dst, {}, b)[t][i] = K[t][i]
<1> DEFINE L == [K EXCEPT ![dst] = [j \in Jobs |-> IF j \in {} THEN b ELSE @[j]]]
<1>1. L \in ContentType /\ \A t \in Stores, i \in Jobs : L[t][i] = K[t][i]
    BY DEF ContentType
<1>2. Moved(K, src, dst, {}, b) =
          [L EXCEPT ![src] = [j \in Jobs |-> IF j \in {} THEN None ELSE @[j]]]
    BY DEF Moved
<1> HIDE DEF L
<1>3. QED BY <1>1, <1>2 DEF ContentType

LEMMA MovesJobs ==
    ASSUME TypeOK, NEW c \in Requests, MigrateTwoLocked(c)
    PROVE  \E S, I : MovesMany(c, S, I)
<1> DEFINE src == calls[c].store
           dst == calls[c].target
           b   == calls[c].alias
           J   == calls[c].jobs
           movable(S) == src # dst /\ \A j \in S : /\ content[dst][j] = None
                                                   /\ content[src][j] # None
           N(S, i) == Moved(Renamed(src, i, b), src, dst, S, b)
<1>1.    \/ /\ J = {} \/ movable(J)
            /\ content' = Moved(content, src, dst, J, b)
            /\ split' = IF dst = jobstores[b] THEN split ELSE split \cup J
            /\ UNCHANGED faults
         \/ \E S \in SUBSET J : \E i \in J \ S :
              /\ S = {} \/ movable(S)
              /\ LET M == N(S, i) IN
                 \/ /\ content[dst][i] # None
                    /\ content' = M
                    /\ UNCHANGED faults
                 \/ /\ content[dst][i] = None
                    /\ \E adds \in Write(dst) \ {"done"} :
                          /\ content' = IF Takes(adds)
                                        THEN Added(M, dst, i, b) ELSE M
                          /\ Count(adds)
                 \/ /\ content[dst][i] = None /\ content[src][i] = None
                    /\ content' = Added(M, dst, i, b)
                    /\ UNCHANGED faults
                 \/ /\ movable({i})
                    /\ \E removes \in Write(src) \ {"done"} :
                          /\ content' = LET A == Added(M, dst, i, b) IN
                                        IF Takes(removes)
                                        THEN Removed(A, src, i) ELSE A
                          /\ Count(removes)
              /\ split' = split \cup {i}
                             \cup IF dst = jobstores[b] THEN {} ELSE S
    BY DEF MigrateTwoLocked
<1>6. lost' = IF dst \in Live THEN lost ELSE lost \cup J
    BY DEF MigrateTwoLocked
<1>2. /\ src \in Stores /\ dst \in Stores /\ b \in Aliases /\ J \in SUBSET Jobs
      /\ content \in ContentType /\ split \subseteq Jobs /\ faults \in Nat
    BY CallFields, TypeParts DEF MigrateTwoLocked
<1>3. CASE /\ J = {} \/ movable(J)
           /\ content' = Moved(content, src, dst, J, b)
           /\ split' = IF dst = jobstores[b] THEN split ELSE split \cup J
           /\ UNCHANGED faults
    <2>1. CASE J = {}
        <3>1. /\ content' \in ContentType
              /\ \A t \in Stores, i \in Jobs : content'[t][i] = content[t][i]
            BY <1>2, <1>3, <2>1, MovedNone
        <3>2. MovesMany(c, {}, {})
            BY <1>2, <1>3, <1>6, <2>1, <3>1 DEF MovesMany
        <3>3. QED BY <3>2
    <2>2. CASE movable(J)
        <3>1. /\ content' \in ContentType
              /\ \A t \in Stores, i \in Jobs : content'[t][i] =
                     IF i \notin J THEN content[t][i]
                     ELSE IF t = src THEN None ELSE IF t = dst THEN b ELSE content[t][i]
            <4>1. content' = Moved(content, src, dst, J, b) /\ src # dst
                BY <1>3, <2>2
            <4> HIDE DEF src, dst, J, b
            <4>2. QED BY <4>1, <1>2, MovedEffect
        <3>2. MovesMany(c, J, {})
            BY <1>2, <1>3, <1>6, <2>2, <3>1 DEF MovesMany, JobsIn
        <3>3. QED BY <3>2
    <2>3. QED BY <1>3, <2>1, <2>2
<1>4. ASSUME NEW S \in SUBSET J, NEW i \in J \ S,
             S = {} \/ movable(S),
             LET M == N(S, i) IN
                 \/ /\ content[dst][i] # None
                    /\ content' = M
                    /\ UNCHANGED faults
                 \/ /\ content[dst][i] = None
                    /\ \E adds \in Write(dst) \ {"done"} :
                          /\ content' = IF Takes(adds)
                                        THEN Added(M, dst, i, b) ELSE M
                          /\ Count(adds)
                 \/ /\ content[dst][i] = None /\ content[src][i] = None
                    /\ content' = Added(M, dst, i, b)
                    /\ UNCHANGED faults
                 \/ /\ movable({i})
                    /\ \E removes \in Write(src) \ {"done"} :
                          /\ content' = LET A == Added(M, dst, i, b) IN
                                        IF Takes(removes)
                                        THEN Removed(A, src, i) ELSE A
                          /\ Count(removes),
             split' = split \cup {i} \cup IF dst = jobstores[b] THEN {} ELSE S
      PROVE  MovesMany(c, S, {i})
    <2> DEFINE R == Renamed(src, i, b)
               M == N(S, i)
               A == Added(M, dst, i, b)
    <2>1. /\ R \in ContentType
          /\ \A t \in Stores, k \in Jobs : /\ k # i => R[t][k] = content[t][k]
                                           /\ R[t][k] # None <=> k \in JobsIn(t)
        BY <1>2, <1>4, RenamedEffect
    <2>2. i \in Jobs /\ S \in SUBSET Jobs /\ b # None
        BY <1>2, <1>4, Constants
    <2>3. /\ M \in ContentType
          /\ \A t \in Stores, k \in Jobs : M[t][k] =
                 IF k \notin S THEN R[t][k]
                 ELSE IF t = src THEN None ELSE IF t = dst THEN b ELSE R[t][k]
        <3> HIDE DEF R
        <3>1. CASE S = {}
            <4>1. M = Moved(R, src, dst, {}, b)
                BY <3>1 DEF R
            <4>2. QED BY <3>1, <4>1, <1>2, <2>1, MovedNone
        <3>2. CASE movable(S)
            <4>1. M = Moved(R, src, dst, S, b)
                BY DEF R
            <4>2. QED BY <3>2, <4>1, <1>2, <2>1, <2>2, MovedEffect
        <3>3. QED BY <3>1, <3>2, <1>4
    <2>4. M \in ContentType /\ \A t \in Stores : M[t][i] # None <=> i \in JobsIn(t)
        BY <2>1, <2>2, <2>3, <1>4
    <2>5. \A t \in Stores, k \in Jobs : k # i => M[t][k] =
                 IF k \notin S THEN content[t][k]
                 ELSE IF t = src THEN None ELSE IF t = dst THEN b ELSE content[t][k]
        BY <2>1, <2>3
    <2> HIDE DEF R, M
    <2>6. /\ A \in ContentType
          /\ \A t \in Stores, k \in Jobs : A[t][k] = IF t = dst /\ k = i THEN b ELSE M[t][k]
        BY <2>2, <2>4, <1>2, AddedEffect
    <2> HIDE DEF A
    <2>7. /\ Removed(A, src, i) \in ContentType
          /\ \A t \in Stores, k \in Jobs :
                Removed(A, src, i)[t][k] = IF t = src /\ k = i THEN None ELSE A[t][k]
        BY <2>2, <2>6, <1>2, RemovedEffect
    <2>8. /\ \/ content' = M \/ content' = A
             \/ src # dst /\ content' = Removed(A, src, i)
          /\ faults' \in Nat
        BY <1>2, <1>4, CountType DEF A, M
    <2>9. /\ content' \in ContentType
          /\ \A t \in Stores, k \in Jobs : k # i => content'[t][k] = M[t][k]
          /\ \A t \in Stores : content'[t][i] # None => i \in JobsIn(t) \/ t = dst
          /\ \A t \in Stores : i \in JobsIn(t) =>
                content'[t][i] # None \/ content'[dst][i] # None
        <3>1. CASE content' = M
            BY <3>1, <2>4
        <3>2. CASE content' = A
            BY <3>2, <2>2, <2>4, <2>6
        <3>3. CASE src # dst /\ content' = Removed(A, src, i)
            BY <3>3, <2>2, <2>4, <2>6, <2>7, <1>2
        <3>4. QED BY <3>1, <3>2, <3>3, <2>8
    <2>10. \A k \in Jobs \ (S \cup {i}) : \A s \in Stores : content'[s][k] = content[s][k]
        BY <2>5, <2>9
    <2>11. \A k \in S :
             /\ src # dst /\ k \in JobsIn(src) /\ k \notin JobsIn(dst)
             /\ content'[dst][k] = b /\ content'[src][k] = None
             /\ \A s \in Stores \ {src, dst} : content'[s][k] = content[s][k]
        BY <2>2, <2>5, <2>9, <1>2, <1>4 DEF JobsIn
    <2>12. split \cup {i} \subseteq split' /\ split' \subseteq Jobs
           /\ (dst = jobstores[b] \/ S \subseteq split')
        BY <1>2, <1>4, <2>2
    <2>13. S \cup {i} \subseteq J /\ S \cap {i} = {}
        BY <1>4
    <2>14. QED
        BY <1>6, <2>8, <2>9, <2>10, <2>11, <2>12, <2>13 DEF MovesMany
<1>5. QED BY <1>1, <1>3, <1>4

LEMMA TypeMigrateTwoLocked ==
    ASSUME TypeOK, NEW c \in Requests, MigrateTwoLocked(c)
    PROVE  TypeOK'
<1>1. PICK S, I : MovesMany(c, S, I)
    BY MovesJobs
<1>2. calls[c].jobs \in SUBSET Jobs
    BY CallFields DEF MigrateTwoLocked
<1>3. /\ content' \in ContentType /\ faults' \in Nat
      /\ lost' \subseteq Jobs /\ split' \subseteq Jobs
    BY <1>1, <1>2, TypeParts DEF MovesMany
<1>4. calls' \in [Requests -> CallTypes] /\ requests' = requests
    BY CallsType, JobType DEF MigrateTwoLocked, Ends
<1>5. QED BY <1>3, <1>4, TypeKept DEF MigrateTwoLocked

(***************************************************************************)
(* What the locked part of a migration to the configured store does: the   *)
(* jobs of the old store are those of the new one, which takes its place,  *)
(* or some of them, T, have copies in a database that does not.            *)
(***************************************************************************)
Migrated(c, new) ==
    LET a == calls[c].alias
        old == jobstores[a]
    IN /\ old # None /\ new \in Stores /\ Backend(new) = calls[c].plugin
       /\ new \in Memories => new \notin Referenced
       /\ new = old => JobsIn(old) = {}
       /\ jobstores' = [jobstores EXCEPT ![a] = new]
       /\ \A s \in Stores, k \in Jobs : content'[s][k] =
             IF s = new THEN IF k \in JobsIn(old) THEN content[old][k]
                             ELSE IF new \in Memories THEN None ELSE content[new][k]
             ELSE IF s = old /\ old \in Memories THEN None ELSE content[s][k]
       /\ split' = IF old \in Databases THEN split \cup JobsIn(old) ELSE split
       /\ unsettled' = IF /\ Configuring("jobstore", a) = {c}
                          /\ calls[c].plugin = rows["jobstore"][a]
                       THEN unsettled \ {<<"jobstore", a>>} ELSE unsettled

NotMigrated(c, new, T) ==
    /\ UNCHANGED <<jobstores, unsettled>>
    /\ new \in Stores
    /\ T \subseteq JobsIn(jobstores[calls[c].alias]) /\ T \subseteq split'
    /\ new \in Memories => new \notin Referenced
    /\ split \subseteq split' /\ split' \subseteq Jobs
    /\ \A s \in Stores, k \in Jobs :
          IF s # new THEN content'[s][k] = content[s][k]
          ELSE IF new \in Memories THEN content'[s][k] = None
          ELSE /\ k \notin T => content'[s][k] = content[s][k]
               /\ k \in JobsIn(s) => content'[s][k] # None

MigratesStore(c) ==
    /\ content' \in ContentType /\ faults' \in Nat
    /\ \/ /\ UNCHANGED <<jobstores, content, split, unsettled>>
          /\ jobstores[calls[c].alias] = None
       \/ \E new : Migrated(c, new)
       \/ jobstores[calls[c].alias] # None /\ \E new, T : NotMigrated(c, new, T)

\* The copies that a migration makes in the new store.
CopyOf(K, new, old, S) ==
    [K EXCEPT ![new] = [j \in Jobs |-> IF j \in S THEN content[old][j] ELSE @[j]]]

LEMMA CopiedEffect ==
    ASSUME content \in ContentType, NEW K \in ContentType, NEW new \in Stores,
           NEW old \in Stores, NEW S
    PROVE  /\ CopyOf(K, new, old, S) \in ContentType
           /\ \A t \in Stores, k \in Jobs : CopyOf(K, new, old, S)[t][k] =
                 IF t = new /\ k \in S THEN content[old][k] ELSE K[t][k]
BY DEF ContentType, CopyOf

LEMMA ClearedEffect ==
    ASSUME NEW K \in ContentType, NEW s \in Stores
    PROVE  /\ [K EXCEPT ![s] = Empty] \in ContentType
           /\ \A t \in Stores, k \in Jobs :
                 [K EXCEPT ![s] = Empty][t][k] = IF t = s THEN None ELSE K[t][k]
BY DEF ContentType, Empty

LEMMA ClosedEffect ==
    ASSUME NEW K \in ContentType, NEW s \in Stores
    PROVE  /\ Closed(K, s) \in ContentType
           /\ \A t \in Stores, k \in Jobs : Closed(K, s)[t][k] =
                 IF t = s /\ s \in Memories THEN None ELSE K[t][k]
BY DEF ContentType, Closed, Empty

LEMMA MigratesJobs ==
    ASSUME TypeOK, NEW c \in Requests, MigrateLocked(c)
    PROVE  MigratesStore(c)
<1> DEFINE a   == calls[c].alias
           old == jobstores[a]
           new == StoreFor(calls[c].plugin)
           K   == IF new \in Memories THEN [content EXCEPT ![new] = Empty]
                                      ELSE content
           free(S) == \A j \in S : K[new][j] = None
<1>1. \/ /\ old = None
         /\ UNCHANGED <<jobstores, content, faults, split, unsettled>>
      \/ /\ old # None /\ free(JobsIn(old))
         /\ content' = Closed(CopyOf(K, new, old, JobsIn(old)), old)
         /\ jobstores' = [jobstores EXCEPT ![a] = new]
         /\ split' = IF old \in Databases THEN split \cup JobsIn(old) ELSE split
         /\ unsettled' = IF /\ Configuring("jobstore", a) = {c}
                            /\ calls[c].plugin = rows["jobstore"][a]
                         THEN unsettled \ {<<"jobstore", a>>} ELSE unsettled
         /\ UNCHANGED faults
      \/ /\ old # None
         /\ \E S \in SUBSET JobsIn(old) : \E i \in JobsIn(old) \ S :
              /\ free(S)
              /\ \/ /\ ~free({i})
                    /\ content' = Closed(CopyOf(K, new, old, S), new)
                    /\ UNCHANGED faults
                 \/ /\ free({i})
                    /\ \E result \in Write(new) \ {"done"} :
                          /\ content' = Closed(CopyOf(K, new, old,
                                IF Takes(result) THEN S \cup {i} ELSE S), new)
                          /\ Count(result)
              /\ split' = split \cup S \cup {i}
         /\ jobstores' = AfterFailure(a, old, new)
         /\ UNCHANGED unsettled
    BY DEF MigrateLocked, CopyOf
<1>2. /\ a \in Aliases /\ calls[c].plugin \in StorePlugins /\ content \in ContentType
      /\ faults \in Nat /\ split \subseteq Jobs
    BY CallFields, TypeParts DEF MigrateLocked
<1>3. /\ new \in Stores /\ Backend(new) = calls[c].plugin
      /\ new \in Memories => new \notin Referenced
    BY <1>2, StoreForType
<1> HIDE DEF new
<1>4. /\ K \in ContentType
      /\ \A t \in Stores, k \in Jobs :
            K[t][k] = IF t = new /\ new \in Memories THEN None ELSE content[t][k]
    BY <1>2, <1>3, ClearedEffect
<1> HIDE DEF K
<1>5. CASE old = None /\ UNCHANGED <<jobstores, content, faults, split, unsettled>>
    BY <1>2, <1>5 DEF MigratesStore
<1>6. CASE old # None
    <2>1. old \in Stores /\ (old \in Memories => new # old)
        BY <1>2, <1>3, <1>6, LiveStores DEF Referenced
    <2>2. ASSUME NEW S
          PROVE  /\ CopyOf(K, new, old, S) \in ContentType
                 /\ \A t \in Stores, k \in Jobs :
                       CopyOf(K, new, old, S)[t][k] = IF t = new /\ k \in S THEN content[old][k]
                                                               ELSE K[t][k]
        BY <1>2, <1>3, <1>4, <2>1, CopiedEffect
    <2> HIDE DEF old
    <2>3. CASE /\ free(JobsIn(old))
               /\ content' = Closed(CopyOf(K, new, old, JobsIn(old)), old)
               /\ jobstores' = [jobstores EXCEPT ![a] = new]
               /\ split' = IF old \in Databases THEN split \cup JobsIn(old) ELSE split
               /\ unsettled' = IF /\ Configuring("jobstore", a) = {c}
                                  /\ calls[c].plugin = rows["jobstore"][a]
                               THEN unsettled \ {<<"jobstore", a>>} ELSE unsettled
               /\ UNCHANGED faults
        <3>1. /\ content' \in ContentType
              /\ \A t \in Stores, k \in Jobs : content'[t][k] =
                     IF t = old /\ old \in Memories THEN None
                     ELSE CopyOf(K, new, old, JobsIn(old))[t][k]
            <4> DEFINE L == CopyOf(K, new, old, JobsIn(old))
            <4>1. L \in ContentType /\ content' = Closed(L, old)
                BY <2>2, <2>3
            <4> HIDE DEF L
            <4>2. /\ content' \in ContentType
                  /\ \A t \in Stores, k \in Jobs : content'[t][k] =
                        IF t = old /\ old \in Memories THEN None ELSE L[t][k]
                BY <2>1, <4>1, ClosedEffect
            <4>3. QED BY <4>2 DEF L
        <3>2. \A t \in Stores, k \in Jobs : content'[t][k] =
                 IF t = new THEN IF k \in JobsIn(old) THEN content[old][k]
                                 ELSE IF new \in Memories THEN None ELSE content[new][k]
                 ELSE IF t = old /\ old \in Memories THEN None ELSE content[t][k]
            BY <2>1, <2>2, <3>1, <1>3, <1>4
        <3>3. new = old => JobsIn(old) = {}
            BY <2>1, <2>3, <1>3, <1>4 DEF JobsIn
        <3>4. faults' \in Nat
            BY <2>3, <1>2
        <3>5. Migrated(c, new)
            BY <2>3, <3>2, <3>3, <1>3, <1>6 DEF Migrated, old
        <3>6. QED BY <3>1, <3>4, <3>5 DEF MigratesStore
    <2>4. CASE /\ \E S \in SUBSET JobsIn(old) : \E i \in JobsIn(old) \ S :
                    /\ free(S)
                    /\ \/ /\ ~free({i})
                          /\ content' = Closed(CopyOf(K, new, old, S), new)
                          /\ UNCHANGED faults
                       \/ /\ free({i})
                          /\ \E result \in Write(new) \ {"done"} :
                                /\ content' = Closed(CopyOf(K, new, old,
                                      IF Takes(result) THEN S \cup {i} ELSE S), new)
                                /\ Count(result)
                    /\ split' = split \cup S \cup {i}
               /\ jobstores' = AfterFailure(a, old, new)
               /\ UNCHANGED unsettled
        <3>1. PICK S \in SUBSET JobsIn(old), i \in JobsIn(old) :
                    /\ free(S)
                    /\ \/ /\ ~free({i})
                          /\ content' = Closed(CopyOf(K, new, old, S), new)
                          /\ UNCHANGED faults
                       \/ /\ free({i})
                          /\ \E result \in Write(new) \ {"done"} :
                                /\ content' = Closed(CopyOf(K, new, old,
                                      IF Takes(result) THEN S \cup {i} ELSE S), new)
                                /\ Count(result)
                    /\ split' = split \cup S \cup {i}
            BY <2>4
        <3>2. PICK T \in SUBSET JobsIn(old) :
                  /\ T \subseteq S \cup {i}
                  /\ free(T) /\ content' = Closed(CopyOf(K, new, old, T), new)
            BY <3>1
        <3>3. faults' \in Nat
            BY <3>1, <1>2, CountType
        <3>4. /\ content' \in ContentType
              /\ \A t \in Stores, k \in Jobs : content'[t][k] =
                     IF t = new /\ new \in Memories THEN None
                     ELSE CopyOf(K, new, old, T)[t][k]
            <4> DEFINE L == CopyOf(K, new, old, T)
            <4>1. L \in ContentType /\ content' = Closed(L, new)
                BY <2>2, <3>2
            <4> HIDE DEF L
            <4>2. /\ content' \in ContentType
                  /\ \A t \in Stores, k \in Jobs : content'[t][k] =
                        IF t = new /\ new \in Memories THEN None ELSE L[t][k]
                BY <1>3, <4>1, ClosedEffect
            <4>3. QED BY <4>2 DEF L
        <3>5. \A k \in T : k \in Jobs /\ content[old][k] # None
            BY DEF JobsIn
        <3>6. \A s \in Stores, k \in Jobs :
                  IF s # new THEN content'[s][k] = content[s][k]
                  ELSE IF new \in Memories THEN content'[s][k] = None
                  ELSE /\ k \notin T => content'[s][k] = content[s][k]
                       /\ k \in JobsIn(s) => content'[s][k] # None
            BY <1>3, <1>4, <2>2, <3>4, <3>5 DEF JobsIn
        <3>7. /\ T \subseteq JobsIn(old) /\ T \subseteq split'
              /\ split \subseteq split' /\ split' \subseteq Jobs
            BY <3>1, <3>2, <1>2 DEF JobsIn
        <3>8. NotMigrated(c, new, T)
            BY <1>3, <2>4, <3>6, <3>7 DEF NotMigrated, AfterFailure, old
        <3>9. QED BY <1>6, <3>3, <3>4, <3>8 DEF MigratesStore, old
    <2>5. QED BY <2>3, <2>4, <1>1, <1>6 DEF old
<1>7. QED BY <1>1, <1>5, <1>6

LEMMA TypeMigrateLocked ==
    ASSUME TypeOK, NEW c \in Requests, MigrateLocked(c)
    PROVE  TypeOK'
<1>1. MigratesStore(c)
    BY MigratesJobs
<1>2. calls[c].alias \in Aliases
    BY CallFields DEF MigrateLocked
<1>3. \/ UNCHANGED jobstores
      \/ /\ jobstores' \in [Aliases -> Stores \cup {None}]
         /\ jobstores'["default"] # None
    <2>1. ASSUME NEW new, Migrated(c, new)
          PROVE  /\ jobstores' \in [Aliases -> Stores \cup {None}]
                 /\ jobstores'["default"] # None
        BY <1>2, <2>1, TypeParts, Constants DEF Migrated
    <2>2. QED BY <1>1, <2>1 DEF MigratesStore, NotMigrated
<1>4. split' \subseteq Jobs
    BY <1>1, TypeParts DEF MigratesStore, Migrated, NotMigrated, JobsIn
<1>5. UNCHANGED unsettled \/ unsettled' \subseteq {"jobstore", "executor"} \X Aliases
    BY <1>1, TypeParts DEF MigratesStore, Migrated, NotMigrated
<1>6. content' \in ContentType /\ faults' \in Nat
    BY <1>1 DEF MigratesStore
<1>7. calls' \in [Requests -> CallTypes] /\ requests' = requests
    BY CallsType, JobType DEF MigrateLocked, Ends
<1>8. QED BY <1>3, <1>4, <1>5, <1>6, <1>7, TypeKept DEF MigrateLocked

\* A store is registered under a free alias; a memory store is a new one.
Registers(a, new, plugin) ==
    /\ a \in Aliases /\ new \in Stores /\ jobstores[a] = None /\ Backend(new) = plugin
    /\ new \in Memories => new \notin Referenced
    /\ jobstores' = [jobstores EXCEPT ![a] = new]
    /\ content' \in ContentType
    /\ \A s \in Stores, k \in Jobs : content'[s][k] =
          IF s = new /\ new \in Memories THEN None ELSE content[s][k]

LEMMA RegistersStore ==
    ASSUME TypeOK, NEW c \in Requests, ConfigureStore(c)
    PROVE  \E a \in Aliases, plugin \in StorePlugins, new \in Stores :
              /\ Registers(a, new, plugin)
              /\ Begins(c, Job("configure", "jobstore", a, plugin))
              /\ Overlaps("jobstore", a)
<1>1. PICK a \in Aliases, plugin \in StorePlugins :
          /\ jobstores[a] = None
          /\ Begins(c, Job("configure", "jobstore", a, plugin))
          /\ jobstores' = [jobstores EXCEPT ![a] = StoreFor(plugin)]
          /\ content' = IF plugin = "memory"
                        THEN [content EXCEPT ![StoreFor(plugin)] = Empty]
                        ELSE content
          /\ Overlaps("jobstore", a)
    BY DEF ConfigureStore
<1> DEFINE new == StoreFor(plugin)
<1>2. /\ new \in Stores /\ Backend(new) = plugin
      /\ new \in Memories => new \notin Referenced
      /\ new \in Memories <=> plugin = "memory"
    BY StoreForType, FreshMemory, Constants DEF Stores
<1> HIDE DEF new
<1>3. content \in ContentType
    BY TypeParts
<1>4. /\ content' \in ContentType
      /\ \A s \in Stores, k \in Jobs : content'[s][k] =
            IF s = new /\ new \in Memories THEN None ELSE content[s][k]
    <2>1. CASE plugin = "memory"
        <3>1. content' = [content EXCEPT ![new] = Empty]
            BY <1>1, <2>1 DEF new
        <3>2. QED BY <2>1, <3>1, <1>2, <1>3 DEF ContentType, Empty
    <2>2. CASE plugin # "memory"
        BY <1>1, <1>2, <1>3, <2>2
    <2>3. QED BY <2>1, <2>2
<1>5. jobstores' = [jobstores EXCEPT ![a] = new]
    BY <1>1 DEF new
<1>6. Registers(a, new, plugin)
    BY <1>1, <1>2, <1>4, <1>5 DEF Registers
<1>7. QED BY <1>1, <1>2, <1>6

\* A request about a component that begins.
LEMMA TypeBegins ==
    ASSUME TypeOK, NEW c \in Requests, NEW call \in CallTypes, Begins(c, call)
    PROVE  calls' \in [Requests -> CallTypes] /\ requests' \in Nat
BY CallsType, TypeParts DEF Begins

LEMMA TypeStores ==
    ASSUME TypeOK, NEW c \in Requests,
           \/ Migrate(c) \/ ConfigureStore(c) \/ CheckStore(c) \/ CountJobs(c)
           \/ DeleteStore(c)
    PROVE  TypeOK'
<1>1. CASE Migrate(c)
    <2>1. PICK a \in Aliases :
              /\ rows["jobstore"][a] # None
              /\ Begins(c, [op |-> "migrate", table |-> "jobstore", alias |-> a,
                            plugin |-> rows["jobstore"][a]])
              /\ Overlaps("jobstore", a)
        BY <1>1 DEF Migrate
    <2>2. rows["jobstore"][a] \in StorePlugins
        BY <2>1 DEF TypeOK
    <2>3. [op |-> "migrate", table |-> "jobstore", alias |-> a,
           plugin |-> rows["jobstore"][a]] \in CallTypes
        BY <2>2, JobType DEF Job
    <2>4. QED BY <1>1, <2>1, <2>3, TypeBegins, OverlapsType, TypeKept DEF Migrate
<1>2. CASE ConfigureStore(c)
    <2>1. PICK a \in Aliases, plugin \in StorePlugins, new \in Stores :
              /\ Registers(a, new, plugin)
              /\ Begins(c, Job("configure", "jobstore", a, plugin))
              /\ Overlaps("jobstore", a)
        BY <1>2, RegistersStore
    <2>2. Job("configure", "jobstore", a, plugin) \in CallTypes
        BY JobType
    <2>3. /\ jobstores' \in [Aliases -> Stores \cup {None}]
          /\ jobstores'["default"] # None /\ content' \in ContentType
        BY <2>1, TypeParts, Constants DEF Registers
    <2>4. QED
        BY <1>2, <2>1, <2>2, <2>3, TypeBegins, OverlapsType, TypeKept DEF ConfigureStore
<1>3. CASE CheckStore(c)
    <2>1. PICK a \in Aliases, plugin \in StorePlugins :
              Begins(c, Job("put", "jobstore", a, plugin)) /\ Overlaps("jobstore", a)
        BY <1>3 DEF CheckStore
    <2>2. Job("put", "jobstore", a, plugin) \in CallTypes
        BY JobType
    <2>3. QED BY <1>3, <2>1, <2>2, TypeBegins, OverlapsType, TypeKept DEF CheckStore
<1>4. CASE CountJobs(c)
    <2>1. Begins(c, Job("delete", "jobstore", "extra", None)) /\ Overlaps("jobstore", "extra")
        BY <1>4 DEF CountJobs, Removable, Aliases
    <2>2. Job("delete", "jobstore", "extra", None) \in CallTypes
        BY JobType
    <2>3. QED
        BY <1>4, <2>1, <2>2, TypeBegins, OverlapsType, TypeKept, Constants DEF CountJobs
<1>5. CASE DeleteStore(c)
    <2> DEFINE s == jobstores["extra"]
    <2>1. /\ calls[c].alias = "extra"
          /\ \/ /\ s = None /\ Ends(c) /\ UNCHANGED <<jobstores, content, lost>>
             \/ /\ s # None
                /\ jobstores' = [jobstores EXCEPT !["extra"] = None]
                /\ content' = Closed(content, s)
                /\ lost' = lost \cup JobsIn(s)
                /\ Continues(c, Job("deleted", "jobstore", "extra", None))
        BY <1>5, CallFields DEF DeleteStore
    <2>2. CASE s = None /\ Ends(c) /\ UNCHANGED <<jobstores, content, lost>>
        <3>1. calls' \in [Requests -> CallTypes] /\ requests' = requests
            BY <2>2, CallsType, JobType DEF Ends
        <3>2. QED BY <1>5, <2>2, <3>1, TypeKept DEF DeleteStore
    <2>3. CASE /\ s # None
               /\ jobstores' = [jobstores EXCEPT !["extra"] = None]
               /\ content' = Closed(content, s)
               /\ lost' = lost \cup JobsIn(s)
               /\ Continues(c, Job("deleted", "jobstore", "extra", None))
        <3>1. calls' \in [Requests -> CallTypes] /\ requests' = requests
            BY <2>3, CallsType, JobType DEF Continues
        <3>2. s \in Stores /\ content \in ContentType
            BY <2>3, TypeParts, Constants
        <3>3. content' \in ContentType
            BY <2>3, <3>2, ClosedEffect
        <3>4. /\ jobstores' \in [Aliases -> Stores \cup {None}]
              /\ jobstores'["default"] # None
            BY <2>3, TypeParts, Constants
        <3>5. lost' \subseteq Jobs
            BY <2>3, TypeParts DEF JobsIn
        <3>6. QED BY <1>5, <3>1, <3>3, <3>4, <3>5, TypeKept DEF DeleteStore
    <2>4. QED BY <2>1, <2>2, <2>3
<1>6. QED BY <1>1, <1>2, <1>3, <1>4, <1>5

LEMMA TypeRows ==
    ASSUME TypeOK, NEW c \in Requests, Save(c) \/ RemoveRow(c)
    PROVE  TypeOK'
<1> DEFINE t == calls[c].table
           a == calls[c].alias
<1>1. /\ calls[c].op \in {"configure", "put", "configure_executor", "put_executor",
                          "deleted", "deleted_executor"}
      /\ calls' \in [Requests -> CallTypes] /\ requests' = requests
    BY CallsType, JobType DEF Save, RemoveRow, Ends
<1>2. t \in {"jobstore", "executor"} /\ a \in Aliases /\ faults \in Nat
    BY <1>1, CallFields, Constants, TypeParts
<1>3. /\ unsettled' \subseteq unsettled \cup {<<t, a>>}
      /\ faults' = faults \/ faults' = faults + 1
    BY DEF Save, RemoveRow
<1>4. unsettled' \subseteq {"jobstore", "executor"} \X Aliases /\ faults' \in Nat
    BY <1>2, <1>3, TypeParts
<1>5. CASE Save(c)
    <2>1. \/ UNCHANGED rows
          \/ rows' = [rows EXCEPT ![t][a] = calls[c].plugin]
        BY <1>5 DEF Save
    <2>2. calls[c].plugin \in IF t = "jobstore" THEN StorePlugins ELSE ExecutorPlugins
        BY <1>5, CallFields DEF Save
    <2>3. QED BY <1>1, <1>2, <1>4, <1>5, <2>1, <2>2, TypeKept DEF Save
<1>6. CASE RemoveRow(c)
    <2>1. UNCHANGED rows \/ rows' = [rows EXCEPT ![t][a] = None]
        BY <1>6 DEF RemoveRow, RowRemoved
    <2>2. a = "extra"
        BY <1>6, CallFields DEF RemoveRow
    <2>3. QED BY <1>1, <1>2, <1>4, <1>6, <2>1, <2>2, TypeKept DEF RemoveRow
<1>7. QED BY <1>5, <1>6

LEMMA TypeExecutors ==
    ASSUME TypeOK, NEW c \in Requests,
           \/ ConfigureExecutor(c) \/ UpdateExecutor(c) \/ CountReferences(c)
           \/ DeleteExecutor(c)
    PROVE  TypeOK'
<1>1. CASE ConfigureExecutor(c) \/ UpdateExecutor(c)
    <2>1. PICK a \in Aliases, plugin \in ExecutorPlugins,
               op \in {"configure_executor", "put_executor"} :
              /\ Begins(c, Job(op, "executor", a, plugin))
              /\ executors' = [executors EXCEPT ![a] = plugin]
              /\ Overlaps("executor", a)
        BY <1>1 DEF ConfigureExecutor, UpdateExecutor
    <2>2. Job(op, "executor", a, plugin) \in CallTypes
        BY JobType
    <2>3. calls' \in [Requests -> CallTypes] /\ requests' \in Nat
        BY <2>1, <2>2, TypeBegins
    <2>4. unsettled' \subseteq {"jobstore", "executor"} \X Aliases
        BY <2>1, OverlapsType
    <2>5. /\ executors' \in [Aliases -> ExecutorPlugins \cup {None}]
          /\ executors'["default"] # None
        BY <2>1, TypeParts, Constants
    <2>6. UNCHANGED <<jobstores, content, rows, added, faults, restarts, held, gone,
                      lost, split>>
        BY <1>1 DEF ConfigureExecutor, UpdateExecutor
    <2>7. QED BY <2>3, <2>4, <2>5, <2>6, TypeKept
<1>2. CASE CountReferences(c)
    <2>1. Begins(c, Job("delete_executor", "executor", "extra", None))
          /\ Overlaps("executor", "extra")
        BY <1>2 DEF CountReferences, Removable, Aliases
    <2>2. Job("delete_executor", "executor", "extra", None) \in CallTypes
        BY JobType
    <2>3. QED
        BY <1>2, <2>1, <2>2, TypeBegins, OverlapsType, TypeKept, Constants
           DEF CountReferences
<1>3. CASE DeleteExecutor(c)
    <2>1. /\ calls[c].alias = "extra"
          /\ \/ Ends(c) /\ UNCHANGED executors
             \/ /\ executors' = [executors EXCEPT !["extra"] = None]
                /\ Continues(c, Job("deleted_executor", "executor", "extra", None))
        BY <1>3, CallFields DEF DeleteExecutor
    <2>2. calls' \in [Requests -> CallTypes] /\ requests' = requests
        BY <2>1, CallsType, JobType DEF Ends, Continues
    <2>3. \/ UNCHANGED executors
          \/ /\ executors' \in [Aliases -> ExecutorPlugins \cup {None}]
             /\ executors'["default"] # None
        BY <2>1, TypeParts, Constants
    <2>4. QED BY <1>3, <2>2, <2>3, TypeKept DEF DeleteExecutor, ghosts
<1>4. QED BY <1>1, <1>2, <1>3

LEMMA TypeRestart ==
    ASSUME TypeOK, Restart
    PROVE  TypeOK'
<1>1. /\ rows["jobstore"] \in [Aliases -> StorePlugins \cup {None}]
      /\ rows["executor"] \in [Aliases -> ExecutorPlugins \cup {None}]
      /\ rows["jobstore"]["default"] # None /\ rows["executor"]["default"] # None
    BY DEF TypeOK
<1>2. jobstores' \in [Aliases -> Stores \cup {None}] /\ jobstores'["default"] # None
    <2> DEFINE row == rows["jobstore"]
    <2>1. jobstores' = Restored(row) /\ row["default"] # None
        BY <1>1 DEF Restart
    <2>2. row \in [Aliases -> StorePlugins \cup {None}]
        BY <1>1
    <2> HIDE DEF row
    <2>3. QED BY <2>1, <2>2, RestoredStores, Constants DEF Stores
<1>3. executors' = rows["executor"] /\ UNCHANGED rows
    BY DEF Restart
<1>4. content' \in ContentType
    BY TypeParts DEF Restart, ContentType, Empty
<1>5. calls' \in [Requests -> CallTypes]
    BY JobType DEF Restart
<1>6. lost' \subseteq Jobs
    BY TypeParts DEF Restart, Volatile, JobsIn
<1>7. restarts' \in Nat /\ unsettled' = {}
      /\ UNCHANGED <<added, requests, faults, held, gone, split>>
    BY TypeParts DEF Restart
<1>8. QED BY <1>1, <1>2, <1>3, <1>4, <1>5, <1>6, <1>7, TypeKept

-----------------------------------------------------------------------------
(* Copies: a job is in one store at most.                                  *)

\* The part of CopiesInv about the requests ...
CallsInv ==
    /\ \A c \in Adding : calls[c].job \in added
    /\ \A c, d \in Adding : calls[c].job = calls[d].job => c = d
    /\ \A c \in Requests :
           calls[c].op = "migrate_two" => calls[c].jobs \subseteq Placed

\* ... which a step keeps that starts no add_job ...
LEMMA CallsKept ==
    ASSUME TypeOK, CopiesInv, added' = added,
           \/ UNCHANGED calls
           \/ \E c \in Requests : \E v :
                 /\ calls' = [calls EXCEPT ![c] = v] /\ v.op # "add_job"
                 /\ v.op = "migrate_two" => v.jobs \subseteq Placed
    PROVE  CallsInv' /\ Placed \subseteq Placed'
<1>1. CallsInv
    BY DEF CopiesInv, CallsInv
<1>2. CASE UNCHANGED calls
    BY <1>1, <1>2 DEF CallsInv, Adding, Placed
<1>3. ASSUME NEW c \in Requests, NEW v,
             calls' = [calls EXCEPT ![c] = v], v.op # "add_job",
             v.op = "migrate_two" => v.jobs \subseteq Placed
      PROVE  CallsInv' /\ Placed \subseteq Placed'
    <2>1. \A d \in Requests : calls'[d] = IF d = c THEN v ELSE calls[d]
        BY <1>3 DEF TypeOK
    <2>2. Adding' = Adding \ {c} /\ \A d \in Adding' : calls'[d] = calls[d]
        BY <2>1, <1>3 DEF Adding
    <2>3. Placed \subseteq Placed'
        BY <2>2 DEF Placed
    <2>4. QED BY <1>1, <1>3, <2>1, <2>2, <2>3 DEF CallsInv
<1>4. QED BY <1>2, <1>3

\* ... and the part about the stores.
LEMMA CopiesKept ==
    ASSUME TypeOK, CopiesInv, CallsInv', Placed \subseteq Placed',
           split \subseteq split', held' \cup gone' \subseteq Placed',
           NEW t,
           \A s \in Stores : JobsIn(s)' \subseteq Placed',
           \A j \in Jobs \ split', s \in Stores : j \in JobsIn(s)' =>
               \/ j \in JobsIn(s)
               \/ s = t /\ j \notin gone' /\ \A u \in Stores : j \in JobsIn(u)' => u = t,
           \A j \in gone' \ split' : j \in gone \/ \A s \in Stores : j \notin JobsIn(s)'
    PROVE  CopiesInv'
<1>1. /\ \A j \in Jobs \ split : \A s, u \in Stores :
             j \in JobsIn(s) /\ j \in JobsIn(u) => s = u
      /\ \A j \in gone \ split : \A s \in Stores : j \notin JobsIn(s)
    BY DEF CopiesInv
<1>2. \A s \in Stores : JobsIn(s)' \subseteq Jobs
    BY DEF JobsIn
<1>3. \A j \in Jobs \ split' : \A s, u \in Stores :
             j \in JobsIn(s)' /\ j \in JobsIn(u)' => s = u
    BY <1>1
<1>4. \A j \in gone' \ split' : \A s \in Stores : j \notin JobsIn(s)'
    <2> SUFFICES ASSUME NEW j \in gone' \ split', NEW s \in Stores, j \in JobsIn(s)'
                 PROVE  FALSE
        OBVIOUS
    <2>1. j \in Jobs /\ j \in gone
        BY <1>2
    <2>2. j \in JobsIn(s)
        BY <2>1
    <2>3. QED BY <2>1, <2>2, <1>1
<1>5. CallsInv' /\ held' \cup gone' \subseteq Placed'
    OBVIOUS
<1>6. \A s \in Stores : \A j \in JobsIn(s)' \ split' :
          /\ j \notin gone'
          /\ \A u \in Stores : j \in JobsIn(u)' => s = u
    <2> SUFFICES ASSUME NEW s \in Stores, NEW j \in JobsIn(s)' \ split'
                 PROVE  /\ j \notin gone'
                        /\ \A u \in Stores : j \in JobsIn(u)' => s = u
        OBVIOUS
    <2>1. j \in Jobs
        BY <1>2
    <2>2. QED BY <2>1, <1>3, <1>4
<1>7. QED BY <1>5, <1>6 DEF CopiesInv, CallsInv

\* Copies are neither made nor counted anew.
LEMMA CopiesFewer ==
    ASSUME TypeOK, CopiesInv, added' = added, split \subseteq split',
           held' = held, gone' = gone,
           \/ UNCHANGED calls
           \/ \E c \in Requests : \E v :
                 /\ calls' = [calls EXCEPT ![c] = v] /\ v.op # "add_job"
                 /\ v.op = "migrate_two" => v.jobs \subseteq Placed,
           \A s \in Stores : JobsIn(s)' \subseteq JobsIn(s)
    PROVE  CopiesInv'
<1>1. CallsInv' /\ Placed \subseteq Placed'
    BY CallsKept
<1>2. /\ \A s \in Stores : JobsIn(s) \subseteq Placed
      /\ held \cup gone \subseteq Placed
    BY DEF CopiesInv
<1>3. /\ \A s \in Stores : JobsIn(s)' \subseteq Placed'
      /\ held' \cup gone' \subseteq Placed'
    BY <1>1, <1>2
<1>4. QED BY <1>1, <1>3, CopiesKept

LEMMA JobsInSame == content' = content => \A s : JobsIn(s)' = JobsIn(s)
BY DEF JobsIn

LEMMA CopiesInit == Init => CopiesInv
<1> SUFFICES ASSUME Init PROVE CopiesInv
    OBVIOUS
<1>1. \A c \in Requests : calls[c].op = "idle"
    BY DEF Init, Idle
<1>2. \A s \in Stores : JobsIn(s) = {}
    BY DEF Init, JobsIn, Empty
<1>3. held = {} /\ gone = {}
    BY DEF Init
<1>4. QED BY <1>1, <1>2, <1>3 DEF CopiesInv, Adding, Placed

LEMMA CopiesAddJob ==
    ASSUME TypeOK, CopiesInv, NEW c \in Requests, AddJob(c)
    PROVE  CopiesInv'
<1>1. PICK j \in Jobs \ added, a \in Aliases :
          /\ Begins(c, [op |-> "add_job", job |-> j, alias |-> a,
                        store |-> jobstores[a]])
          /\ added' = added \cup {j}
    BY DEF AddJob
<1>2. /\ calls' = [calls EXCEPT ![c] = [op |-> "add_job", job |-> j, alias |-> a,
                                        store |-> jobstores[a]]]
      /\ calls[c] = Idle
    BY <1>1 DEF Begins
<1>3. /\ calls'[c].op = "add_job" /\ calls'[c].job = j
      /\ \A d \in Requests : d # c => calls'[d] = calls[d]
    BY <1>2 DEF TypeOK
<1>4. Adding' = Adding \cup {c} /\ c \notin Adding
    BY <1>2, <1>3 DEF Adding, Idle
<1>5. \A d \in Adding : calls[d].job \in added /\ calls'[d] = calls[d]
    BY <1>3, <1>4 DEF CopiesInv, Adding
<1>6. Placed' = Placed
    BY <1>1, <1>3, <1>4, <1>5 DEF Placed
<1>7. CallsInv'
    BY <1>1, <1>3, <1>4, <1>5, <1>6 DEF CopiesInv, CallsInv
<1>8. UNCHANGED <<content, held, gone, split>>
    BY DEF AddJob, ghosts
<1>9. \A s \in Stores : JobsIn(s)' = JobsIn(s)
    BY <1>8, JobsInSame
<1>10. /\ \A s \in Stores : JobsIn(s)' \subseteq Placed'
       /\ held' \cup gone' \subseteq Placed'
    BY <1>6, <1>8, <1>9 DEF CopiesInv
<1>11. QED BY <1>6, <1>7, <1>8, <1>9, <1>10, CopiesKept

LEMMA CopiesAddJobLocked ==
    ASSUME TypeOK, CopiesInv, NEW c \in Requests, AddJobLocked(c)
    PROVE  CopiesInv'
<1>1. PICK result : AddsOne(c, result)
    BY AddsJob
<1>2. PICK j \in Jobs : j = calls[c].job
    BY <1>1 DEF AddsOne
<1>3. PICK s \in Stores : s = calls[c].store
    BY <1>1 DEF AddsOne
<1>4. c \in Adding /\ calls' = [calls EXCEPT ![c] = Idle] /\ UNCHANGED <<added, gone>>
    BY DEF AddJobLocked, Ends, Adding
<1>5. CallsInv' /\ Placed \subseteq Placed'
    <2>1. Idle.op = "idle"
        BY DEF Idle
    <2>2. QED BY <1>4, <2>1, CallsKept
<1>6. j \notin Placed /\ j \in Placed'
    <2>1. \A d \in Requests : calls'[d] = IF d = c THEN Idle ELSE calls[d]
        BY <1>4 DEF TypeOK
    <2>2. Adding' = Adding \ {c} /\ \A d \in Adding' : calls'[d] = calls[d]
        BY <2>1 DEF Adding, Idle
    <2>3. j \in added /\ \A d \in Adding : calls[d].job = j => d = c
        BY <1>2, <1>4 DEF CopiesInv
    <2>4. QED BY <1>2, <1>4, <2>2, <2>3 DEF Placed
<1>7. \A u \in Stores : j \notin JobsIn(u)
    BY <1>6 DEF CopiesInv
<1>8. j \notin gone
    BY <1>6 DEF CopiesInv
<1>9. \A u \in Stores, i \in Jobs :
          i \in JobsIn(u)' => i \in JobsIn(u) \/ (u = s /\ i = j)
    BY <1>1, <1>2, <1>3, TypeParts, AddedEffect DEF AddsOne, JobsIn
<1>10. /\ split \subseteq split'
       /\ held' \cup gone' \subseteq Placed'
    BY <1>1, <1>2, <1>4, <1>5, <1>6 DEF AddsOne, CopiesInv
<1>11. \A u \in Stores : JobsIn(u)' \subseteq Placed'
    BY <1>5, <1>6, <1>9 DEF CopiesInv, JobsIn
<1>12. \A i \in Jobs \ split', u \in Stores : i \in JobsIn(u)' =>
           \/ i \in JobsIn(u)
           \/ u = s /\ i \notin gone' /\ \A v \in Stores : i \in JobsIn(v)' => v = s
    BY <1>4, <1>7, <1>8, <1>9
<1>13. QED BY <1>4, <1>5, <1>10, <1>11, <1>12, CopiesKept

LEMMA CopiesRemoveJob ==
    ASSUME TypeOK, CopiesInv, NEW c \in Requests, RemoveJob(c)
    PROVE  CopiesInv'
<1>1. PICK j, s, result : RemovesOne(j, s, result)
    BY RemovesJob
<1>2. s \in Stores /\ j \in Jobs /\ j \in JobsIn(s)
    BY <1>1, LiveStores DEF RemovesOne
<1>3. UNCHANGED <<calls, added, split>>
    BY DEF RemoveJob, Single
<1>4. CallsInv' /\ Placed \subseteq Placed'
    BY <1>3, CallsKept
<1>5. \A u \in Stores : /\ JobsIn(u)' \subseteq JobsIn(u)
                        /\ Takes(result) /\ u = s => j \notin JobsIn(u)'
    BY <1>1, <1>2, TypeParts, RemovedEffect DEF RemovesOne, JobsIn
<1>6. \A u \in Stores : JobsIn(u)' \subseteq Placed'
    BY <1>4, <1>5 DEF CopiesInv
<1>7. held' \cup gone' \subseteq Placed'
    BY <1>1, <1>2, <1>4 DEF RemovesOne, CopiesInv
<1>8. \A i \in gone' \ split' : i \in gone \/ \A u \in Stores : i \notin JobsIn(u)'
    <2>1. CASE gone' = gone
        BY <2>1
    <2>2. CASE result = "done"
        <3>1. Takes(result) /\ gone' = gone \cup {j}
            BY <1>1, <2>2 DEF Takes, RemovesOne
        <3>2. j \notin split => \A u \in Stores : j \in JobsIn(u) => u = s
            BY <1>2 DEF CopiesInv
        <3>3. QED BY <1>3, <1>5, <3>1, <3>2
    <2>3. QED BY <1>1, <2>1, <2>2 DEF RemovesOne
<1>9. QED BY <1>3, <1>4, <1>5, <1>6, <1>7, <1>8, CopiesKept

LEMMA CopiesMoveJob ==
    ASSUME TypeOK, CopiesInv, NEW c \in Requests, MoveJob(c)
    PROVE  CopiesInv'
<1>1. PICK j, a : MovesOne(j, a)
    BY MovesJob
<1>2. PICK f \in Stores : f = Find(j) /\ j \in JobsIn(f)
    BY <1>1, FindLive, LiveStores DEF MovesOne
<1>3. PICK t : t = jobstores[a]
    OBVIOUS
<1>4. UNCHANGED <<calls, added, held, gone>>
    BY DEF MoveJob, Single
<1>5. CallsInv' /\ Placed \subseteq Placed'
    BY <1>4, CallsKept
<1>6. /\ j \in Jobs /\ split \subseteq split'
      /\ \A s \in Stores, i \in Jobs : i # j => (i \in JobsIn(s)' <=> i \in JobsIn(s))
    BY <1>1 DEF MovesOne, JobsIn
<1>7. j \in Placed
    BY <1>2 DEF CopiesInv
<1>8. \A s \in Stores : JobsIn(s)' \subseteq Placed'
    BY <1>5, <1>6, <1>7 DEF CopiesInv, JobsIn
<1>9. held' \cup gone' \subseteq Placed'
    BY <1>4, <1>5 DEF CopiesInv
<1>10. \A i \in Jobs \ split', s \in Stores : i \in JobsIn(s)' =>
           \/ i \in JobsIn(s)
           \/ s = t /\ i \notin gone' /\ \A u \in Stores : i \in JobsIn(u)' => u = t
    <2> SUFFICES ASSUME j \notin split', NEW s \in Stores, j \in JobsIn(s)'
                 PROVE  s = t /\ j \notin gone' /\ \A u \in Stores : j \in JobsIn(u)' => u = t
        BY <1>6
    <2>1. \A u \in Stores : j \in JobsIn(u) => u = f
        BY <1>2, <1>6 DEF CopiesInv
    <2>2. j \notin gone
        BY <1>2, <1>6 DEF CopiesInv
    <2>3. \A u \in Stores : j \in JobsIn(u)' =>
              u = t \/ (j \in JobsIn(u) /\ u # f)
        BY <1>1, <1>2, <1>3 DEF MovesOne, JobsIn
    <2>4. QED BY <1>4, <2>1, <2>2, <2>3
<1>11. QED BY <1>4, <1>5, <1>6, <1>8, <1>9, <1>10, CopiesKept

LEMMA CopiesMigrateTwoLocked ==
    ASSUME TypeOK, CopiesInv, NEW c \in Requests, MigrateTwoLocked(c)
    PROVE  CopiesInv'
<1>1. PICK S, I : MovesMany(c, S, I)
    BY MovesJobs
<1>2. PICK src \in Stores, dst \in Stores, b \in Aliases, J \in SUBSET Jobs :
          src = calls[c].store /\ dst = calls[c].target /\ b = calls[c].alias
          /\ J = calls[c].jobs
    BY CallFields DEF MigrateTwoLocked
<1>3. calls' = [calls EXCEPT ![c] = Idle] /\ UNCHANGED <<added, held, gone>>
    BY DEF MigrateTwoLocked, Ends
<1>4. CallsInv' /\ Placed \subseteq Placed'
    <2>1. Idle.op = "idle"
        BY DEF Idle
    <2>2. QED BY <1>3, <2>1, CallsKept
<1>5. J \subseteq Placed /\ S \cup I \subseteq J
    BY <1>1, <1>2 DEF CopiesInv, MigrateTwoLocked, MovesMany
<1>6. /\ \A k \in Jobs \ (S \cup I), s \in Stores : k \in JobsIn(s)' <=> k \in JobsIn(s)
      /\ \A k \in S : /\ src # dst /\ k \in JobsIn(src) /\ k \notin JobsIn(src)'
                      /\ \A s \in Stores \ {src, dst} : k \in JobsIn(s)' => k \in JobsIn(s)
      /\ split \cup I \subseteq split'
    BY <1>1, <1>2, <1>5 DEF MovesMany, JobsIn
<1>7. \A s \in Stores : JobsIn(s)' \subseteq Placed'
    BY <1>4, <1>5, <1>6 DEF CopiesInv, JobsIn
<1>8. held' \cup gone' \subseteq Placed'
    BY <1>3, <1>4 DEF CopiesInv
<1>9. \A k \in Jobs \ split', s \in Stores : k \in JobsIn(s)' =>
           \/ k \in JobsIn(s)
           \/ s = dst /\ k \notin gone' /\ \A u \in Stores : k \in JobsIn(u)' => u = dst
    <2> SUFFICES ASSUME NEW k \in S, k \notin split', NEW s \in Stores, k \in JobsIn(s)',
                        k \in Jobs
                 PROVE  /\ s = dst /\ k \notin gone'
                        /\ \A u \in Stores : k \in JobsIn(u)' => u = dst
        BY <1>6
    <2>1. \A u \in Stores : k \in JobsIn(u) => u = src
        BY <1>6 DEF CopiesInv
    <2>2. k \notin gone
        BY <1>6 DEF CopiesInv
    <2>3. QED BY <1>3, <1>6, <2>1, <2>2
<1>10. QED BY <1>3, <1>4, <1>6, <1>7, <1>8, <1>9, CopiesKept

LEMMA CopiesMigrateLocked ==
    ASSUME TypeOK, CopiesInv, NEW c \in Requests, MigrateLocked(c)
    PROVE  CopiesInv'
<1>1. MigratesStore(c)
    BY MigratesJobs
<1>2. PICK old : old = jobstores[calls[c].alias]
    OBVIOUS
<1>3. calls' = [calls EXCEPT ![c] = Idle] /\ UNCHANGED <<added, held, gone>>
    BY DEF MigrateLocked, Ends
<1>4. CallsInv' /\ Placed \subseteq Placed'
    <2>1. Idle.op = "idle"
        BY DEF Idle
    <2>2. QED BY <1>3, <2>1, CallsKept
<1>5. /\ \A s \in Stores : JobsIn(s) \subseteq Placed
      /\ held' \cup gone' \subseteq Placed'
    BY <1>3, <1>4 DEF CopiesInv
<1>6. old # None => old \in Stores
    <2>1. calls[c].alias \in Aliases
        BY CallFields DEF MigrateLocked
    <2>2. QED BY <1>2, <2>1, LiveStores
<1>7. CASE UNCHANGED <<jobstores, content, split, unsettled>>
    BY <1>3, <1>4, <1>5, <1>7, JobsInSame, CopiesKept
<1>8. ASSUME NEW new, Migrated(c, new) PROVE CopiesInv'
    <2>1. /\ old \in Stores /\ new \in Stores /\ split \subseteq split'
          /\ new = old => JobsIn(old) = {}
          /\ old \in Databases => JobsIn(old) \subseteq split'
          /\ \A s \in Stores, k \in Jobs : content'[s][k] =
               IF s = new THEN IF k \in JobsIn(old) THEN content[old][k]
                               ELSE IF new \in Memories THEN None ELSE content[new][k]
               ELSE IF s = old /\ old \in Memories THEN None ELSE content[s][k]
        BY <1>2, <1>6, <1>8 DEF Migrated
    <2>2. \A s \in Stores, k \in Jobs : k \in JobsIn(s)' =>
              k \in JobsIn(s) \/ (s = new /\ k \in JobsIn(old))
        BY <2>1 DEF JobsIn
    <2>3. \A s \in Stores : JobsIn(s)' \subseteq Placed'
        BY <1>4, <1>5, <2>1, <2>2 DEF JobsIn
    <2>4. \A k \in Jobs \ split', s \in Stores : k \in JobsIn(s)' =>
               \/ k \in JobsIn(s)
               \/ s = new /\ k \notin gone' /\ \A u \in Stores : k \in JobsIn(u)' => u = new
        <3> SUFFICES ASSUME NEW k \in JobsIn(old), k \in Jobs, k \notin split',
                            k \in JobsIn(new)'
                     PROVE  k \notin gone' /\ \A u \in Stores : k \in JobsIn(u)' => u = new
            BY <2>2
        <3>1. \A u \in Stores : k \in JobsIn(u) => u = old
            BY <2>1 DEF CopiesInv
        <3>2. k \notin gone
            BY <2>1 DEF CopiesInv
        <3>3. old \in Memories /\ new # old
            BY <2>1 DEF Stores
        <3>4. k \notin JobsIn(old)'
            BY <2>1, <3>3 DEF JobsIn
        <3>5. QED BY <1>3, <2>2, <3>1, <3>2, <3>4
    <2>5. QED BY <1>3, <1>4, <1>5, <2>1, <2>3, <2>4, CopiesKept
<1>9. ASSUME NEW new, NEW T, NotMigrated(c, new, T), jobstores[calls[c].alias] # None
      PROVE  CopiesInv'
    <2>1. /\ T \subseteq JobsIn(old) /\ T \subseteq split' /\ split \subseteq split'
          /\ \A s \in Stores, k \in Jobs : k \in JobsIn(s)' => k \in JobsIn(s) \/ k \in T
        BY <1>2, <1>9 DEF NotMigrated, JobsIn
    <2>2. T \subseteq Placed
        BY <1>2, <1>5, <1>6, <1>9, <2>1
    <2>3. \A s \in Stores : JobsIn(s)' \subseteq Placed'
        BY <1>4, <1>5, <2>1, <2>2 DEF JobsIn
    <2>4. \A k \in Jobs \ split', s \in Stores : k \in JobsIn(s)' => k \in JobsIn(s)
        BY <2>1
    <2>5. QED BY <1>3, <1>4, <1>5, <2>1, <2>3, <2>4, CopiesKept
<1>10. QED BY <1>1, <1>7, <1>8, <1>9 DEF MigratesStore

\* Steps about components start and end requests that hold no job.
ComponentOps == {"migrate", "configure", "put", "delete", "deleted",
                 "configure_executor", "put_executor", "delete_executor",
                 "deleted_executor"}

ComponentStep(c) ==
    \/ Migrate(c) \/ ConfigureStore(c) \/ CheckStore(c) \/ Save(c) \/ CountJobs(c)
    \/ DeleteStore(c) \/ RemoveRow(c) \/ ConfigureExecutor(c) \/ UpdateExecutor(c)
    \/ CountReferences(c) \/ DeleteExecutor(c)

LEMMA ComponentCalls ==
    ASSUME TypeOK, NEW c \in Requests, ComponentStep(c)
    PROVE  /\ \E v : /\ calls' = [calls EXCEPT ![c] = v]
                     /\ v.op \in ComponentOps \cup {"idle"}
           /\ calls[c].op \in ComponentOps \cup {"idle"}
           /\ UNCHANGED <<added, held, gone, split>>
<1>1. UNCHANGED <<added, held, gone, split>>
    BY DEF ComponentStep, Migrate, ConfigureStore, CheckStore, Save, CountJobs,
           DeleteStore, RemoveRow, ConfigureExecutor, UpdateExecutor,
           CountReferences, DeleteExecutor, ghosts
<1>2. Idle.op = "idle"
    BY DEF Idle
<1>3. CASE Save(c) \/ RemoveRow(c)
    BY <1>1, <1>2, <1>3 DEF Save, RemoveRow, Ends, ComponentOps
<1>4. CASE DeleteStore(c) \/ DeleteExecutor(c)
    BY <1>1, <1>2, <1>4 DEF DeleteStore, DeleteExecutor, Ends, Continues, ComponentOps, Job
<1>5. CASE Migrate(c)
    BY <1>1, <1>2, <1>5 DEF Migrate, Begins, ComponentOps
<1>6. ASSUME NEW op \in ComponentOps, NEW t, NEW a, NEW plugin,
             Begins(c, Job(op, t, a, plugin))
      PROVE  /\ \E v : /\ calls' = [calls EXCEPT ![c] = v]
                       /\ v.op \in ComponentOps \cup {"idle"}
             /\ calls[c].op \in ComponentOps \cup {"idle"}
    <2> DEFINE v == Job(op, t, a, plugin)
    <2>1. v.op = op
        BY DEF Job
    <2>2. calls' = [calls EXCEPT ![c] = v] /\ calls[c] = Idle
        BY <1>6 DEF Begins
    <2> HIDE DEF v
    <2>3. QED BY <1>2, <2>1, <2>2
<1>7. CASE ConfigureStore(c) \/ CheckStore(c)
    BY <1>1, <1>6, <1>7 DEF ConfigureStore, CheckStore, ComponentOps
<1>8. CASE CountJobs(c) \/ CountReferences(c)
    BY <1>1, <1>6, <1>8 DEF CountJobs, CountReferences, ComponentOps
<1>9. CASE ConfigureExecutor(c) \/ UpdateExecutor(c)
    BY <1>1, <1>6, <1>9 DEF ConfigureExecutor, UpdateExecutor, ComponentOps
<1>10. QED BY <1>3, <1>4, <1>5, <1>7, <1>8, <1>9 DEF ComponentStep

LEMMA CopiesMigrateTwo ==
    ASSUME TypeOK, CopiesInv, NEW c \in Requests, MigrateTwo(c)
    PROVE  CopiesInv'
<1>1. PICK a \in Aliases, b \in Aliases :
          /\ jobstores[a] # None
          /\ Begins(c, [op |-> "migrate_two", alias |-> b, store |-> jobstores[a],
                        target |-> jobstores[b], jobs |-> JobsIn(jobstores[a])])
    BY DEF MigrateTwo
<1>2. jobstores[a] \in Stores
    BY <1>1, LiveStores
<1>3. JobsIn(jobstores[a]) \subseteq Placed
    BY <1>2 DEF CopiesInv
<1>4. \E v : /\ calls' = [calls EXCEPT ![c] = v] /\ v.op # "add_job"
             /\ v.op = "migrate_two" => v.jobs \subseteq Placed
    <2> DEFINE v == [op |-> "migrate_two", alias |-> b, store |-> jobstores[a],
                     target |-> jobstores[b], jobs |-> JobsIn(jobstores[a])]
    <2>1. v.op = "migrate_two" /\ v.jobs = JobsIn(jobstores[a])
        OBVIOUS
    <2>2. calls' = [calls EXCEPT ![c] = v]
        BY <1>1 DEF Begins
    <2> HIDE DEF v
    <2>3. QED BY <1>3, <2>1, <2>2
<1>5. UNCHANGED <<content, added, held, gone, split>>
    BY DEF MigrateTwo, ghosts
<1>6. QED BY <1>4, <1>5, JobsInSame, CopiesFewer

LEMMA CopiesComponents ==
    ASSUME TypeOK, CopiesInv, NEW c \in Requests, ComponentStep(c)
    PROVE  CopiesInv'
<1>1. PICK v : /\ calls' = [calls EXCEPT ![c] = v]
               /\ v.op # "add_job" /\ v.op # "migrate_two"
    BY ComponentCalls DEF ComponentOps
<1>2. UNCHANGED <<added, held, gone, split>>
    BY ComponentCalls
<1>3. \A s \in Stores : JobsIn(s)' \subseteq JobsIn(s)
    <2>1. CASE ConfigureStore(c)
        BY <2>1, RegistersStore DEF Registers, JobsIn
    <2>2. CASE DeleteStore(c)
        <3>1. content \in ContentType
            BY TypeParts
        <3>2. CASE content' = content
            BY <3>2, JobsInSame
        <3>3. CASE jobstores[calls[c].alias] # None
                   /\ content' = Closed(content, jobstores[calls[c].alias])
            <4>1. jobstores[calls[c].alias] \in Stores
                BY <2>2, <3>3, CallFields, LiveStores, Constants DEF DeleteStore
            <4>2. \A s \in Stores, k \in Jobs :
                      content'[s][k] # None => content[s][k] # None
                BY <3>1, <3>3, <4>1, ClosedEffect
            <4>3. QED BY <4>2 DEF JobsIn
        <3>4. QED BY <2>2, <3>2, <3>3 DEF DeleteStore
    <2>3. CASE UNCHANGED content
        BY <2>3, JobsInSame
    <2>4. QED
        BY <2>1, <2>2, <2>3
           DEF ComponentStep, Migrate, CheckStore, Save, CountJobs, RemoveRow,
               ConfigureExecutor, UpdateExecutor, CountReferences, DeleteExecutor
<1>4. QED BY <1>1, <1>2, <1>3, CopiesFewer

LEMMA CopiesRestart ==
    ASSUME TypeOK, CopiesInv, Restart
    PROVE  CopiesInv'
<1>1. \A c \in Requests : calls'[c].op = "idle"
    BY DEF Restart, Idle
<1>2. UNCHANGED <<added, held, gone, split>>
    BY DEF Restart
<1>3. Adding' = {} /\ Placed' = added
    BY <1>1, <1>2 DEF Adding, Placed
<1>4. CallsInv' /\ Placed \subseteq Placed'
    BY <1>1, <1>3 DEF CallsInv, Placed
<1>5. \A s \in Stores : JobsIn(s)' \subseteq JobsIn(s)
    BY DEF Restart, JobsIn, Empty
<1>6. /\ held' \cup gone' \subseteq Placed'
      /\ \A s \in Stores : JobsIn(s)' \subseteq Placed'
    BY <1>2, <1>4, <1>5 DEF CopiesInv
<1>7. QED BY <1>2, <1>4, <1>5, <1>6, CopiesKept

LEMMA CopiesNext == TypeOK /\ CopiesInv /\ [Next]_vars => TypeOK' /\ CopiesInv'
<1> SUFFICES ASSUME TypeOK, CopiesInv, [Next]_vars PROVE TypeOK' /\ CopiesInv'
    OBVIOUS
<1>1. CASE UNCHANGED vars
    BY <1>1 DEF vars, counters, ghosts, TypeOK, CopiesInv, Adding, Placed, JobsIn
<1>2. CASE Restart
    BY <1>2, TypeRestart, CopiesRestart
<1>3. ASSUME NEW c \in Requests, ComponentStep(c)
      PROVE  TypeOK' /\ CopiesInv'
    BY <1>3, TypeStores, TypeRows, TypeExecutors, CopiesComponents DEF ComponentStep
<1>4. ASSUME NEW c \in Requests, MigrateTwo(c) \/ MigrateTwoLocked(c) \/ MigrateLocked(c)
      PROVE  TypeOK' /\ CopiesInv'
    BY <1>4, TypeMigrateTwo, TypeMigrateTwoLocked, TypeMigrateLocked,
       CopiesMigrateTwo, CopiesMigrateTwoLocked, CopiesMigrateLocked
<1>5. ASSUME NEW c \in Requests,
             AddJob(c) \/ AddJobLocked(c) \/ RemoveJob(c) \/ MoveJob(c)
      PROVE  TypeOK' /\ CopiesInv'
    <2>1. /\ \A d \in Adding : calls[d].job \in added
          /\ \A s \in Stores : JobsIn(s) \subseteq Placed
        BY DEF CopiesInv
    <2>2. TypeOK'
        BY <1>5, <2>1, TypeAddJob, TypeAddJobLocked, TypeRemoveJob, TypeMoveJob
    <2>3. CopiesInv'
        BY <1>5, CopiesAddJob, CopiesAddJobLocked, CopiesRemoveJob, CopiesMoveJob
    <2>4. QED BY <2>2, <2>3
<1>6. QED BY <1>1, <1>2, <1>3, <1>4, <1>5 DEF Next, ComponentStep

(***************************************************************************)
(* Every variable keeps its type: in particular the default store and      *)
(* executor, and their rows, are always there, whatever is removed         *)
(* (remove_jobstore, remove_executor, restore_component_configs).          *)
(***************************************************************************)
THEOREM TypeCorrect == Spec => []TypeOK
<1>1. Init => TypeOK /\ CopiesInv
    BY TypeInit, CopiesInit
<1>2. QED BY <1>1, CopiesNext, PTL DEF Spec

\* No job is in two stores, and a removed one is in none, until a migration
\* or a move leaves a copy behind (migrate_jobstore, update_job, remove_job).
THEOREM CopiesInvariant == Spec => []CopiesInv
<1>1. Init => TypeOK /\ CopiesInv
    BY TypeInit, CopiesInit
<1>2. QED BY <1>1, CopiesNext, PTL DEF Spec

\* A removed job does not come back, whatever is migrated, exchanged or
\* restarted afterwards.
THEOREM StaysRemovedHolds == Spec => []StaysRemoved
<1>1. TypeOK /\ CopiesInv => StaysRemoved
    <2> SUFFICES ASSUME TypeOK, CopiesInv, NEW j \in gone \ split, Find(j) # None
                 PROVE  FALSE
        BY DEF StaysRemoved
    <2>1. j \in Jobs
        BY TypeParts
    <2>2. j \in JobsIn(Find(j)) /\ Find(j) \in Stores
        BY <2>1, FindLive, LiveStores
    <2>3. QED BY <2>2 DEF CopiesInv
<1>2. QED BY <1>1, TypeCorrect, CopiesInvariant, PTL

-----------------------------------------------------------------------------
(* Rows: what a restart restores.                                          *)

\* The request, if it is one, that is about a component and concerns alias a.
About(call, t, a) ==
    call.op \notin JobOps \cup {"idle"} /\ call.table = t /\ call.alias = a

LEMMA ConfiguringAfter ==
    ASSUME TypeOK, NEW c \in Requests, NEW v, calls' = [calls EXCEPT ![c] = v],
           NEW t, NEW a
    PROVE  /\ Configuring(t, a)' = IF About(v, t, a) THEN Configuring(t, a) \cup {c}
                                                     ELSE Configuring(t, a) \ {c}
           /\ About(calls[c], t, a) <=> c \in Configuring(t, a)
           /\ calls'[c] = v
           /\ \A d \in Requests : d # c => calls'[d] = calls[d]
           /\ Configuring(t, a) \subseteq Requests
<1>1. \A d \in Requests : calls'[d] = IF d = c THEN v ELSE calls[d]
    BY DEF TypeOK
<1>2. QED BY <1>1 DEF Configuring, About

\* An alias that the step is not about.
LEMMA AgreesElsewhere ==
    ASSUME TypeOK, RowsInv, NEW c \in Requests, NEW v, calls' = [calls EXCEPT ![c] = v],
           NEW t, NEW a \in Aliases, ~About(v, t, a), ~About(calls[c], t, a),
           <<t, a>> \in unsettled => <<t, a>> \in unsettled'
    PROVE  /\ /\ t = "jobstore" /\ rows'["jobstore"][a] = rows["jobstore"][a]
              /\ jobstores'[a] = jobstores[a] /\ <<t, a>> \notin unsettled'
              => StoreAgrees(a)'
           /\ /\ t = "executor" /\ rows'["executor"][a] = rows["executor"][a]
              /\ executors'[a] = executors[a] /\ <<t, a>> \notin unsettled'
              => ExecutorAgrees(a)'
<1>1. /\ Configuring(t, a)' = Configuring(t, a) /\ c \notin Configuring(t, a)
      /\ \A d \in Configuring(t, a) : calls'[d] = calls[d]
    <2>1. /\ Configuring(t, a)' = Configuring(t, a) \ {c} /\ c \notin Configuring(t, a)
          /\ \A d \in Requests : d # c => calls'[d] = calls[d]
          /\ Configuring(t, a) \subseteq Requests
        BY ConfiguringAfter
    <2>2. Configuring(t, a)' = Configuring(t, a)
        BY <2>1
    <2>3. QED BY <2>1, <2>2
<1>2. ASSUME t = "jobstore", rows'["jobstore"][a] = rows["jobstore"][a],
             jobstores'[a] = jobstores[a], <<t, a>> \notin unsettled'
      PROVE  StoreAgrees(a)'
    <2>1. StoreAgrees(a)
        BY <1>2 DEF RowsInv
    <2>2. InStore(a)' = InStore(a)
        BY <1>2 DEF InStore
    <2>3. QED BY <1>1, <1>2, <2>1, <2>2 DEF StoreAgrees
<1>3. ASSUME t = "executor", rows'["executor"][a] = rows["executor"][a],
             executors'[a] = executors[a], <<t, a>> \notin unsettled'
      PROVE  ExecutorAgrees(a)'
    <2>1. ExecutorAgrees(a)
        BY <1>3 DEF RowsInv
    <2>2. QED BY <1>1, <1>3, <2>1 DEF ExecutorAgrees
<1>4. QED BY <1>2, <1>3

\* A step about one alias t0, a0: the others are as before.
Elsewhere(t0, a0) ==
    /\ \A t, a : <<t, a>> # <<t0, a0>> =>
                    (<<t, a>> \in unsettled => <<t, a>> \in unsettled')
    /\ \A a \in Aliases :
          /\ <<"jobstore", a>> # <<t0, a0>> =>
                 rows'["jobstore"][a] = rows["jobstore"][a] /\ jobstores'[a] = jobstores[a]
          /\ <<"executor", a>> # <<t0, a0>> =>
                 rows'["executor"][a] = rows["executor"][a] /\ executors'[a] = executors[a]

LEMMA RowsElsewhere ==
    ASSUME TypeOK, RowsInv, NEW c \in Requests, NEW v, calls' = [calls EXCEPT ![c] = v],
           NEW t0, NEW a0,
           \A t, a : <<t, a>> # <<t0, a0>> => ~About(v, t, a) /\ ~About(calls[c], t, a),
           Elsewhere(t0, a0),
           <<"jobstore", a0>> \notin unsettled' /\ t0 = "jobstore" /\ a0 \in Aliases =>
               StoreAgrees(a0)',
           <<"executor", a0>> \notin unsettled' /\ t0 = "executor" /\ a0 \in Aliases =>
               ExecutorAgrees(a0)'
    PROVE  RowsInv'
<1>1. ASSUME NEW a \in Aliases, <<"jobstore", a>> \notin unsettled'
      PROVE  StoreAgrees(a)'
    <2>1. CASE <<"jobstore", a>> = <<t0, a0>>
        BY <1>1, <2>1
    <2>2. CASE <<"jobstore", a>> # <<t0, a0>>
        BY <1>1, <2>2, AgreesElsewhere DEF Elsewhere
    <2>3. QED BY <2>1, <2>2
<1>2. ASSUME NEW a \in Aliases, <<"executor", a>> \notin unsettled'
      PROVE  ExecutorAgrees(a)'
    <2>1. CASE <<"executor", a>> = <<t0, a0>>
        BY <1>2, <2>1
    <2>2. CASE <<"executor", a>> # <<t0, a0>>
        BY <1>2, <2>2, AgreesElsewhere DEF Elsewhere
    <2>3. QED BY <2>1, <2>2
<1>3. QED BY <1>1, <1>2 DEF RowsInv

\* The steps about jobs have nothing to do with rows.
LEMMA RowsJobs ==
    ASSUME TypeOK, RowsInv, NEW c \in Requests,
           \/ AddJob(c) \/ AddJobLocked(c) \/ RemoveJob(c) \/ MoveJob(c)
           \/ MigrateTwo(c) \/ MigrateTwoLocked(c)
    PROVE  RowsInv'
<1>1. PICK v : /\ calls' = [calls EXCEPT ![c] = v]
               /\ v.op \in JobOps \cup {"idle"} /\ calls[c].op \in JobOps \cup {"idle"}
    <2>1. Idle.op = "idle"
        BY DEF Idle
    <2>2. CASE AddJobLocked(c) \/ MigrateTwoLocked(c)
        BY <2>1, <2>2 DEF AddJobLocked, MigrateTwoLocked, Ends, JobOps
    <2>3. CASE RemoveJob(c) \/ MoveJob(c)
        <3>1. calls' = calls /\ calls[c] = Idle
            BY <2>3 DEF RemoveJob, MoveJob, Single
        <3>2. calls = [calls EXCEPT ![c] = Idle]
            BY <3>1 DEF TypeOK
        <3>3. QED BY <2>1, <3>1, <3>2
    <2>4. ASSUME NEW v, v.op \in JobOps, Begins(c, v)
          PROVE  \E w : /\ calls' = [calls EXCEPT ![c] = w]
                        /\ w.op \in JobOps \cup {"idle"}
                        /\ calls[c].op \in JobOps \cup {"idle"}
        BY <2>1, <2>4 DEF Begins
    <2>5. CASE AddJob(c)
        BY <2>4, <2>5 DEF AddJob, JobOps
    <2>6. CASE MigrateTwo(c)
        BY <2>4, <2>6 DEF MigrateTwo, JobOps
    <2>7. QED BY <2>2, <2>3, <2>5, <2>6
<1>2. UNCHANGED <<jobstores, executors, rows, unsettled>>
    BY DEF AddJob, AddJobLocked, RemoveJob, MoveJob, MigrateTwo, MigrateTwoLocked, ghosts
<1>3. \A t, a : ~About(v, t, a) /\ ~About(calls[c], t, a)
    BY <1>1 DEF About
<1>4. Elsewhere("none", "none")
    BY <1>2 DEF Elsewhere
<1>5. QED BY <1>1, <1>3, <1>4, RowsElsewhere

LEMMA RowsInit == Init => RowsInv
<1> SUFFICES ASSUME Init PROVE RowsInv
    OBVIOUS
<1> DEFINE row == [a \in Aliases |-> IF a = "default" THEN "memory" ELSE None]
<1>1. row \in [Aliases -> StorePlugins \cup {None}]
    BY DEF StorePlugins
<1>2. /\ jobstores = Restored(row) /\ rows["jobstore"] = row
      /\ rows["executor"] = executors
    BY DEF Init
<1>3. \A t, a : Configuring(t, a) = {}
    BY DEF Init, Idle, Configuring
<1> HIDE DEF row
<1>4. \A a \in Aliases : InStore(a) = row[a]
    BY <1>1, <1>2, RestoredStores, Constants DEF InStore, Stores, StorePlugins
<1>5. QED BY <1>2, <1>3, <1>4 DEF RowsInv, StoreAgrees, ExecutorAgrees

LEMMA RowsRestart ==
    ASSUME TypeOK, RowsInv, Restart
    PROVE  RowsInv'
<1>1. PICK row : row = rows["jobstore"]
    OBVIOUS
<1>2. row \in [Aliases -> StorePlugins \cup {None}]
    BY <1>1 DEF TypeOK
<1>3. /\ jobstores' = Restored(row) /\ rows'["jobstore"] = row
      /\ rows'["executor"] = executors'
    BY <1>1 DEF Restart
<1>4. \A t, a : Configuring(t, a)' = {}
    BY DEF Restart, Idle, Configuring
<1>5. \A a \in Aliases : InStore(a)' = row[a]
    BY <1>2, <1>3, RestoredStores, Constants DEF InStore, Stores, StorePlugins
<1>6. QED BY <1>3, <1>4, <1>5 DEF RowsInv, StoreAgrees, ExecutorAgrees

\* What the row and the live component of alias a are while call is at work.
StoreCall(call, a) ==
    /\ call.op \in {"put", "delete", "migrate"} => rows["jobstore"][a] = InStore(a)
    /\ call.op = "migrate" => rows["jobstore"][a] = call.plugin
    /\ call.op = "configure" => InStore(a) = call.plugin
    /\ call.op = "deleted" => InStore(a) = None

ExecutorCall(call, a) ==
    /\ call.op = "delete_executor" => rows["executor"][a] = executors[a]
    /\ call.op \in {"configure_executor", "put_executor"} => executors[a] = call.plugin
    /\ call.op = "deleted_executor" => executors[a] = None

\* A request that meets no other at its alias.
LEMMA AgreesAlone ==
    ASSUME NEW c \in Requests, NEW a \in Aliases
    PROVE  /\ /\ Configuring("jobstore", a) = {c} /\ StoreCall(calls[c], a)
              => StoreAgrees(a)
           /\ /\ Configuring("executor", a) = {c} /\ ExecutorCall(calls[c], a)
              => ExecutorAgrees(a)
           /\ /\ Configuring("jobstore", a) = {} /\ rows["jobstore"][a] = InStore(a)
              => StoreAgrees(a)
           /\ /\ Configuring("executor", a) = {} /\ rows["executor"][a] = executors[a]
              => ExecutorAgrees(a)
BY DEF StoreAgrees, ExecutorAgrees, StoreCall, ExecutorCall

LEMMA RowsBegins ==
    ASSUME TypeOK, RowsInv, NEW c \in Requests, NEW v, Begins(c, v),
           v.op \in ComponentOps, NEW t \in {"jobstore", "executor"}, NEW a \in Aliases,
           t = v.table, a = v.alias, Overlaps(t, a), rows' = rows,
           \A b \in Aliases : (t = "jobstore" /\ b = a) \/ jobstores'[b] = jobstores[b],
           \A b \in Aliases : (t = "executor" /\ b = a) \/ executors'[b] = executors[b],
           t = "jobstore" /\ rows["jobstore"][a] = InStore(a) => StoreCall(v, a)',
           t = "executor" /\ rows["executor"][a] = executors[a] => ExecutorCall(v, a)'
    PROVE  RowsInv'
<1>1. /\ calls' = [calls EXCEPT ![c] = v] /\ calls[c] = Idle /\ calls[c].op = "idle"
    BY DEF Begins, Idle
<1>2. /\ About(v, t, a) /\ \A u, b : <<u, b>> # <<t, a>> => ~About(v, u, b)
      /\ \A u, b : ~About(calls[c], u, b)
    BY <1>1 DEF About, ComponentOps, JobOps
<1>3. Elsewhere(t, a)
    BY DEF Elsewhere, Overlaps
<1>4. calls'[c] = v
    BY <1>1 DEF TypeOK
<1>5. ASSUME <<t, a>> \notin unsettled'
      PROVE  /\ <<t, a>> \notin unsettled /\ Configuring(t, a) = {}
             /\ Configuring(t, a)' = {c}
    <2>1. Configuring(t, a) = {} /\ <<t, a>> \notin unsettled
        BY <1>5 DEF Overlaps
    <2>2. Configuring(t, a)' = Configuring(t, a) \cup {c}
        BY <1>1, <1>2, ConfiguringAfter
    <2>3. QED BY <2>1, <2>2
<1>6. ASSUME t = "jobstore", <<t, a>> \notin unsettled'
      PROVE  StoreAgrees(a)'
    <2>1. rows["jobstore"][a] = InStore(a)
        BY <1>5, <1>6 DEF RowsInv, StoreAgrees
    <2>2. StoreCall(calls[c], a)'
        BY <2>1, <1>4, <1>6 DEF StoreCall
    <2>3. (Configuring("jobstore", a) = {c})'
        BY <1>5, <1>6
    <2>4. (/\ /\ Configuring("jobstore", a) = {c} /\ StoreCall(calls[c], a)
           => StoreAgrees(a))'
        BY AgreesAlone, PTL
    <2>5. QED BY <2>2, <2>3, <2>4
<1>7. ASSUME t = "executor", <<t, a>> \notin unsettled'
      PROVE  ExecutorAgrees(a)'
    <2>1. rows["executor"][a] = executors[a]
        BY <1>5, <1>7 DEF RowsInv, ExecutorAgrees
    <2>2. ExecutorCall(calls[c], a)'
        BY <2>1, <1>4, <1>7 DEF ExecutorCall
    <2>3. (Configuring("executor", a) = {c})'
        BY <1>5, <1>7
    <2>4. (/\ /\ Configuring("executor", a) = {c} /\ ExecutorCall(calls[c], a)
           => ExecutorAgrees(a))'
        BY AgreesAlone, PTL
    <2>5. QED BY <2>2, <2>3, <2>4
<1>8. QED BY <1>1, <1>2, <1>3, <1>6, <1>7, RowsElsewhere

LEMMA Settled ==
    ASSUME TypeOK, RowsInv, NEW c \in Requests, NEW t, NEW a \in Aliases,
           About(calls[c], t, a), <<t, a>> \notin unsettled
    PROVE  /\ t \in {"jobstore", "executor"} => Configuring(t, a) = {c}
           /\ t = "jobstore" => StoreCall(calls[c], a)
           /\ t = "executor" => ExecutorCall(calls[c], a)
<1>1. c \in Configuring(t, a)
    BY DEF About, Configuring
<1>2. CASE t = "jobstore"
    <2>1. StoreAgrees(a)
        BY <1>2 DEF RowsInv
    <2>2. QED BY <1>1, <1>2, <2>1 DEF StoreAgrees, StoreCall
<1>3. CASE t = "executor"
    <2>1. ExecutorAgrees(a)
        BY <1>3 DEF RowsInv
    <2>2. QED BY <1>1, <1>3, <2>1 DEF ExecutorAgrees, ExecutorCall
<1>4. QED BY <1>2, <1>3

LEMMA RowsEnds ==
    ASSUME TypeOK, RowsInv, NEW c \in Requests, calls' = [calls EXCEPT ![c] = Idle],
           NEW t \in {"jobstore", "executor"}, NEW a \in Aliases,
           About(calls[c], t, a), Elsewhere(t, a),
           <<t, a>> \notin unsettled' =>
               /\ Configuring(t, a) = {c}
               /\ t = "jobstore" => rows'["jobstore"][a] = InStore(a)'
               /\ t = "executor" => rows'["executor"][a] = executors'[a]
    PROVE  RowsInv'
<1>1. \A u, b : ~About(Idle, u, b)
    BY DEF About, Idle
<1>2. \A u, b : <<u, b>> # <<t, a>> => ~About(calls[c], u, b)
    BY DEF About
<1>3. Configuring(t, a)' = Configuring(t, a) \ {c}
    BY <1>1, ConfiguringAfter
<1>4. ASSUME t = "jobstore", <<t, a>> \notin unsettled'
      PROVE  StoreAgrees(a)'
    <2>1. (Configuring("jobstore", a) = {} /\ rows["jobstore"][a] = InStore(a))'
        BY <1>3, <1>4
    <2>2. (/\ Configuring("jobstore", a) = {} /\ rows["jobstore"][a] = InStore(a)
           => StoreAgrees(a))'
        BY AgreesAlone, PTL
    <2>3. QED BY <2>1, <2>2
<1>5. ASSUME t = "executor", <<t, a>> \notin unsettled'
      PROVE  ExecutorAgrees(a)'
    <2>1. (Configuring("executor", a) = {} /\ rows["executor"][a] = executors[a])'
        BY <1>3, <1>5
    <2>2. (/\ Configuring("executor", a) = {} /\ rows["executor"][a] = executors[a]
           => ExecutorAgrees(a))'
        BY AgreesAlone, PTL
    <2>3. QED BY <2>1, <2>2
<1>6. QED BY <1>1, <1>2, <1>4, <1>5, RowsElsewhere

LEMMA RowsContinues ==
    ASSUME TypeOK, RowsInv, NEW c \in Requests, NEW v, calls' = [calls EXCEPT ![c] = v],
           NEW t \in {"jobstore", "executor"}, NEW a \in Aliases,
           About(calls[c], t, a), About(v, t, a), Elsewhere(t, a),
           <<t, a>> \notin unsettled' =>
               /\ Configuring(t, a) = {c}
               /\ t = "jobstore" => StoreCall(v, a)'
               /\ t = "executor" => ExecutorCall(v, a)'
    PROVE  RowsInv'
<1>1. \A u, b : <<u, b>> # <<t, a>> => ~About(calls[c], u, b) /\ ~About(v, u, b)
    BY DEF About
<1>2. Configuring(t, a)' = Configuring(t, a) \cup {c} /\ calls'[c] = v
    BY ConfiguringAfter
<1>3. ASSUME t = "jobstore", <<t, a>> \notin unsettled'
      PROVE  StoreAgrees(a)'
    <2>1. (Configuring("jobstore", a) = {c})'
        BY <1>2, <1>3
    <2>2. StoreCall(calls[c], a)'
        BY <1>2, <1>3 DEF StoreCall
    <2>3. (/\ /\ Configuring("jobstore", a) = {c} /\ StoreCall(calls[c], a)
           => StoreAgrees(a))'
        BY AgreesAlone, PTL
    <2>4. QED BY <2>1, <2>2, <2>3
<1>4. ASSUME t = "executor", <<t, a>> \notin unsettled'
      PROVE  ExecutorAgrees(a)'
    <2>1. (Configuring("executor", a) = {c})'
        BY <1>2, <1>4
    <2>2. ExecutorCall(calls[c], a)'
        BY <1>2, <1>4 DEF ExecutorCall
    <2>3. (/\ /\ Configuring("executor", a) = {c} /\ ExecutorCall(calls[c], a)
           => ExecutorAgrees(a))'
        BY AgreesAlone, PTL
    <2>4. QED BY <2>1, <2>2, <2>3
<1>5. QED BY <1>1, <1>3, <1>4, RowsElsewhere

LEMMA RowsStart ==
    ASSUME TypeOK, RowsInv, NEW c \in Requests,
           \/ Migrate(c) \/ ConfigureStore(c) \/ CheckStore(c) \/ CountJobs(c)
    PROVE  RowsInv'
<1>1. CASE Migrate(c)
    <2>1. PICK a \in Aliases :
              /\ Begins(c, [op |-> "migrate", table |-> "jobstore", alias |-> a,
                            plugin |-> rows["jobstore"][a]])
              /\ Overlaps("jobstore", a)
        BY <1>1 DEF Migrate
    <2> DEFINE v0 == [op |-> "migrate", table |-> "jobstore", alias |-> a,
                      plugin |-> rows["jobstore"][a]]
    <2>2. PICK v : v = v0
        OBVIOUS
    <2>3. /\ v.op = "migrate" /\ v.table = "jobstore" /\ v.alias = a
          /\ v.plugin = rows["jobstore"][a]
        BY <2>2
    <2>4. Begins(c, v)
        BY <2>1, <2>2
    <2>5. UNCHANGED <<jobstores, executors, rows>>
        BY <1>1 DEF Migrate
    <2>6. rows["jobstore"][a] = InStore(a) => StoreCall(v, a)'
        BY <2>3, <2>5 DEF StoreCall, InStore
    <2>7. QED BY <2>1, <2>3, <2>4, <2>5, <2>6, RowsBegins DEF ComponentOps
<1>2. CASE ConfigureStore(c)
    <2>1. PICK a \in Aliases, plugin \in StorePlugins, new \in Stores :
              /\ Registers(a, new, plugin)
              /\ Begins(c, Job("configure", "jobstore", a, plugin))
              /\ Overlaps("jobstore", a)
        BY <1>2, RegistersStore
    <2>2. PICK v : v = Job("configure", "jobstore", a, plugin)
        OBVIOUS
    <2>3. /\ v.op = "configure" /\ v.table = "jobstore" /\ v.alias = a
          /\ v.plugin = plugin
        BY <2>2 DEF Job
    <2>4. UNCHANGED <<executors, rows>>
        BY <1>2 DEF ConfigureStore
    <2>5. jobstores'[a] = new /\ \A b \in Aliases : b # a => jobstores'[b] = jobstores[b]
        BY <2>1, TypeParts DEF Registers
    <2>6. StoreCall(v, a)'
        BY <2>1, <2>3, <2>5, Constants DEF StoreCall, InStore, Registers
    <2>7. QED BY <2>1, <2>2, <2>3, <2>4, <2>5, <2>6, RowsBegins DEF ComponentOps
<1>3. CASE CheckStore(c) \/ CountJobs(c)
    <2>1. PICK op \in {"put", "delete"}, a \in Aliases,
               plugin \in StorePlugins \cup {None} :
              Begins(c, Job(op, "jobstore", a, plugin)) /\ Overlaps("jobstore", a)
        BY <1>3 DEF CheckStore, CountJobs, Removable
    <2>2. PICK v : v = Job(op, "jobstore", a, plugin)
        OBVIOUS
    <2>3. v.op \in {"put", "delete"} /\ v.table = "jobstore" /\ v.alias = a
        BY <2>2 DEF Job
    <2>4. UNCHANGED <<jobstores, executors, rows>>
        BY <1>3 DEF CheckStore, CountJobs
    <2>5. rows["jobstore"][a] = InStore(a) => StoreCall(v, a)'
        BY <2>3, <2>4 DEF StoreCall, InStore
    <2>6. QED BY <2>1, <2>2, <2>3, <2>4, <2>5, RowsBegins DEF ComponentOps
<1>4. QED BY <1>1, <1>2, <1>3

LEMMA RowsExecutors ==
    ASSUME TypeOK, RowsInv, NEW c \in Requests,
           \/ ConfigureExecutor(c) \/ UpdateExecutor(c) \/ CountReferences(c)
           \/ DeleteExecutor(c)
    PROVE  RowsInv'
<1>1. CASE ConfigureExecutor(c) \/ UpdateExecutor(c)
    <2>1. PICK op \in {"configure_executor", "put_executor"}, a \in Aliases,
               plugin \in ExecutorPlugins :
              /\ Begins(c, Job(op, "executor", a, plugin))
              /\ executors' = [executors EXCEPT ![a] = plugin]
              /\ Overlaps("executor", a)
        BY <1>1 DEF ConfigureExecutor, UpdateExecutor
    <2>2. PICK v : v = Job(op, "executor", a, plugin)
        OBVIOUS
    <2>3. /\ v.op = op /\ v.table = "executor" /\ v.alias = a /\ v.plugin = plugin
        BY <2>2 DEF Job
    <2>4. UNCHANGED <<jobstores, rows>>
        BY <1>1 DEF ConfigureExecutor, UpdateExecutor
    <2>5. /\ executors'[a] = plugin
          /\ \A b \in Aliases : b # a => executors'[b] = executors[b]
        BY <2>1, TypeParts
    <2>6. ExecutorCall(v, a)'
        BY <2>3, <2>5 DEF ExecutorCall
    <2>7. QED BY <2>1, <2>2, <2>3, <2>4, <2>5, <2>6, RowsBegins DEF ComponentOps
<1>2. CASE CountReferences(c)
    <2>1. PICK a \in Aliases : /\ Begins(c, Job("delete_executor", "executor", a, None))
                               /\ Overlaps("executor", a)
        BY <1>2 DEF CountReferences, Removable
    <2>2. PICK v : v = Job("delete_executor", "executor", a, None)
        OBVIOUS
    <2>3. v.op = "delete_executor" /\ v.table = "executor" /\ v.alias = a
        BY <2>2 DEF Job
    <2>4. UNCHANGED <<jobstores, executors, rows>>
        BY <1>2 DEF CountReferences
    <2>5. rows["executor"][a] = executors[a] => ExecutorCall(v, a)'
        BY <2>3, <2>4 DEF ExecutorCall
    <2>6. QED BY <2>1, <2>2, <2>3, <2>4, <2>5, RowsBegins DEF ComponentOps
<1>3. CASE DeleteExecutor(c)
    <2>1. PICK a \in Aliases : a = calls[c].alias /\ a = "extra"
        BY <1>3, CallFields, Constants DEF DeleteExecutor
    <2>2. /\ calls[c].op = "delete_executor" /\ calls[c].table = "executor"
          /\ About(calls[c], "executor", a)
        BY <1>3, <2>1, CallFields DEF DeleteExecutor, About, JobOps
    <2>3. UNCHANGED <<jobstores, rows, unsettled>>
        BY <1>3 DEF DeleteExecutor, ghosts
    <2>4. <<"executor", a>> \notin unsettled =>
              Configuring("executor", a) = {c} /\ rows["executor"][a] = executors[a]
        BY <2>2, Settled DEF ExecutorCall
    <2>5. CASE executors[a] = None /\ Ends(c) /\ UNCHANGED executors
        <3>1. Elsewhere("executor", a)
            BY <2>3, <2>5 DEF Elsewhere
        <3>2. calls' = [calls EXCEPT ![c] = Idle]
            BY <2>5 DEF Ends
        <3>3. QED BY <2>2, <2>3, <2>4, <2>5, <3>1, <3>2, RowsEnds
    <2>6. CASE /\ executors' = [executors EXCEPT ![a] = None]
               /\ Continues(c, Job("deleted_executor", "executor", a, None))
        <3>1. PICK v : v = Job("deleted_executor", "executor", a, None)
            OBVIOUS
        <3>2. /\ v.op = "deleted_executor" /\ About(v, "executor", a)
            BY <3>1 DEF Job, About, JobOps
        <3>3. /\ executors'[a] = None
              /\ \A b \in Aliases : b # a => executors'[b] = executors[b]
            BY <2>6, TypeParts
        <3>4. Elsewhere("executor", a) /\ ExecutorCall(v, a)'
            BY <2>3, <3>2, <3>3 DEF Elsewhere, ExecutorCall
        <3>5. calls' = [calls EXCEPT ![c] = v]
            BY <2>6, <3>1 DEF Continues
        <3>6. QED BY <2>2, <2>3, <2>4, <3>2, <3>4, <3>5, RowsContinues
    <2>7. QED BY <1>3, <2>1, <2>5, <2>6 DEF DeleteExecutor
<1>4. QED BY <1>1, <1>2, <1>3

LEMMA RowsDeleteStore ==
    ASSUME TypeOK, RowsInv, NEW c \in Requests, DeleteStore(c)
    PROVE  RowsInv'
<1>1. PICK a \in Aliases : a = calls[c].alias /\ a = "extra"
    BY CallFields, Constants DEF DeleteStore
<1>2. /\ calls[c].op = "delete" /\ calls[c].table = "jobstore"
      /\ About(calls[c], "jobstore", a)
    BY <1>1, CallFields DEF DeleteStore, About, JobOps
<1>3. UNCHANGED <<executors, rows, unsettled>>
    BY DEF DeleteStore
<1>4. <<"jobstore", a>> \notin unsettled =>
          Configuring("jobstore", a) = {c} /\ rows["jobstore"][a] = InStore(a)
    BY <1>2, Settled DEF StoreCall
<1>5. CASE Ends(c) /\ UNCHANGED jobstores
    <2>1. Elsewhere("jobstore", a) /\ InStore(a)' = InStore(a)
        BY <1>3, <1>5 DEF Elsewhere, InStore
    <2>2. calls' = [calls EXCEPT ![c] = Idle]
        BY <1>5 DEF Ends
    <2>3. QED BY <1>2, <1>3, <1>4, <2>1, <2>2, RowsEnds
<1>6. CASE /\ jobstores' = [jobstores EXCEPT ![a] = None]
           /\ Continues(c, Job("deleted", "jobstore", a, None))
    <2>1. PICK v : v = Job("deleted", "jobstore", a, None)
        OBVIOUS
    <2>2. v.op = "deleted" /\ About(v, "jobstore", a)
        BY <2>1 DEF Job, About, JobOps
    <2>3. /\ jobstores'[a] = None
          /\ \A b \in Aliases : b # a => jobstores'[b] = jobstores[b]
        BY <1>6, TypeParts
    <2>4. Elsewhere("jobstore", a) /\ StoreCall(v, a)'
        BY <1>3, <2>2, <2>3 DEF Elsewhere, StoreCall, InStore
    <2>5. calls' = [calls EXCEPT ![c] = v]
        BY <1>6, <2>1 DEF Continues
    <2>6. QED BY <1>2, <1>3, <1>4, <2>2, <2>4, <2>5, RowsContinues
<1>7. QED BY <1>1, <1>5, <1>6 DEF DeleteStore

LEMMA RowTyped ==
    TypeOK => rows \in [jobstore : [Aliases -> StorePlugins \cup {None}],
                        executor : [Aliases -> ExecutorPlugins \cup {None}]]
BY DEF TypeOK

\* What an assignment to one row leaves of the others.
LEMMA RowWritten ==
    ASSUME TypeOK, NEW t \in {"jobstore", "executor"}, NEW a \in Aliases, NEW x,
           rows' = [rows EXCEPT ![t][a] = x]
    PROVE  /\ rows'[t][a] = x
           /\ \A u \in {"jobstore", "executor"}, b \in Aliases :
                 <<u, b>> # <<t, a>> => rows'[u][b] = rows[u][b]
BY RowTyped

LEMMA RowsSave ==
    ASSUME TypeOK, RowsInv, NEW c \in Requests, Save(c) \/ RemoveRow(c)
    PROVE  RowsInv'
<1>1. /\ calls[c].op \in {"configure", "put", "configure_executor", "put_executor",
                          "deleted", "deleted_executor"}
      /\ calls' = [calls EXCEPT ![c] = Idle]
      /\ UNCHANGED <<jobstores, executors>>
    BY DEF Save, RemoveRow, Ends
<1>2. PICK t \in {"jobstore", "executor"}, a \in Aliases :
          t = calls[c].table /\ a = calls[c].alias
    BY <1>1, CallFields, Constants
<1>3. About(calls[c], t, a)
    BY <1>1, <1>2 DEF About, JobOps
<1>4. /\ t = "jobstore" => calls[c].op \in {"configure", "put", "deleted"}
      /\ t = "executor" =>
             calls[c].op \in {"configure_executor", "put_executor", "deleted_executor"}
    BY <1>1, <1>2, CallFields
<1>5. <<t, a>> \notin unsettled =>
          /\ Configuring(t, a) = {c}
          /\ t = "jobstore" => StoreCall(calls[c], a)
          /\ t = "executor" => ExecutorCall(calls[c], a)
    BY <1>3, Settled
<1>6. InStore(a)' = InStore(a)
    BY <1>1 DEF InStore
<1>7. /\ unsettled \subseteq unsettled' /\ unsettled' \subseteq unsettled \cup {<<t, a>>}
      /\ UNCHANGED rows \/ \E x : rows' = [rows EXCEPT ![t][a] = x]
    BY <1>2 DEF Save, RemoveRow, RowRemoved
<1>8. Elsewhere(t, a)
    BY <1>1, <1>7, RowWritten DEF Elsewhere
<1>9. ASSUME <<t, a>> \notin unsettled'
      PROVE  /\ Configuring(t, a) = {c}
             /\ t = "jobstore" => rows'["jobstore"][a] = InStore(a)'
             /\ t = "executor" => rows'["executor"][a] = executors'[a]
    <2>1. /\ Configuring(t, a) = {c}
          /\ t = "jobstore" => StoreCall(calls[c], a)
          /\ t = "executor" => ExecutorCall(calls[c], a)
        BY <1>5, <1>7, <1>9
    <2>2. CASE calls[c].op = "put" /\ rows[t][a] = None /\ UNCHANGED rows
        BY <1>1, <1>4, <1>6, <2>1, <2>2 DEF StoreCall
    <2>3. CASE /\ rows' = [rows EXCEPT ![t][a] = calls[c].plugin]
               /\ unsettled' = IF calls[c].op = "put" /\ jobstores[a] # None
                                  /\ Backend(jobstores[a]) # calls[c].plugin
                               THEN unsettled \cup {<<t, a>>} ELSE unsettled
               /\ calls[c].op = "put" => rows[t][a] # None
               /\ Save(c)
        <3>1. rows'[t][a] = calls[c].plugin
            BY <2>3, RowTyped
        <3>2. calls[c].op \notin {"deleted", "deleted_executor"}
            BY <2>3 DEF Save
        <3>3. CASE calls[c].op = "put"
            <4>1. t = "jobstore" /\ rows[t][a] = InStore(a) /\ rows[t][a] # None
                BY <1>4, <2>1, <2>3, <3>3 DEF StoreCall
            <4>2. jobstores[a] # None /\ InStore(a) = Backend(jobstores[a])
                BY <4>1 DEF InStore
            <4>3. Backend(jobstores[a]) = calls[c].plugin
                BY <1>9, <2>3, <3>3, <4>2
            <4>4. QED BY <1>6, <2>1, <3>1, <4>1, <4>2, <4>3
        <3>4. CASE calls[c].op # "put"
            BY <1>1, <1>4, <1>6, <2>1, <3>1, <3>2, <3>4 DEF StoreCall, ExecutorCall
        <3>5. QED BY <3>3, <3>4
    <2>4. CASE RemoveRow(c) /\ rows' = [rows EXCEPT ![t][a] = None]
        <3>1. rows'[t][a] = None
            BY <2>4, RowTyped
        <3>2. calls[c].op \in {"deleted", "deleted_executor"}
            BY <2>4 DEF RemoveRow
        <3>3. QED
            BY <1>1, <1>4, <1>6, <2>1, <3>1, <3>2 DEF StoreCall, ExecutorCall
    <2>5. QED BY <1>2, <1>9, <2>2, <2>3, <2>4 DEF Save, RemoveRow, RowRemoved
<1>10. QED BY <1>1, <1>3, <1>8, <1>9, RowsEnds

LEMMA RowsMigrateLocked ==
    ASSUME TypeOK, RowsInv, NEW c \in Requests, MigrateLocked(c)
    PROVE  RowsInv'
<1>1. MigratesStore(c)
    BY MigratesJobs
<1>2. PICK a \in Aliases : a = calls[c].alias
    BY CallFields DEF MigrateLocked
<1>3. /\ calls[c].op = "migrate" /\ About(calls[c], "jobstore", a)
      /\ calls' = [calls EXCEPT ![c] = Idle] /\ UNCHANGED <<executors, rows>>
    BY <1>2, CallFields DEF MigrateLocked, About, JobOps, Ends
<1>4. <<"jobstore", a>> \notin unsettled =>
          /\ Configuring("jobstore", a) = {c}
          /\ rows["jobstore"][a] = InStore(a) /\ rows["jobstore"][a] = calls[c].plugin
    BY <1>3, Settled DEF StoreCall
<1>5. CASE UNCHANGED <<jobstores, unsettled>>
    <2>1. Elsewhere("jobstore", a) /\ InStore(a)' = InStore(a)
        BY <1>3, <1>5 DEF Elsewhere, InStore
    <2>2. QED BY <1>3, <1>4, <1>5, <2>1, RowsEnds
<1>6. ASSUME NEW new, Migrated(c, new) PROVE RowsInv'
    <2>1. /\ new \in Stores /\ Backend(new) = calls[c].plugin
          /\ jobstores'[a] = new
          /\ \A b \in Aliases : b # a => jobstores'[b] = jobstores[b]
        BY <1>2, <1>6, TypeParts DEF Migrated
    <2>2. InStore(a)' = calls[c].plugin
        BY <2>1, Constants DEF InStore
    <2>3. unsettled' = IF /\ Configuring("jobstore", a) = {c}
                          /\ calls[c].plugin = rows["jobstore"][a]
                       THEN unsettled \ {<<"jobstore", a>>} ELSE unsettled
        BY <1>2, <1>6 DEF Migrated
    <2>4. Elsewhere("jobstore", a)
        BY <1>3, <2>1, <2>3 DEF Elsewhere
    <2>5. <<"jobstore", a>> \notin unsettled' =>
              Configuring("jobstore", a) = {c} /\ rows["jobstore"][a] = calls[c].plugin
        BY <1>4, <2>3
    <2>6. QED BY <1>3, <2>2, <2>4, <2>5, RowsEnds
<1>7. QED BY <1>1, <1>5, <1>6 DEF MigratesStore, NotMigrated

LEMMA RowsNext == TypeOK /\ RowsInv /\ [Next]_vars => RowsInv'
<1> SUFFICES ASSUME TypeOK, RowsInv, [Next]_vars PROVE RowsInv'
    OBVIOUS
<1>1. CASE UNCHANGED vars
    <2>1. UNCHANGED <<jobstores, executors, rows, calls, unsettled>>
        BY <1>1 DEF vars, ghosts
    <2>2. \A a : StoreAgrees(a)' <=> StoreAgrees(a)
        BY <2>1 DEF StoreAgrees, InStore, Configuring
    <2>3. \A a : ExecutorAgrees(a)' <=> ExecutorAgrees(a)
        BY <2>1 DEF ExecutorAgrees, Configuring
    <2>4. QED BY <2>1, <2>2, <2>3 DEF RowsInv
<1>2. CASE Restart
    BY <1>2, RowsRestart
<1>3. ASSUME NEW c \in Requests,
             \/ AddJob(c) \/ AddJobLocked(c) \/ RemoveJob(c) \/ MoveJob(c)
             \/ MigrateTwo(c) \/ MigrateTwoLocked(c)
      PROVE  RowsInv'
    BY <1>3, RowsJobs
<1>4. ASSUME NEW c \in Requests,
             \/ Migrate(c) \/ MigrateLocked(c) \/ ConfigureStore(c) \/ CheckStore(c)
             \/ Save(c) \/ CountJobs(c) \/ DeleteStore(c) \/ RemoveRow(c)
      PROVE  RowsInv'
    BY <1>4, RowsStart, RowsMigrateLocked, RowsSave, RowsDeleteStore
<1>5. ASSUME NEW c \in Requests,
             \/ ConfigureExecutor(c) \/ UpdateExecutor(c) \/ CountReferences(c)
             \/ DeleteExecutor(c)
      PROVE  RowsInv'
    BY <1>5, RowsExecutors
<1>6. QED BY <1>1, <1>2, <1>3, <1>4, <1>5 DEF Next

\* While no two requests meet at an alias, its row and its live component are
\* what the request at work there has made of them so far.
THEOREM RowsInvariant == Spec => []RowsInv
<1>1. Init => RowsInv
    BY RowsInit
<1>2. QED BY <1>1, RowsNext, TypeCorrect, PTL DEF Spec

LEMMA AgreesRestored == RowsInv => RestoredAsLive
BY DEF RowsInv, StoreAgrees, ExecutorAgrees, RestoredAsLive, InStore

\* The saved configuration describes the live components, with the exceptions
\* that RestoredAsLive names (api/routers/components.py, restore_component_configs).
THEOREM RestoredAsLiveHolds == Spec => []RestoredAsLive
BY AgreesRestored, RowsInvariant, PTL

-----------------------------------------------------------------------------
(* Jobs: those that are held are in a registered store.                    *)

Registered(j) == \E s \in Live : j \in JobsIn(s)

LEMMA FindRegistered == TypeOK => \A j \in Jobs : Find(j) # None <=> Registered(j)
<1> SUFFICES ASSUME TypeOK, NEW j \in Jobs PROVE Find(j) # None <=> Registered(j)
    OBVIOUS
<1>1. QED BY FindLive DEF Registered

LEMMA FindRegisteredNext ==
    TypeOK' => \A j \in Jobs : Find(j)' # None <=> Registered(j)'
<1>1. (TypeOK => \A j \in Jobs : Find(j) # None <=> Registered(j))'
    BY FindRegistered, PTL
<1>2. QED BY <1>1

LEMMA HeldJobs == TypeOK => held \subseteq Jobs
<1> SUFFICES ASSUME TypeOK PROVE held \subseteq Jobs
    OBVIOUS
<1>1. QED BY TypeParts

LEMMA HeldRegistered ==
    ASSUME TypeOK, JobsInv, NEW j \in held \ lost
    PROVE  j \in Jobs /\ Registered(j)
BY HeldJobs, FindRegistered DEF JobsInv, NoJobLost

LEMMA JobsKept ==
    ASSUME TypeOK', Apart',
           \A j \in held' \ lost' : Registered(j)',
           \A j \in held' \ (lost' \cup split'), s \in Live' :
               j \in JobsIn(s)' => jobstores'[content'[s][j]] = s
    PROVE  JobsInv'
<1>1. held' \subseteq Jobs
    <2>1. (TypeOK => held \subseteq Jobs)'
        BY HeldJobs, PTL
    <2>2. QED BY <2>1
<1>2. NoJobLost'
    BY <1>1, FindRegisteredNext DEF NoJobLost
<1>3. Named'
    BY DEF Named
<1>4. QED BY <1>2, <1>3 DEF JobsInv

LEMMA LiveSame == jobstores' = jobstores => Live' = Live /\ (Apart' <=> Apart)
BY DEF Live, Apart

\* The registered stores are the same, and the jobs in them but for those of S.
LEMMA JobsElsewhere ==
    ASSUME TypeOK, TypeOK', JobsInv, jobstores' = jobstores, NEW S,
           \A i \in Jobs \ S, s \in Live : content'[s][i] = content[s][i],
           lost \subseteq lost', split \subseteq split', held' \subseteq held \cup S,
           \A i \in S : i \in held' \ lost' => \E s \in Live : i \in JobsIn(s)',
           \A i \in S, s \in Live :
               i \in held' \ (lost' \cup split') /\ i \in JobsIn(s)' =>
                   jobstores[content'[s][i]] = s
    PROVE  JobsInv'
<1>1. Live' = Live /\ Apart'
    BY LiveSame DEF JobsInv
<1>2. ASSUME NEW i \in held' \ lost' PROVE Registered(i)'
    <2>1. CASE i \in S
        BY <1>1, <1>2, <2>1 DEF Registered
    <2>2. CASE i \notin S
        <3>1. i \in Jobs /\ Registered(i)
            BY <2>2, HeldRegistered
        <3>2. PICK s \in Live : i \in JobsIn(s)
            BY <3>1 DEF Registered
        <3>3. i \in JobsIn(s)'
            BY <2>2, <3>1, <3>2 DEF JobsIn
        <3>4. QED BY <1>1, <3>3 DEF Registered
    <2>3. QED BY <2>1, <2>2
<1>3. ASSUME NEW i \in held' \ (lost' \cup split'), NEW s \in Live', i \in JobsIn(s)'
      PROVE  jobstores'[content'[s][i]] = s
    <2>1. CASE i \in S
        BY <1>1, <1>3, <2>1
    <2>2. CASE i \notin S
        <3>1. i \in held \ (lost \cup split)
            BY <2>2
        <3>2. i \in Jobs
            BY <3>1, HeldJobs
        <3>3. content'[s][i] = content[s][i] /\ i \in JobsIn(s) /\ s \in Live
            BY <1>1, <1>3, <2>2, <3>2 DEF JobsIn
        <3>4. QED BY <3>1, <3>3 DEF JobsInv, Named
    <2>3. QED BY <2>1, <2>2
<1>4. QED BY <1>1, <1>2, <1>3, JobsKept

LEMMA JobsSame ==
    ASSUME TypeOK, TypeOK', JobsInv, UNCHANGED <<jobstores, content>>,
           lost \subseteq lost', split \subseteq split', held' \subseteq held
    PROVE  JobsInv'
<1>1. \A i \in Jobs, s \in Live : content'[s][i] = content[s][i]
    OBVIOUS
<1>2. PICK S : S = {}
    OBVIOUS
<1>3. QED BY <1>1, <1>2, JobsElsewhere

LEMMA OneCopyNext ==
    ASSUME CopiesInv', NEW j \in Jobs \ split', NEW s \in Stores, NEW t \in Stores,
           j \in JobsIn(s)', j \in JobsIn(t)'
    PROVE  s = t
BY DEF CopiesInv

LEMMA JobsAddJobLocked ==
    ASSUME TypeOK, TypeOK', CopiesInv, CopiesInv', JobsInv, NEW c \in Requests,
           AddJobLocked(c)
    PROVE  JobsInv'
<1>1. PICK result : AddsOne(c, result)
    BY AddsJob
<1>2. PICK j \in Jobs, s \in Stores, a \in Aliases :
          j = calls[c].job /\ s = calls[c].store /\ a = calls[c].alias
    BY <1>1 DEF AddsOne
<1>3. content \in ContentType
    BY TypeParts
<1>4. j \notin Placed
    BY <1>2 DEF AddJobLocked, Adding, Placed
<1>5. j \notin held /\ UNCHANGED jobstores
    BY <1>4 DEF CopiesInv, AddJobLocked
<1>6. CASE ~Takes(result)
    <2>1. content' = content /\ held' = held
        BY <1>1, <1>6 DEF AddsOne, Takes
    <2>2. lost \subseteq lost' /\ split \subseteq split'
        BY <1>1 DEF AddsOne
    <2>3. QED BY <1>5, <2>1, <2>2, JobsSame
<1>7. CASE Takes(result)
    <2>1. \A t \in Stores, i \in Jobs :
              content'[t][i] = IF t = s /\ i = j THEN a ELSE content[t][i]
        BY <1>1, <1>2, <1>3, <1>7, AddedEffect DEF AddsOne
    <2>2. /\ held' \subseteq held \cup {j}
          /\ lost' = IF s \in Live THEN lost ELSE lost \cup {j}
          /\ split' = IF s = jobstores[a] THEN split ELSE split \cup {j}
        BY <1>1, <1>2 DEF AddsOne
    <2>3. \A i \in Jobs \ {j}, t \in Live : content'[t][i] = content[t][i]
        BY <2>1, LiveStores
    <2>4. j \notin lost' => s \in Live /\ j \in JobsIn(s)'
        BY <2>1, <2>2, Constants DEF JobsIn
    <2>5. ASSUME j \notin lost', j \notin split', NEW t \in Live, j \in JobsIn(t)'
          PROVE  jobstores[content'[t][j]] = t
        <3>1. t = s
            BY <2>4, <2>5, OneCopyNext, LiveStores
        <3>2. content'[t][j] = a /\ s = jobstores[a]
            BY <2>1, <2>2, <2>5, <3>1
        <3>3. QED BY <3>1, <3>2
    <2>6. PICK S : S = {j}
        OBVIOUS
    <2>7. lost \subseteq lost' /\ split \subseteq split'
        BY <2>2
    <2>8. QED BY <1>5, <2>2, <2>3, <2>4, <2>5, <2>6, <2>7, JobsElsewhere
<1>8. QED BY <1>6, <1>7

LEMMA JobsRemoveJob ==
    ASSUME TypeOK, TypeOK', JobsInv, NEW c \in Requests, RemoveJob(c)
    PROVE  JobsInv'
<1>1. PICK j, s, result : RemovesOne(j, s, result)
    BY RemovesJob
<1>2. s \in Stores /\ j \in Jobs /\ content \in ContentType
    BY <1>1, LiveStores, TypeParts DEF RemovesOne
<1>3. UNCHANGED <<jobstores, lost, split>>
    BY DEF RemoveJob
<1>4. CASE ~Takes(result)
    BY <1>1, <1>3, <1>4, JobsSame DEF RemovesOne
<1>5. CASE Takes(result)
    <2>1. \A t \in Stores, i \in Jobs :
              content'[t][i] = IF t = s /\ i = j THEN None ELSE content[t][i]
        BY <1>1, <1>2, <1>5, RemovedEffect DEF RemovesOne
    <2>2. held' = held \ {j}
        BY <1>1, <1>5 DEF RemovesOne
    <2>3. \A i \in Jobs \ {j}, t \in Live : content'[t][i] = content[t][i]
        BY <2>1, LiveStores
    <2>4. PICK S : S = {j}
        OBVIOUS
    <2>5. QED BY <1>3, <2>2, <2>3, <2>4, JobsElsewhere
<1>6. QED BY <1>4, <1>5

LEMMA JobsMoveJob ==
    ASSUME TypeOK, TypeOK', CopiesInv', JobsInv, NEW c \in Requests, MoveJob(c)
    PROVE  JobsInv'
<1>1. PICK j, a : MovesOne(j, a)
    BY MovesJob
<1>2. UNCHANGED <<jobstores, held>>
    BY DEF MoveJob
<1>3. /\ j \in Jobs /\ a \in Aliases
      /\ \A i \in Jobs \ {j}, t \in Live : content'[t][i] = content[t][i]
    BY <1>1, LiveStores DEF MovesOne
<1>4. lost \subseteq lost' /\ split \subseteq split'
    BY <1>1 DEF MovesOne
<1>5. PICK S : S = {j}
    OBVIOUS
<1>6. /\ j \in held' \ lost' => \E s \in Live : j \in JobsIn(s)'
      /\ \A s \in Live : j \in held' \ (lost' \cup split') /\ j \in JobsIn(s)' =>
                             jobstores[content'[s][j]] = s
    <2>1. CASE j \in lost'
        BY <2>1
    <2>2. CASE /\ split' = split \cup {j} /\ lost' = lost
               /\ \A s \in Stores : j \in JobsIn(s) => content'[s][j] # None
        <3>1. ASSUME j \in held' \ lost' PROVE \E s \in Live : j \in JobsIn(s)'
            <4>1. PICK s \in Live : j \in JobsIn(s)
                BY <1>2, <2>2, <3>1, HeldRegistered DEF Registered
            <4>2. QED BY <1>3, <2>2, <4>1, LiveStores DEF JobsIn
        <3>2. QED BY <2>2, <3>1
    <2>3. CASE /\ split' = split /\ jobstores[a] # None /\ lost' = lost
               /\ content'[jobstores[a]][j] = a
        <3>1. PICK t \in Live : t = jobstores[a]
            BY <1>3, <2>3, LiveStores
        <3>2. j \in JobsIn(t)' /\ t \in Stores
            BY <1>3, <2>3, <3>1, Constants, LiveStores DEF JobsIn
        <3>3. ASSUME NEW s \in Live, j \notin split', j \in JobsIn(s)'
              PROVE  jobstores[content'[s][j]] = s
            <4>1. s = t
                BY <1>3, <3>2, <3>3, OneCopyNext, LiveStores
            <4>2. QED BY <2>3, <3>1, <4>1
        <3>4. QED BY <3>2, <3>3
    <2>4. QED BY <1>1, <2>1, <2>2, <2>3 DEF MovesOne
<1>7. QED BY <1>2, <1>3, <1>4, <1>5, <1>6, JobsElsewhere

LEMMA JobsMigrateTwoLocked ==
    ASSUME TypeOK, TypeOK', CopiesInv', JobsInv, NEW c \in Requests, MigrateTwoLocked(c)
    PROVE  JobsInv'
<1>1. PICK S, I : MovesMany(c, S, I)
    BY MovesJobs
<1>2. PICK src \in Stores, dst \in Stores, b \in Aliases, J \in SUBSET Jobs :
          src = calls[c].store /\ dst = calls[c].target /\ b = calls[c].alias
          /\ J = calls[c].jobs
    BY CallFields DEF MigrateTwoLocked
<1>3. UNCHANGED <<jobstores, held>>
    BY DEF MigrateTwoLocked
<1>4. /\ S \cup I \subseteq J
      /\ \A k \in S : content'[dst][k] = b
      /\ \A k \in I, s \in Stores : k \in JobsIn(s) =>
             content'[s][k] # None \/ content'[dst][k] # None
      /\ split \cup I \subseteq split' /\ (dst = jobstores[b] \/ S \subseteq split')
      /\ lost' = IF dst \in Live THEN lost ELSE lost \cup J
    BY <1>1, <1>2 DEF MovesMany
<1>5. \A k \in Jobs \ (S \cup I), s \in Live : content'[s][k] = content[s][k]
    BY <1>1, LiveStores DEF MovesMany
<1>6. PICK T : T = S \cup I
    OBVIOUS
<1>7. ASSUME NEW k \in T, k \in held' \ lost' PROVE \E s \in Live : k \in JobsIn(s)'
    <2>1. k \in J /\ dst \in Live /\ k \in held \ lost /\ k \in Jobs
        BY <1>2, <1>3, <1>4, <1>6, <1>7
    <2>2. CASE k \in S
        BY <1>4, <2>1, <2>2, Constants DEF JobsIn
    <2>3. CASE k \in I
        <3>1. PICK s \in Live : k \in JobsIn(s)
            BY <2>1, HeldRegistered DEF Registered
        <3>2. content'[s][k] # None \/ content'[dst][k] # None
            BY <1>4, <2>3, <3>1, LiveStores
        <3>3. QED BY <2>1, <3>2 DEF JobsIn
    <2>4. QED BY <1>6, <2>2, <2>3
<1>8. ASSUME NEW k \in T, NEW s \in Live, k \in held' \ (lost' \cup split'),
             k \in JobsIn(s)'
      PROVE  jobstores[content'[s][k]] = s
    <2>1. k \in S /\ dst = jobstores[b] /\ k \in Jobs \ split'
        BY <1>2, <1>4, <1>6, <1>8
    <2>2. content'[dst][k] = b /\ k \in JobsIn(dst)'
        BY <1>4, <2>1, Constants DEF JobsIn
    <2>3. s = dst
        BY <1>8, <2>1, <2>2, OneCopyNext, LiveStores
    <2>4. QED BY <2>1, <2>2, <2>3
<1>9. lost \subseteq lost' /\ split \subseteq split'
    BY <1>4
<1>10. QED BY <1>3, <1>5, <1>6, <1>7, <1>8, <1>9, JobsElsewhere

\* A job that is held is in one registered store only, and in no other.
LEMMA HeldOnce ==
    ASSUME TypeOK, CopiesInv, JobsInv, NEW j \in held \ (lost \cup split),
           NEW s \in Stores, j \in JobsIn(s)
    PROVE  /\ s \in Live /\ jobstores[content[s][j]] = s /\ content[s][j] \in Aliases
           /\ \A t \in Stores : j \in JobsIn(t) => t = s
<1>1. j \in Jobs /\ j \notin split
    BY HeldJobs
<1>2. PICK t \in Live : j \in JobsIn(t)
    BY HeldRegistered DEF Registered
<1>3. \A u \in Stores : j \in JobsIn(u) => u = s
    BY <1>1 DEF CopiesInv
<1>4. t = s
    BY <1>2, <1>3, LiveStores
<1>5. jobstores[content[s][j]] = s
    BY <1>2, <1>4 DEF JobsInv, Named
<1>6. content[s][j] \in Aliases
    BY <1>1, TypeParts DEF JobsIn, ContentType
<1>7. QED BY <1>2, <1>3, <1>4, <1>5, <1>6

LEMMA JobsMigrated ==
    ASSUME TypeOK, TypeOK', CopiesInv, CopiesInv', JobsInv, NEW c \in Requests,
           calls[c].alias \in Aliases, NEW new, Migrated(c, new), UNCHANGED <<held, lost>>
    PROVE  JobsInv'
<1>1. PICK a \in Aliases : a = calls[c].alias
    OBVIOUS
<1>2. PICK old : old = jobstores[a]
    OBVIOUS
<1>3. /\ old # None /\ new \in Stores
      /\ new \in Memories => new \notin Referenced
      /\ new = old => JobsIn(old) = {}
      /\ jobstores' = [jobstores EXCEPT ![a] = new]
      /\ \A s \in Stores, k \in Jobs : content'[s][k] =
            IF s = new THEN IF k \in JobsIn(old) THEN content[old][k]
                            ELSE IF new \in Memories THEN None ELSE content[new][k]
            ELSE IF s = old /\ old \in Memories THEN None ELSE content[s][k]
      /\ split' = IF old \in Databases THEN split \cup JobsIn(old) ELSE split
    BY <1>1, <1>2 DEF Migrated
<1>4. old \in Stores /\ old \in Live /\ Live \subseteq Stores
    BY <1>2, <1>3, LiveStores
<1>5. jobstores'[a] = new /\ \A b \in Aliases : b # a => jobstores'[b] = jobstores[b]
    BY <1>3, TypeParts
<1>6. new \notin Memories \/ new \notin Live
    BY <1>3 DEF Referenced
<1>7. \A b \in Aliases : b # a /\ jobstores[b] = old => old \notin Memories
    BY <1>2 DEF JobsInv, Apart, Aliases
<1>8. \A b \in Aliases : b # a /\ jobstores[b] # None =>
          jobstores[b] \in Live /\ jobstores[b] \in Live'
    BY <1>5, LiveStores DEF Live
<1>9. new \in Live' /\ \A s \in Live' : s = new \/ \E b \in Aliases :
          b # a /\ s = jobstores[b] /\ s \in Live
    BY <1>3, <1>5, Constants DEF Live
<1>10. Apart'
    <2>1. SUFFICES ASSUME jobstores'["default"] = jobstores'["extra"],
                          jobstores'["default"] \in Memories
                   PROVE  FALSE
        BY DEF Apart
    <2>2. PICK b \in Aliases : b # a /\ jobstores'[b] = new
        BY <1>5, <2>1 DEF Aliases
    <2>3. new \in Memories
        BY <2>1, <1>5 DEF Aliases
    <2>4. jobstores[b] = new /\ new # None
        BY <1>3, <1>5, <2>2, Constants
    <2>5. new \in Live
        BY <1>8, <2>2, <2>4
    <2>6. QED BY <1>6, <2>3, <2>5
<1>11. ASSUME NEW k \in held' \ lost' PROVE Registered(k)'
    <2>1. k \in Jobs /\ Registered(k)
        BY <1>11, HeldRegistered
    <2>2. PICK s \in Live : k \in JobsIn(s)
        BY <2>1 DEF Registered
    <2>3. CASE k \in JobsIn(old)
        <3>1. content'[new][k] = content[old][k] /\ content[old][k] # None
            BY <1>3, <2>1, <2>3 DEF JobsIn
        <3>2. k \in JobsIn(new)'
            BY <2>1, <3>1 DEF JobsIn
        <3>3. QED BY <1>9, <3>2 DEF Registered
    <2>4. CASE k \notin JobsIn(old)
        <3>1. s # old /\ s \in Stores
            BY <1>4, <2>2, <2>4
        <3>2. PICK b \in Aliases : s = jobstores[b]
            BY LiveStores
        <3>3. b # a /\ s \in Live'
            BY <1>2, <1>8, <3>1, <3>2, Constants
        <3>4. content'[s][k] = content[s][k]
            BY <1>3, <1>6, <2>1, <2>4, <3>1
        <3>5. k \in JobsIn(s)'
            BY <2>1, <2>2, <3>4 DEF JobsIn
        <3>6. QED BY <3>3, <3>5 DEF Registered
    <2>5. QED BY <2>3, <2>4
<1>12. ASSUME NEW k \in held' \ (lost' \cup split'), NEW s \in Live', k \in JobsIn(s)'
       PROVE  jobstores'[content'[s][k]] = s
    <2>1. k \in Jobs /\ k \in held \ (lost \cup split) /\ k \notin split'
        BY <1>3, <1>12, HeldJobs
    <2>2. s \in Stores
        BY <1>3, <1>4, <1>9
    <2>3. CASE k \in JobsIn(old)
        <3>1. /\ content'[new][k] = content[old][k] /\ content[old][k] # None
            BY <1>3, <2>1, <2>3 DEF JobsIn
        <3>2. s = new
            BY <1>3, <1>12, <2>1, <2>2, <3>1, OneCopyNext DEF JobsIn
        <3>3. jobstores[content[old][k]] = old /\ content[old][k] \in Aliases
            BY <1>4, <2>1, <2>3, HeldOnce
        <3>4. old \notin Databases
            BY <1>3, <2>1, <2>3
        <3>5. content[old][k] = a
            BY <1>4, <1>7, <3>3, <3>4 DEF Stores
        <3>6. QED BY <1>5, <3>1, <3>2, <3>5
    <2>4. CASE k \notin JobsIn(old)
        <3>1. content'[s][k] # None
            BY <1>12 DEF JobsIn
        <3>2. content'[s][k] = content[s][k]
            BY <1>3, <2>1, <2>2, <2>4, <3>1
        <3>3. k \in JobsIn(s)
            BY <2>1, <3>1, <3>2 DEF JobsIn
        <3>4. jobstores[content[s][k]] = s /\ content[s][k] \in Aliases
            BY <2>1, <2>2, <3>3, HeldOnce
        <3>5. content[s][k] # a
            BY <1>2, <2>4, <3>3, <3>4
        <3>6. QED BY <1>5, <3>2, <3>4, <3>5
    <2>5. QED BY <2>3, <2>4
<1>13. QED BY <1>10, <1>11, <1>12, JobsKept

LEMMA JobsMigrateLocked ==
    ASSUME TypeOK, TypeOK', CopiesInv, CopiesInv', JobsInv, NEW c \in Requests,
           MigrateLocked(c)
    PROVE  JobsInv'
<1>1. MigratesStore(c)
    BY MigratesJobs
<1>2. calls[c].alias \in Aliases /\ UNCHANGED <<held, lost>>
    BY CallFields DEF MigrateLocked
<1>3. CASE UNCHANGED <<jobstores, content, split, unsettled>>
    BY <1>2, <1>3, JobsSame
<1>4. ASSUME NEW new, Migrated(c, new) PROVE JobsInv'
    BY <1>2, <1>4, JobsMigrated
<1>5. ASSUME NEW new, NEW T, NotMigrated(c, new, T) PROVE JobsInv'
    <2>1. /\ jobstores' = jobstores /\ new \in Stores /\ T \subseteq split'
          /\ T \subseteq Jobs /\ split \subseteq split'
          /\ new \in Memories => new \notin Live
          /\ \A s \in Stores, k \in Jobs :
                IF s # new THEN content'[s][k] = content[s][k]
                ELSE IF new \in Memories THEN content'[s][k] = None
                ELSE /\ k \notin T => content'[s][k] = content[s][k]
                     /\ k \in JobsIn(s) => content'[s][k] # None
        BY <1>5 DEF NotMigrated, Referenced, JobsIn
    <2>2. \A k \in Jobs \ T, s \in Live : content'[s][k] = content[s][k]
        BY <2>1, LiveStores
    <2>3. ASSUME NEW k \in T, k \in held' \ lost' PROVE \E s \in Live : k \in JobsIn(s)'
        <3>1. k \in Jobs /\ Registered(k)
            BY <1>2, <2>3, HeldRegistered
        <3>2. PICK s \in Live : k \in JobsIn(s)
            BY <3>1 DEF Registered
        <3>3. content'[s][k] # None
            BY <2>1, <3>1, <3>2, LiveStores DEF JobsIn
        <3>4. QED BY <3>1, <3>3 DEF JobsIn
    <2>4. QED BY <1>2, <2>1, <2>2, <2>3, JobsElsewhere
<1>6. QED BY <1>1, <1>3, <1>4, <1>5 DEF MigratesStore

LEMMA JobsConfigureStore ==
    ASSUME TypeOK, TypeOK', CopiesInv, JobsInv, NEW c \in Requests, ConfigureStore(c)
    PROVE  JobsInv'
<1>1. PICK a \in Aliases, plugin \in StorePlugins, new \in Stores :
          Registers(a, new, plugin)
    BY RegistersStore
<1>2. UNCHANGED <<held, lost, split>>
    BY DEF ConfigureStore
<1>3. /\ new \in Stores /\ jobstores[a] = None
      /\ new \notin Memories \/ new \notin Live
      /\ \A s \in Stores, k \in Jobs : content'[s][k] =
            IF s = new /\ new \in Memories THEN None ELSE content[s][k]
      /\ jobstores'[a] = new /\ \A b \in Aliases : b # a => jobstores'[b] = jobstores[b]
    BY <1>1, TypeParts DEF Registers, Referenced
<1>4. /\ \A s \in Live : s \in Live' /\ s \in Stores
      /\ \A s \in Live' : s = new \/ s \in Live
    BY <1>3, LiveStores DEF Live
<1>5. Apart'
    <2>1. SUFFICES ASSUME jobstores'["default"] = jobstores'["extra"],
                          jobstores'["default"] \in Memories
                   PROVE  FALSE
        BY DEF Apart
    <2>2. PICK b \in Aliases : b # a /\ jobstores'[b] = new
        BY <1>3, <2>1 DEF Aliases
    <2>3. new \in Memories /\ jobstores[b] = new /\ new # None
        BY <1>3, <2>1, <2>2, Constants DEF Aliases
    <2>4. QED BY <1>3, <2>3, LiveStores
<1>6. ASSUME NEW k \in held' \ lost' PROVE Registered(k)'
    <2>1. k \in Jobs /\ Registered(k)
        BY <1>2, HeldRegistered
    <2>2. PICK s \in Live : k \in JobsIn(s)
        BY <2>1 DEF Registered
    <2>3. content'[s][k] = content[s][k]
        BY <1>3, <1>4, <2>1
    <2>4. k \in JobsIn(s)'
        BY <2>1, <2>2, <2>3 DEF JobsIn
    <2>5. QED BY <1>4, <2>4 DEF Registered
<1>7. ASSUME NEW k \in held' \ (lost' \cup split'), NEW s \in Live', k \in JobsIn(s)'
      PROVE  jobstores'[content'[s][k]] = s
    <2>1. k \in Jobs /\ k \in held \ (lost \cup split) /\ s \in Stores
        BY <1>2, <1>3, <1>4, HeldJobs
    <2>2. content'[s][k] = content[s][k] /\ k \in JobsIn(s)
        BY <1>3, <1>7, <2>1 DEF JobsIn
    <2>3. jobstores[content[s][k]] = s /\ content[s][k] \in Aliases
        BY <2>1, <2>2, HeldOnce
    <2>4. content[s][k] # a
        BY <1>3, <2>1, <2>3, Constants
    <2>5. QED BY <1>3, <2>2, <2>3, <2>4
<1>8. QED BY <1>5, <1>6, <1>7, JobsKept

LEMMA JobsDeleteStore ==
    ASSUME TypeOK, TypeOK', CopiesInv, JobsInv, NEW c \in Requests, DeleteStore(c)
    PROVE  JobsInv'
<1>1. UNCHANGED <<held, split>> /\ calls[c].alias = "extra"
    BY CallFields DEF DeleteStore
<1>2. CASE UNCHANGED <<jobstores, content, lost>>
    BY <1>1, <1>2, JobsSame
<1>3. PICK s : s = jobstores["extra"]
    OBVIOUS
<1>4. CASE /\ s # None
           /\ jobstores' = [jobstores EXCEPT !["extra"] = None]
           /\ content' = Closed(content, s)
           /\ lost' = lost \cup JobsIn(s)
    <2>1. s \in Stores /\ s \in Live /\ content \in ContentType
        BY <1>3, <1>4, LiveStores, Constants, TypeParts
    <2>2. \A t \in Stores, k \in Jobs :
              content'[t][k] = IF t = s /\ s \in Memories THEN None ELSE content[t][k]
        BY <1>4, <2>1, ClosedEffect
    <2>3. jobstores'["extra"] = None /\ jobstores'["default"] = jobstores["default"]
          /\ jobstores["default"] # None
        BY <1>4, TypeParts, Constants
    <2>4. /\ Live' = {jobstores["default"]} /\ jobstores["default"] \in Live
          /\ \A t \in Live : t = s \/ t \in Live'
        BY <1>3, <2>3, LiveStores DEF Live, Aliases
    <2>5. Apart'
        BY <2>3 DEF Apart
    <2>6. ASSUME NEW k \in held' \ lost' PROVE Registered(k)'
        <3>1. k \in Jobs /\ k \notin JobsIn(s) /\ Registered(k)
            BY <1>1, <1>4, <2>6, HeldRegistered
        <3>2. PICK t \in Live : k \in JobsIn(t)
            BY <3>1 DEF Registered
        <3>3. t # s /\ t \in Live' /\ t \in Stores
            BY <2>4, <3>1, <3>2, LiveStores
        <3>4. k \in JobsIn(t)'
            BY <2>2, <3>1, <3>2, <3>3 DEF JobsIn
        <3>5. QED BY <3>3, <3>4 DEF Registered
    <2>7. ASSUME NEW k \in held' \ (lost' \cup split'), NEW t \in Live', k \in JobsIn(t)'
          PROVE  jobstores'[content'[t][k]] = t
        <3>1. /\ k \in Jobs /\ k \notin JobsIn(s) /\ k \in held \ (lost \cup split)
              /\ t \in Stores
            BY <1>1, <1>4, <2>4, <2>7, HeldJobs, LiveStores
        <3>2. content'[t][k] # None
            BY <2>7 DEF JobsIn
        <3>3. content'[t][k] = content[t][k]
            BY <2>2, <3>1, <3>2
        <3>4. k \in JobsIn(t)
            BY <3>1, <3>2, <3>3 DEF JobsIn
        <3>5. jobstores[content[t][k]] = t /\ content[t][k] \in Aliases
            BY <3>1, <3>4, HeldOnce
        <3>6. content[t][k] # "extra"
            BY <1>3, <3>1, <3>4, <3>5
        <3>7. content[t][k] = "default"
            BY <3>5, <3>6 DEF Aliases
        <3>8. QED BY <2>3, <3>3, <3>5, <3>7
    <2>8. QED BY <2>5, <2>6, <2>7, JobsKept
<1>5. QED BY <1>1, <1>2, <1>3, <1>4 DEF DeleteStore

(***************************************************************************)
(* A restart registers again, under the same alias, each database that     *)
(* holds a job it does not lose: the row describes that database, or else  *)
(* the job was given up with it.                                           *)
(***************************************************************************)
LEMMA JobsRestart ==
    ASSUME TypeOK, TypeOK', CopiesInv, RestoredAsLive, JobsInv, Restart
    PROVE  JobsInv'
<1>1. PICK row : row = rows["jobstore"]
    OBVIOUS
<1>2. row \in [Aliases -> StorePlugins \cup {None}] /\ jobstores' = Restored(row)
    BY <1>1 DEF TypeOK, Restart
<1>3. /\ \A a \in Aliases : IF row[a] = "memory" THEN jobstores'[a] \in Memories
                            ELSE jobstores'[a] = row[a]
      /\ Apart'
    BY <1>2, RestoredStores DEF Apart
<1>4. UNCHANGED <<held, split>> /\ lost \subseteq lost'
    BY DEF Restart
<1>5. \A s \in Stores, k \in Jobs :
          content'[s][k] = IF s \in Memories THEN None ELSE content[s][k]
    BY DEF Restart, Empty
<1>6. ASSUME NEW a \in Aliases, jobstores[a] \in Databases,
             NEW k \in JobsIn(jobstores[a]), k \notin lost'
      PROVE  jobstores'[a] = jobstores[a]
    <2>1. jobstores[a] # None /\ Backend(jobstores[a]) = jobstores[a]
        BY <1>6, Constants DEF Stores
    <2>2. \/ Backend(jobstores[a]) = row[a]
          \/ <<"jobstore", a>> \notin unsettled /\ Configuring("jobstore", a) = {}
        BY <1>1, <1>6, <2>1 DEF Restart
    <2>3. row[a] = jobstores[a]
        BY <1>1, <2>1, <2>2 DEF RestoredAsLive
    <2>4. QED BY <1>3, <1>6, <2>3, Constants DEF Stores
<1>7. ASSUME NEW k \in held' \ lost'
      PROVE  /\ k \in Jobs /\ k \in held \ lost
             /\ \E a \in Aliases : jobstores[a] \in Databases /\ k \in JobsIn(jobstores[a])
    <2>1. k \in Jobs /\ k \in held \ lost /\ k \notin Volatile
        BY <1>4, <1>7, HeldJobs DEF Restart
    <2>2. PICK s \in Live : s \in Databases /\ k \in JobsIn(s)
        BY <2>1 DEF Volatile, JobsIn
    <2>3. QED BY <2>1, <2>2, LiveStores
<1>8. ASSUME NEW k \in held' \ lost' PROVE Registered(k)'
    <2>1. PICK a \in Aliases : jobstores[a] \in Databases /\ k \in JobsIn(jobstores[a])
        BY <1>7
    <2>2. PICK s \in Databases : s = jobstores[a]
        BY <2>1
    <2>3. jobstores'[a] = s /\ s \in Stores /\ s \notin Memories /\ s # None
        BY <1>6, <1>8, <2>1, <2>2, Constants DEF Stores
    <2>4. k \in JobsIn(s)'
        BY <1>5, <1>7, <2>1, <2>2, <2>3 DEF JobsIn
    <2>5. s \in Live'
        BY <2>3 DEF Live
    <2>6. QED BY <2>4, <2>5 DEF Registered
<1>9. ASSUME NEW k \in held' \ (lost' \cup split'), NEW s \in Live', k \in JobsIn(s)'
      PROVE  jobstores'[content'[s][k]] = s
    <2>1. k \in Jobs /\ k \in held \ (lost \cup split)
        BY <1>4, <1>7
    <2>2. s \in Stores
        BY <1>2, RestoredStores DEF Live
    <2>3. content'[s][k] # None
        BY <1>9 DEF JobsIn
    <2>4. s \in Databases /\ content'[s][k] = content[s][k]
        BY <1>5, <2>1, <2>2, <2>3 DEF Stores
    <2>5. k \in JobsIn(s)
        BY <2>1, <2>3, <2>4 DEF JobsIn
    <2>6. jobstores[content[s][k]] = s /\ content[s][k] \in Aliases
        BY <2>1, <2>2, <2>5, HeldOnce
    <2>7. PICK a \in Aliases : a = content[s][k]
        BY <2>6
    <2>8. jobstores'[a] = jobstores[a]
        BY <1>6, <1>9, <2>4, <2>5, <2>6, <2>7
    <2>9. QED BY <2>4, <2>6, <2>7, <2>8
<1>10. QED BY <1>3, <1>8, <1>9, JobsKept

LEMMA JobsInit == Init => JobsInv
<1> SUFFICES ASSUME Init PROVE JobsInv
    OBVIOUS
<1> DEFINE row == [a \in Aliases |-> IF a = "default" THEN "memory" ELSE None]
<1>1. row \in [Aliases -> StorePlugins \cup {None}] /\ jobstores = Restored(row)
    BY DEF Init, StorePlugins
<1> HIDE DEF row
<1>2. Apart
    BY <1>1, RestoredStores DEF Apart
<1>3. held = {}
    BY DEF Init
<1>4. QED BY <1>2, <1>3 DEF JobsInv, NoJobLost, Named

LEMMA JobsNext ==
    /\ TypeOK /\ TypeOK' /\ CopiesInv /\ CopiesInv' /\ RestoredAsLive /\ JobsInv
    /\ [Next]_vars
    => JobsInv'
<1> SUFFICES ASSUME TypeOK, TypeOK', CopiesInv, CopiesInv', RestoredAsLive, JobsInv,
                    [Next]_vars
             PROVE  JobsInv'
    OBVIOUS
<1>1. CASE UNCHANGED vars
    BY <1>1, JobsSame DEF vars, ghosts
<1>2. CASE Restart
    BY <1>2, JobsRestart
<1>3. ASSUME NEW c \in Requests,
             \/ AddJobLocked(c) \/ RemoveJob(c) \/ MoveJob(c) \/ MigrateTwoLocked(c)
             \/ MigrateLocked(c) \/ ConfigureStore(c) \/ DeleteStore(c)
      PROVE  JobsInv'
    BY <1>3, JobsAddJobLocked, JobsRemoveJob, JobsMoveJob, JobsMigrateTwoLocked,
       JobsMigrateLocked, JobsConfigureStore, JobsDeleteStore
<1>4. ASSUME NEW c \in Requests,
             \/ AddJob(c) \/ MigrateTwo(c) \/ Migrate(c) \/ CheckStore(c) \/ Save(c)
             \/ CountJobs(c) \/ RemoveRow(c) \/ ConfigureExecutor(c)
             \/ UpdateExecutor(c) \/ CountReferences(c) \/ DeleteExecutor(c)
      PROVE  JobsInv'
    <2>1. UNCHANGED <<jobstores, content, held, lost, split>>
        BY <1>4 DEF AddJob, MigrateTwo, Migrate, CheckStore, Save, CountJobs, RemoveRow,
                    ConfigureExecutor, UpdateExecutor, CountReferences, DeleteExecutor,
                    ghosts
    <2>2. QED BY <2>1, JobsSame
<1>5. QED BY <1>1, <1>2, <1>3, <1>4 DEF Next

\* No two aliases share a memory store, and each job that is held is in the
\* store of the alias it names: what the two theorems below rest on.
THEOREM JobsInvariant == Spec => []JobsInv
<1>1. Init => JobsInv
    BY JobsInit
<1>2. QED
    BY <1>1, JobsNext, TypeCorrect, CopiesInvariant, RestoredAsLiveHolds, PTL DEF Spec

\* The registry as a whole: the variables have their types, and copies, rows and
\* aliases fit each other.
THEOREM RegistryInvariant == Spec => []RegistryInv
BY TypeCorrect, CopiesInvariant, RowsInvariant, JobsInvariant, PTL DEF RegistryInv

\* A job that was accepted is found until it is removed, whatever fails, unless
\* it was given up in one of the ways that NoJobLost lists (add_job, update_job,
\* migrate_jobstore, _migrate_jobstore_from_config, remove_jobstore).
THEOREM NoJobLostHolds == Spec => []NoJobLost
<1>1. JobsInv => NoJobLost
    BY DEF JobsInv
<1>2. QED BY <1>1, JobsInvariant, PTL

\* The store of the alias that a job names holds the job: update_job,
\* remove_job and pause_job find it.
THEOREM LocatableHolds == Spec => []Locatable
<1>1. TypeOK /\ JobsInv => Locatable
    <2> SUFFICES ASSUME TypeOK, JobsInv, NEW j \in held \ (lost \cup split)
                 PROVE  content[StoreOf(content[Find(j)][j])][j] # None
        BY DEF Locatable
    <2>1. j \in Jobs /\ Find(j) # None
        BY HeldJobs DEF JobsInv, NoJobLost
    <2>2. Find(j) \in Live /\ j \in JobsIn(Find(j)) /\ Find(j) \in Stores
        BY <2>1, FindLive, LiveStores
    <2>3. jobstores[content[Find(j)][j]] = Find(j)
        BY <2>2 DEF JobsInv, Named
    <2>4. StoreOf(content[Find(j)][j]) = Find(j)
        BY <2>1, <2>3 DEF StoreOf
    <2>5. QED BY <2>2, <2>4 DEF JobsIn
<1>2. QED BY <1>1, TypeCorrect, JobsInvariant, PTL
=============================================================================
