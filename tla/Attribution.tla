----------------------------- MODULE Attribution -----------------------------
(***************************************************************************)
(* How the agent names the cgroups it samples: the attribution cache       *)
(* (attribution/mod.rs), filled by the main task (the walk at startup,     *)
(* exec events, the eviction timer) and by the Kubernetes watcher task     *)
(* (list, watch, refresh and the merge of pods into labels), which main    *)
(* supervises through its JoinHandle.                                      *)
(***************************************************************************)
EXTENDS Integers, Sequences, FiniteSets, Functions

CONSTANTS Cgroup,        \* cgroup ids (inode numbers)
          Path,          \* cgroup directories
          PathOf,        \* PathOf[c]: the directory of c; a restarted service uses its
                         \* directory again under a new id
          WithMemory,    \* cgroups with the memory controller: only their directory holds a
                         \* memory.current
          Pod, None,
          UidIn,         \* pod_uid_from_path
          ContainerDir,  \* directories named after a 64-hex container id, and those whose
          NamedDir,      \* id is in its pod's status (no pause container, no monitor)
          MaxMoved,      \* bounds: exec events whose process is elsewhere when asked,
          MaxDrops       \* broken watch streams

ASSUME AttributionAssumption ==
  /\ PathOf \in [Cgroup -> Path] /\ WithMemory \subseteq Cgroup
  /\ None \notin Pod /\ None \notin Path
  /\ UidIn \in [Path -> Pod \cup {None}] /\ NamedDir \subseteq ContainerDir /\ ContainerDir \subseteq Path
  /\ MaxMoved \in Nat /\ MaxDrops \in Nat

VARIABLES
  future, alive,   \* cgroups not created yet; cgroups that exist
  api,             \* the pods of this node at the API server
  \* the cache
  paths,           \* cgroup_paths, and the three maps derived from it
  labels,          \* cgroup_labels
  pods,            \* pod_by_uid
  \* the main task
  mpc, discovered, moved,
  \* the watcher task
  wpc, listed, stream, new_labels, drops

kernelVars == <<future, alive>>
mainVars == <<mpc, discovered, moved>>
watcherVars == <<wpc, listed, stream, new_labels, drops>>
vars == <<kernelVars, api, paths, labels, pods, mainVars, watcherVars>>

\* A pod is known to the API server without container ids, then with them.
Known == {"pending", "running"}

\* The pods a list returns.
Listed == {p \in Pod : api[p] \in Known}

EmptyMap == [x \in {} |-> None]
IsMap(f, S, T) == DOMAIN f \subseteq S /\ f \in [DOMAIN f -> T]

\* f with g inserted, as a HashMap takes entries.
Insert(f, g) == [x \in DOMAIN f \cup DOMAIN g |-> IF x \in DOMAIN g THEN g[x] ELSE f[x]]
Remove(f, S) == Restrict(f, DOMAIN f \ S)
One(x, y) == [z \in {x} |-> y]

Init ==
  /\ alive \in SUBSET Cgroup /\ future = Cgroup \ alive
  /\ \A c, d \in alive : c # d => PathOf[c] # PathOf[d]
  /\ api \in [Pod -> {"future", "running"}]
  /\ \A c \in alive : UidIn[PathOf[c]] # None => api[UidIn[PathOf[c]]] = "running"
  /\ paths = EmptyMap /\ labels = EmptyMap /\ pods = EmptyMap
  /\ mpc = "walk" /\ discovered = {} /\ moved = 0
  /\ wpc = "client" /\ listed = EmptyMap /\ stream = <<>> /\ new_labels = EmptyMap
  /\ drops = 0
-----------------------------------------------------------------------------
(* The node and the API server. *)

EnvOnly == UNCHANGED <<paths, labels, pods, mainVars, wpc, listed, new_labels, drops>>

Exists(path) == \E c \in alive : PathOf[c] = path

\* The kubelet creates the cgroups of pods the API server has.
CgroupStarts(c) ==
  /\ c \in future /\ ~Exists(PathOf[c])
  /\ UidIn[PathOf[c]] # None => UidIn[PathOf[c]] \in Listed
  /\ future' = future \ {c} /\ alive' = alive \cup {c}
  /\ UNCHANGED <<api, stream>> /\ EnvOnly

CgroupEnds(c) ==
  /\ c \in alive /\ alive' = alive \ {c}
  /\ UNCHANGED <<future, api, stream>> /\ EnvOnly

\* A change of a pod goes to the watch stream, if there is one.
Publish(type, p) ==
  stream' = IF wpc \in {"list", "watch", "merge_watch"}
            THEN Append(stream, [type |-> type, pod |-> p, info |-> api'[p]])
            ELSE stream

PodChanges(p) ==
  /\ \/ api[p] = "future" /\ api' = [api EXCEPT ![p] = "pending"] /\ Publish("Apply", p)
     \/ api[p] = "pending" /\ api' = [api EXCEPT ![p] = "running"] /\ Publish("Apply", p)
     \/ api[p] \in Known /\ api' = [api EXCEPT ![p] = "gone"] /\ Publish("Delete", p)
  /\ UNCHANGED kernelVars /\ EnvOnly
-----------------------------------------------------------------------------
(* Labels. *)

Labels == [path : Path \cup {None}, k8s_resolved : BOOLEAN, container : {"none", "id", "name"}]

\* Pod uid and container id are read off the path; None is the failed read of it.
labels_from_cgroup_path(path) ==
  [path |-> path, k8s_resolved |-> FALSE,
   container |-> IF path \in ContainerDir THEN "id" ELSE "none"]

\* The pod's status lists hold the container's id, once it runs.
container_name_in_pod(path, info) == path \in NamedDir /\ info = "running"

\* What a merge computes: pod and namespace, container name and resources, when the
\* pod of the path is known; otherwise the labels of the path alone.
Merged(path, known) ==
  IF UidIn[path] \in DOMAIN known
  THEN [path |-> path, k8s_resolved |-> TRUE,
        container |-> IF container_name_in_pod(path, known[UidIn[path]]) THEN "name" ELSE "none"]
  ELSE labels_from_cgroup_path(path)
-----------------------------------------------------------------------------
(* The main task. *)

MainOnly == UNCHANGED <<kernelVars, api, pods, watcherVars>>

\* bootstrap_existing_cgroups: the blocking walk finds directories with their ids.
Walk ==
  /\ mpc = "walk" /\ mpc' = "register" /\ discovered' \in SUBSET alive
  /\ UNCHANGED <<paths, labels, moved>> /\ MainOnly

\* Mutant: the labels are made before the path is there.
RegisterLabelsFirst(c) ==
  /\ mpc = "register" /\ c \in discovered /\ discovered' = discovered \ {c}
  /\ paths' = Insert(paths, One(c, PathOf[c]))
  /\ labels' = Insert(labels, One(c, labels_from_cgroup_path(None)))
  /\ UNCHANGED <<mpc, moved>> /\ MainOnly

register_cgroup_directory(c) ==
  /\ mpc = "register" /\ c \in discovered /\ discovered' = discovered \ {c}
  /\ paths' = Insert(paths, One(c, PathOf[c]))
  /\ labels' = Insert(labels, One(c, labels_from_cgroup_path(PathOf[c])))
  /\ UNCHANGED <<mpc, moved>> /\ MainOnly

Bootstrapped ==
  /\ mpc = "register" /\ discovered = {} /\ mpc' = "select"
  /\ UNCHANGED <<paths, labels, discovered, moved>> /\ MainOnly

\* Mutant: a known cgroup is learned again.
NewToCacheAlways(c) == TRUE

NewToCache(c) == c \notin DOMAIN paths

\* What /proc/<pid>/cgroup says when it is read: nothing when the process has gone,
\* or the directory that the process, or another that got its pid, is in by now.
cgroup_path_from_pid == {None} \cup {PathOf[d] : d \in alive}

\* on_identity_event: an exec in c, which may have ended since.
on_identity_event(c) ==
  /\ mpc = "select" /\ c \notin future /\ NewToCache(c)
  /\ \E path \in cgroup_path_from_pid :
       /\ IF path \in {None, PathOf[c]}
          THEN UNCHANGED moved
          ELSE moved < MaxMoved /\ moved' = moved + 1
       /\ paths' = IF path = None THEN paths ELSE Insert(paths, One(c, path))
       /\ labels' = Insert(labels, One(c, labels_from_cgroup_path(path)))
  /\ UNCHANGED <<mpc, discovered>> /\ MainOnly

\* path.exists() on the file, not on the directory.
memory_current_exists(path) == \E c \in alive \cap WithMemory : PathOf[c] = path

Stale == {c \in DOMAIN paths : ~memory_current_exists(paths[c])}

\* Mutant: the labels are left behind.
evict_stale_cgroupsPathsOnly ==
  /\ mpc = "select" /\ Stale # {}
  /\ paths' = Remove(paths, Stale) /\ UNCHANGED labels
  /\ UNCHANGED mainVars /\ MainOnly

\* Everything known of a stale cgroup goes, also of a live one without memory.current.
evict_stale_cgroups ==
  /\ mpc = "select" /\ Stale # {}
  /\ paths' = Remove(paths, Stale) /\ labels' = Remove(labels, Stale)
  /\ UNCHANGED mainVars /\ MainOnly

\* The arm of select! for the watcher's JoinHandle awaits the handle it has just
\* seen complete; polled again, it panics.
WatcherJoined ==
  /\ mpc = "select" /\ wpc = "ended" /\ mpc' = "panicked"
  /\ UNCHANGED <<paths, labels, discovered, moved>> /\ MainOnly
-----------------------------------------------------------------------------
(* The watcher task. *)

WatcherOnly == mpc # "panicked" /\ UNCHANGED <<kernelVars, api, paths, mainVars>>

\* k8s_client succeeds.
Client ==
  /\ wpc = "client" /\ wpc' = "start"
  /\ WatcherOnly /\ UNCHANGED <<labels, pods, listed, stream, new_labels, drops>>

\* k8s_client fails: the task logs it and returns.
WatcherEnds ==
  /\ wpc = "client" /\ wpc' = "ended"
  /\ WatcherOnly /\ UNCHANGED <<labels, pods, listed, stream, new_labels, drops>>

\* Event::Init: the API server lists its pods; later changes follow in the stream.
WatchInit ==
  /\ wpc = "start" /\ wpc' = "list" /\ listed' = Restrict(api, Listed)
  /\ WatcherOnly /\ UNCHANGED <<labels, pods, stream, new_labels, drops>>

InitApply(p) ==
  /\ wpc = "list" /\ p \in DOMAIN listed
  /\ pods' = Insert(pods, One(p, listed[p])) /\ listed' = Remove(listed, {p})
  /\ WatcherOnly /\ UNCHANGED <<labels, wpc, stream, new_labels, drops>>

\* merge_cgroup_labels_from_k8s up to its write lock, pod_by_uid being known.
MergeRead(known, next) ==
  /\ new_labels' = [c \in DOMAIN paths |-> Merged(paths[c], known)] /\ wpc' = next

\* Mutant: the initial list is stored and not merged.
InitDoneNoMerge ==
  /\ wpc = "list" /\ DOMAIN listed = {} /\ wpc' = "watch"
  /\ WatcherOnly /\ UNCHANGED <<labels, pods, listed, stream, new_labels, drops>>

InitDone ==
  /\ wpc = "list" /\ DOMAIN listed = {} /\ MergeRead(pods, "merge_watch")
  /\ WatcherOnly /\ UNCHANGED <<labels, pods, listed, stream, drops>>

Apply ==
  /\ wpc = "watch" /\ stream # <<>> /\ Head(stream).type = "Apply" /\ stream' = Tail(stream)
  /\ pods' = Insert(pods, One(Head(stream).pod, Head(stream).info))
  /\ MergeRead(pods', "merge_watch")
  /\ WatcherOnly /\ UNCHANGED <<labels, listed, drops>>

\* Mutant: a deleted pod is kept.
DeleteKeeps ==
  /\ wpc = "watch" /\ stream # <<>> /\ Head(stream).type = "Delete" /\ stream' = Tail(stream)
  /\ WatcherOnly /\ UNCHANGED <<labels, pods, wpc, listed, new_labels, drops>>

\* Mutant: a Delete event is stored like an Apply.
DeleteStores ==
  /\ wpc = "watch" /\ stream # <<>> /\ Head(stream).type = "Delete" /\ stream' = Tail(stream)
  /\ pods' = Insert(pods, One(Head(stream).pod, Head(stream).info))
  /\ WatcherOnly /\ UNCHANGED <<labels, wpc, listed, new_labels, drops>>

Delete ==
  /\ wpc = "watch" /\ stream # <<>> /\ Head(stream).type = "Delete" /\ stream' = Tail(stream)
  /\ pods' = Remove(pods, {Head(stream).pod})
  /\ WatcherOnly /\ UNCHANGED <<labels, wpc, listed, new_labels, drops>>

\* The merge takes the write lock.
MergeWrite ==
  /\ wpc \in {"merge_watch", "merge_sleep"}
  /\ wpc' = (IF wpc = "merge_watch" THEN "watch" ELSE "sleep")
  /\ labels' = Insert(labels, new_labels) /\ new_labels' = EmptyMap
  /\ WatcherOnly /\ UNCHANGED <<pods, listed, stream, drops>>

\* The stream ends or reports an error; what it still held is not seen.
StreamEnds ==
  /\ wpc \in {"start", "list", "watch"} /\ drops < MaxDrops /\ drops' = drops + 1
  /\ wpc' = "refresh" /\ listed' = EmptyMap /\ stream' = <<>>
  /\ WatcherOnly /\ UNCHANGED <<labels, pods, new_labels>>

\* refresh_k8s_pods lists the pods once, or fails.
refresh_k8s_pods ==
  /\ wpc = "refresh"
  /\ \/ pods' = Insert(pods, Restrict(api, Listed)) /\ MergeRead(pods', "merge_sleep")
     \/ wpc' = "sleep" /\ UNCHANGED <<pods, new_labels>>
  /\ WatcherOnly /\ UNCHANGED <<labels, listed, stream, drops>>

\* The back-off is over: the next turn of the loop opens a new stream.
Reconnect ==
  /\ wpc = "sleep" /\ wpc' = "start"
  /\ WatcherOnly /\ UNCHANGED <<labels, pods, listed, stream, new_labels, drops>>
-----------------------------------------------------------------------------
MainStep ==
  \/ Walk \/ Bootstrapped \/ evict_stale_cgroups \/ WatcherJoined
  \/ \E c \in Cgroup : register_cgroup_directory(c)

WatcherStep ==
  \/ Client \/ WatchInit \/ InitDone \/ Apply \/ Delete \/ MergeWrite
  \/ refresh_k8s_pods \/ Reconnect
  \/ \E p \in Pod : InitApply(p)

Next ==
  \/ MainStep \/ WatcherStep \/ StreamEnds \/ WatcherEnds
  \/ \E c \in Cgroup : CgroupStarts(c) \/ CgroupEnds(c) \/ on_identity_event(c)
  \/ \E p \in Pod : PodChanges(p)

Spec == Init /\ [][Next]_vars

\* Both tasks are scheduled, the eviction timer fires, and the API server answers a
\* new list in the end; nothing is assumed of the node, of the pods or of failures.
FairSpec == Spec /\ WF_vars(MainStep) /\ WF_vars(WatcherStep)
-----------------------------------------------------------------------------
(* Properties. *)

\* An event of the watch stream carries the pod as it is at that moment.
Event ==
  [type : {"Apply"}, pod : Pod, info : Known] \cup [type : {"Delete"}, pod : Pod, info : {"gone"}]

\* Type invariant of the node, the cache and the two tasks.
TypeOK ==
  /\ alive \subseteq Cgroup /\ future \subseteq Cgroup
  /\ api \in [Pod -> Known \cup {"future", "gone"}]
  /\ IsMap(paths, Cgroup, Path) /\ IsMap(labels, Cgroup, Labels) /\ IsMap(pods, Pod, Known)
  /\ mpc \in {"walk", "register", "select", "panicked"} /\ discovered \subseteq Cgroup
  /\ wpc \in {"client", "start", "list", "watch", "merge_watch", "refresh", "merge_sleep",
              "sleep", "ended"}
  /\ IsMap(listed, Pod, Known) /\ IsMap(new_labels, Cgroup, Labels)
  /\ stream \in Seq(Event)
  /\ moved \in 0..MaxMoved /\ drops \in 0..MaxDrops

\* LabelsFitPath: the labels of a sampled cgroup are those of the directory its
\* numbers are read from, although a merge writes labels it computed from an older
\* state of the cache, after evictions and registrations by the other task; as long
\* as every path was read from a process still in its cgroup.
LabelsFitPath ==
  moved = 0 => \A c \in DOMAIN paths : c \in DOMAIN labels /\ labels[c].path = paths[c]

\* NoUnresolve: a sampled cgroup that has its pod's name keeps it as long as the
\* watcher knows the pod: no exec event, registration or merge takes it back.
NoUnresolve ==
  [][\A c \in DOMAIN paths \cap DOMAIN paths' :
       labels[c].k8s_resolved /\ UidIn[paths[c]] \in DOMAIN pods'
         => labels'[c].k8s_resolved]_vars

\* The watcher has not heard the latest about the pod of c.
Behind(c) ==
  /\ c \in DOMAIN paths /\ UidIn[paths[c]] \in Listed
  /\ ~(UidIn[paths[c]] \in DOMAIN pods /\ pods[UidIn[paths[c]]] = api[UidIn[paths[c]]])

\* LabelsCatchUp: a cgroup in the cache before the watcher hears of its pod, or of
\* its containers, gets their names in the end, through broken streams, failed
\* refreshes and lists cut short.
LabelsCatchUp ==
  \A c \in Cgroup :
    Behind(c) ~> \/ c \notin DOMAIN paths \/ UidIn[paths[c]] \notin Listed \/ wpc = "ended"
                \/ labels[c] = Merged(paths[c], Restrict(api, Listed))

\* DeletedPodsLeave: "deleted pods must leave pod_by_uid" (ADR 050); they do as
\* long as the watch stream never breaks.
DeletedPodsLeave ==
  \A p \in Pod :
    (api[p] = "gone") ~> (p \notin DOMAIN pods \/ drops > 0 \/ wpc = "ended")

\* StaleForgotten: a cgroup whose memory.current has gone is evicted in the end, its
\* path and its labels in one moment, so that the sampler stops opening its files,
\* unless another cgroup has it again in the same directory before the timer fires.  This is
\* about the eviction alone: labels may come back afterwards, from a merge under way
\* or with the next exec event (NodeBounded).
StaleForgotten ==
  \A c \in Cgroup :
    (c \in DOMAIN paths /\ ~memory_current_exists(paths[c]))
      ~> \/ c \notin DOMAIN paths \cup DOMAIN labels
         \/ c \in DOMAIN paths /\ memory_current_exists(paths[c])
         \/ mpc = "panicked"

\* NodeBounded: "cache footprint bounded by live cgroups/pods on node" (ADR 050).  What
\* is cached of a cgroup that has ended, or of a deleted pod, goes in the end; the
\* eviction may be late, and stops with the tasks.
NodeBounded ==
  /\ \A c \in Cgroup : (c \notin alive \cup future) ~> (c \notin DOMAIN labels \/ mpc = "panicked")
  /\ \A p \in Pod : (api[p] = "gone") ~> (p \notin DOMAIN pods \/ wpc = "ended")
==============================================================================
