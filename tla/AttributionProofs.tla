-------------------------- MODULE AttributionProofs --------------------------
(* The attribution cache, for every set of cgroups, directories and pods,     *)
(* any number of broken streams and of processes that moved.                  *)
EXTENDS Attribution, TLAPS

Merging == wpc \in {"merge_watch", "merge_sleep"}

\* Every sampled cgroup has labels; a path is that of its cgroup unless a process moved.
PathInv ==
  /\ DOMAIN paths \subseteq DOMAIN labels
  /\ moved = 0 => \A c \in DOMAIN paths : paths[c] = PathOf[c]

\* What a merge in flight will write: labels of a path the cgroup had when they were
\* computed, resolved if the watcher knows the pod.  When the cgroup was forgotten and
\* learned anew with another path since, its labels are not resolved yet.
MergeInv ==
  \A c \in DOMAIN new_labels :
    /\ Merging /\ new_labels[c].path \in Path
    /\ UidIn[new_labels[c].path] \in DOMAIN pods => new_labels[c].k8s_resolved
    /\ moved = 0 => new_labels[c].path = PathOf[c]
    /\ c \in DOMAIN paths => new_labels[c].path = paths[c] \/ ~labels[c].k8s_resolved

\* The walk at startup finds every directory once, before exec events are handled.
StartInv ==
  /\ mpc = "walk" => DOMAIN paths = {}
  /\ mpc = "register" => discovered \cap DOMAIN paths = {}

CacheInv == PathInv /\ LabelsFitPath /\ MergeInv /\ StartInv
-----------------------------------------------------------------------------
(* Maps. *)

LEMMA InsertMap ==
  ASSUME NEW S, NEW T, NEW f, NEW g, IsMap(f, S, T), IsMap(g, S, T)
  PROVE  IsMap(Insert(f, g), S, T)
  BY Zenon DEF IsMap, Insert

LEMMA OneMap ==
  ASSUME NEW S, NEW T, NEW x \in S, NEW y \in T
  PROVE  IsMap(One(x, y), S, T)
  BY Zenon DEF IsMap, One

LEMMA RemoveMap ==
  ASSUME NEW S, NEW T, NEW f, NEW X, IsMap(f, S, T)
  PROVE  IsMap(Remove(f, X), S, T)
  BY Zenon DEF IsMap, Remove, Restrict

LEMMA EmptyIsMap ==
  ASSUME NEW S, NEW T PROVE IsMap(EmptyMap, S, T) /\ DOMAIN EmptyMap = {}
  BY Zenon DEF IsMap, EmptyMap
-----------------------------------------------------------------------------
(* Labels. *)

LEMMA PathLabels ==
  ASSUME NEW path \in Path \cup {None}
  PROVE  /\ labels_from_cgroup_path(path) \in Labels
         /\ labels_from_cgroup_path(path).path = path
         /\ ~labels_from_cgroup_path(path).k8s_resolved
  BY Zenon DEF labels_from_cgroup_path, Labels

LEMMA MergedLabels ==
  ASSUME NEW path \in Path, NEW known
  PROVE  /\ Merged(path, known) \in Labels /\ Merged(path, known).path = path
         /\ UidIn[path] \in DOMAIN known => Merged(path, known).k8s_resolved
  <1>1. CASE UidIn[path] \in DOMAIN known
    BY <1>1, Zenon DEF Merged, Labels
  <1>2. CASE UidIn[path] \notin DOMAIN known
    BY <1>2, PathLabels, Zenon DEF Merged
  <1> QED BY <1>1, <1>2, Zenon

\* The pods a list returns.
LEMMA ListedMap ==
  ASSUME api \in [Pod -> Known \cup {"future", "gone"}]
  PROVE  IsMap(Restrict(api, Listed), Pod, Known)
  BY Zenon DEF IsMap, Restrict, Listed
-----------------------------------------------------------------------------
(* Steps. *)

KernelType ==
  alive \subseteq Cgroup /\ future \subseteq Cgroup /\ api \in [Pod -> Known \cup {"future", "gone"}]

CacheType == IsMap(paths, Cgroup, Path) /\ IsMap(labels, Cgroup, Labels) /\ IsMap(pods, Pod, Known)

MainType ==
  /\ mpc \in {"walk", "register", "select", "panicked"} /\ discovered \subseteq Cgroup
  /\ moved \in 0..MaxMoved

WatcherType ==
  /\ wpc \in {"client", "start", "list", "watch", "merge_watch", "refresh", "merge_sleep",
              "sleep", "ended"}
  /\ IsMap(listed, Pod, Known) /\ IsMap(new_labels, Cgroup, Labels)
  /\ stream \in Seq(Event) /\ drops \in 0..MaxDrops

LEMMA Types == TypeOK <=> KernelType /\ CacheType /\ MainType /\ WatcherType
  BY Zenon DEF TypeOK, KernelType, CacheType, MainType, WatcherType

LEMMA TypesNext == TypeOK' <=> KernelType' /\ CacheType' /\ MainType' /\ WatcherType'
  BY Types, PTL

\* A resolved cgroup keeps its pod's name in this step.
KeepsName ==
  \A c \in DOMAIN paths \cap DOMAIN paths' :
    labels[c].k8s_resolved /\ UidIn[paths[c]] \in DOMAIN pods' => labels'[c].k8s_resolved

\* A step that leaves the cache and both tasks alone.
LEMMA CacheKept ==
  ASSUME CacheInv, UNCHANGED <<paths, labels, pods, mainVars, wpc, new_labels>>
  PROVE  CacheInv' /\ KeepsName
  BY Zenon DEF CacheInv, PathInv, LabelsFitPath, MergeInv, StartInv, Merging, KeepsName, mainVars

LEMMA EnvStep ==
  ASSUME TypeOK, CacheInv,
         \/ \E c \in Cgroup : CgroupStarts(c) \/ CgroupEnds(c)
         \/ \E p \in Pod : PodChanges(p)
  PROVE  TypeOK' /\ CacheInv' /\ KeepsName
  <1>0. KernelType /\ CacheType /\ MainType /\ WatcherType
    BY Types, Zenon
  <1>1. UNCHANGED <<paths, labels, pods, mainVars, wpc, listed, new_labels, drops>>
    BY Zenon DEF CgroupStarts, CgroupEnds, PodChanges, EnvOnly
  <1>2. CacheInv' /\ KeepsName
    BY <1>1, CacheKept, Zenon
  <1>3. CacheType' /\ MainType'
    BY <1>0, <1>1, Zenon DEF CacheType, MainType, mainVars
  <1>4. KernelType' /\ stream' \in Seq(Event)
    <2>1. CASE \E c \in Cgroup : CgroupStarts(c) \/ CgroupEnds(c)
      BY <2>1, <1>0, Zenon DEF CgroupStarts, CgroupEnds, KernelType, WatcherType
    <2>2. CASE \E p \in Pod : PodChanges(p)
      <3>1. PICK p \in Pod : PodChanges(p)
        BY <2>2, Zenon
      <3>2. /\ UNCHANGED <<alive, future>> /\ api \in [Pod -> Known \cup {"future", "gone"}]
            /\ \/ api' = [api EXCEPT ![p] = "pending"] /\ Publish("Apply", p)
               \/ api' = [api EXCEPT ![p] = "running"] /\ Publish("Apply", p)
               \/ api' = [api EXCEPT ![p] = "gone"] /\ Publish("Delete", p)
        BY <3>1, <1>0, Zenon DEF PodChanges, kernelVars, KernelType
      <3>3. KernelType'
        BY <3>2, <1>0, Zenon DEF KernelType, Known
      <3>4. PICK e \in Event : Publish(e.type, p) /\ e = [type |-> e.type, pod |-> p, info |-> api'[p]]
        <4>1. CASE /\ api' = [api EXCEPT ![p] = "pending"] \/ api' = [api EXCEPT ![p] = "running"]
                   /\ Publish("Apply", p)
          <5>1. api'[p] \in Known
            BY <4>1, <3>2, Zenon DEF Known
          <5>2. [type |-> "Apply", pod |-> p, info |-> api'[p]] \in Event
            BY <5>1, Zenon DEF Event
          <5> QED BY <5>2, <4>1, Zenon
        <4>2. CASE api' = [api EXCEPT ![p] = "gone"] /\ Publish("Delete", p)
          <5>1. api'[p] = "gone"
            BY <4>2, <3>2, Zenon
          <5>2. [type |-> "Delete", pod |-> p, info |-> api'[p]] \in Event
            BY <5>1, Zenon DEF Event
          <5> QED BY <5>2, <4>2, Zenon
        <4> QED BY <3>2, <4>1, <4>2, Zenon
      <3>6. \A x \in Event : Append(stream, x) \in Seq(Event)
        BY <1>0 DEF WatcherType
      <3>7. stream' \in Seq(Event)
        BY <3>4, <3>6, <1>0, Zenon DEF Publish, WatcherType
      <3> QED BY <3>3, <3>7, Zenon
    <2> QED BY <2>1, <2>2, Zenon
  <1>5. WatcherType'
    BY <1>0, <1>1, <1>4, Zenon DEF WatcherType
  <1> QED BY <1>2, <1>3, <1>4, <1>5, TypesNext, Zenon

\* The main task learns cgroup c, with the directory path: a new entry of the cache,
\* not resolved yet.  A merge in flight may already hold labels for it.
LEMMA Learns ==
  ASSUME TypeOK, CacheInv, NEW c \in Cgroup, NEW path \in Path,
         c \notin DOMAIN paths, UNCHANGED <<pods, watcherVars>>, moved' \in Nat,
         \/ path = PathOf[c] /\ moved' = moved
         \/ moved' > 0 /\ moved' > moved,
         paths' = Insert(paths, One(c, path)),
         labels' = Insert(labels, One(c, labels_from_cgroup_path(path)))
  PROVE  CacheType' /\ PathInv' /\ LabelsFitPath' /\ MergeInv' /\ KeepsName
  <1> DEFINE l == labels_from_cgroup_path(path)
  <1>1. l \in Labels /\ l.path = path /\ ~l.k8s_resolved
    BY PathLabels, Zenon
  <1> HIDE DEF l
  <1>2. /\ DOMAIN paths' = DOMAIN paths \cup {c} /\ paths'[c] = path
        /\ \A d \in DOMAIN paths : d # c => paths'[d] = paths[d]
    BY Zenon DEF Insert, One
  <1>3. /\ DOMAIN labels' = DOMAIN labels \cup {c} /\ labels'[c] = l
        /\ \A d \in DOMAIN labels : d # c => labels'[d] = labels[d]
    BY Zenon DEF l, Insert, One
  <1>4. CacheType'
    <2>1. CacheType
      BY Types, Zenon
    <2>2. IsMap(One(c, path), Cgroup, Path) /\ IsMap(One(c, l), Cgroup, Labels)
      BY <1>1, OneMap, Zenon
    <2>3. IsMap(paths', Cgroup, Path) /\ IsMap(labels', Cgroup, Labels)
      BY <2>1, <2>2, InsertMap, Zenon DEF CacheType, l
    <2> QED BY <2>1, <2>3, Zenon DEF CacheType
  <1>5. moved \in Nat /\ (moved' = 0 => moved = 0 /\ path = PathOf[c])
    <2>1. moved \in Nat
      BY DEF TypeOK
    <2> QED BY <2>1
  <1>6. PathInv'
    BY <1>2, <1>3, <1>5, Zenon DEF CacheInv, PathInv
  <1>7. LabelsFitPath'
    BY <1>1, <1>2, <1>3, <1>5, Zenon DEF CacheInv, PathInv, LabelsFitPath
  <1>8. MergeInv'
    <2>1. UNCHANGED <<wpc, new_labels, pods>>
      BY Zenon DEF watcherVars
    <2>2. ASSUME NEW d \in DOMAIN new_labels, d \in DOMAIN paths'
          PROVE  new_labels[d].path = paths'[d] \/ ~labels'[d].k8s_resolved
      <3>1. CASE d = c
        BY <3>1, <1>1, <1>3, Zenon
      <3>2. CASE d # c
        <4>1. d \in DOMAIN paths /\ d \in DOMAIN labels
          BY <3>2, <2>2, <1>2, Zenon DEF CacheInv, PathInv
        <4>2. new_labels[d].path = paths[d] \/ ~labels[d].k8s_resolved
          BY <4>1, Zenon DEF CacheInv, MergeInv
        <4> QED BY <4>1, <4>2, <3>2, <1>2, <1>3, Zenon
      <3> QED BY <3>1, <3>2, Zenon
    <2> QED BY <2>1, <2>2, <1>5, Zenon DEF CacheInv, MergeInv, Merging
  <1>9. KeepsName
    BY <1>2, <1>3, Zenon DEF KeepsName, CacheInv, PathInv
  <1> QED BY <1>4, <1>6, <1>7, <1>8, <1>9, Zenon

\* An exec whose process has gone leaves labels without a path.
LEMMA LearnsNothing ==
  ASSUME TypeOK, CacheInv, NEW c \in Cgroup, c \notin DOMAIN paths,
         UNCHANGED <<paths, pods, moved, watcherVars>>,
         labels' = Insert(labels, One(c, labels_from_cgroup_path(None)))
  PROVE  CacheType' /\ PathInv' /\ LabelsFitPath' /\ MergeInv' /\ KeepsName
  <1>1. /\ DOMAIN labels' = DOMAIN labels \cup {c}
        /\ \A d \in DOMAIN labels : d # c => labels'[d] = labels[d]
    BY Zenon DEF Insert, One
  <1>2. CacheType'
    <2>1. CacheType
      BY Types, Zenon
    <2>2. IsMap(One(c, labels_from_cgroup_path(None)), Cgroup, Labels)
      BY PathLabels, OneMap, Zenon
    <2>3. IsMap(labels', Cgroup, Labels)
      BY <2>1, <2>2, InsertMap, Zenon DEF CacheType
    <2> QED BY <2>1, <2>3, Zenon DEF CacheType
  <1>3. PathInv'
    BY <1>1, Zenon DEF CacheInv, PathInv
  <1>4. \A d \in DOMAIN paths : d \in DOMAIN labels /\ labels'[d] = labels[d]
    BY <1>1, Zenon DEF CacheInv, PathInv
  <1>5. LabelsFitPath'
    BY <1>1, <1>4, Zenon DEF CacheInv, LabelsFitPath
  <1>6. MergeInv'
    BY <1>4, Zenon DEF CacheInv, MergeInv, Merging, watcherVars
  <1>7. KeepsName
    BY <1>4, Zenon DEF KeepsName
  <1> QED BY <1>2, <1>3, <1>5, <1>6, <1>7, Zenon

LEMMA Evicts ==
  ASSUME TypeOK, CacheInv, evict_stale_cgroups
  PROVE  CacheType' /\ PathInv' /\ LabelsFitPath' /\ MergeInv' /\ KeepsName
  <1>0. /\ paths' = Remove(paths, Stale) /\ labels' = Remove(labels, Stale)
        /\ UNCHANGED <<pods, moved, wpc, new_labels>>
    BY Zenon DEF evict_stale_cgroups, MainOnly, mainVars, watcherVars
  <1>1. /\ DOMAIN paths' = DOMAIN paths \ Stale
        /\ \A d \in DOMAIN paths : d \notin Stale => paths'[d] = paths[d]
    BY <1>0, Zenon DEF Remove, Restrict
  <1>2. /\ DOMAIN labels' = DOMAIN labels \ Stale
        /\ \A d \in DOMAIN labels : d \notin Stale => labels'[d] = labels[d]
    BY <1>0, Zenon DEF Remove, Restrict
  <1>3. CacheType'
    BY <1>0, RemoveMap, Types, Zenon DEF CacheType
  <1>4. PathInv'
    BY <1>0, <1>1, <1>2, Zenon DEF CacheInv, PathInv
  <1>5. \A d \in DOMAIN paths' : /\ d \in DOMAIN paths /\ d \in DOMAIN labels
                                 /\ paths'[d] = paths[d] /\ labels'[d] = labels[d] /\ d \in DOMAIN labels'
    BY <1>1, <1>2, Zenon DEF CacheInv, PathInv
  <1>6. LabelsFitPath'
    BY <1>0, <1>5, Zenon DEF CacheInv, LabelsFitPath
  <1>7. MergeInv'
    BY <1>0, <1>5, Zenon DEF CacheInv, MergeInv, Merging
  <1>8. KeepsName
    BY <1>0, <1>5, Zenon DEF KeepsName
  <1> QED BY <1>3, <1>4, <1>6, <1>7, <1>8, Zenon

LEMMA MainTaskStep ==
  ASSUME TypeOK, CacheInv, MainStep \/ \E c \in Cgroup : on_identity_event(c)
  PROVE  TypeOK' /\ CacheInv' /\ KeepsName
  <1>0. KernelType /\ CacheType /\ MainType /\ WatcherType
    BY Types, Zenon
  <1>1. /\ UNCHANGED <<alive, future, api, pods, watcherVars>>
        /\ UNCHANGED <<wpc, listed, stream, new_labels, drops>>
    BY Zenon DEF MainStep, Walk, Bootstrapped, evict_stale_cgroups, WatcherJoined,
           register_cgroup_directory, on_identity_event, MainOnly, kernelVars, watcherVars
  <1>2. KernelType' /\ WatcherType'
    BY <1>0, <1>1, Zenon DEF KernelType, WatcherType
  <1>3. moved \in Nat /\ MaxMoved \in Nat
    BY <1>0, AttributionAssumption DEF MainType
  <1> SUFFICES MainType' /\ CacheType' /\ CacheInv' /\ KeepsName
    BY <1>2, TypesNext, Zenon
  <1>4. CASE Walk \/ Bootstrapped \/ WatcherJoined
    <2>1. /\ UNCHANGED <<paths, labels, moved>>
          /\ \/ mpc = "walk" /\ mpc' = "register" /\ discovered' \subseteq alive
             \/ mpc' \in {"select", "panicked"} /\ UNCHANGED discovered
      BY <1>4, Zenon DEF Walk, Bootstrapped, WatcherJoined
    <2>2. MainType'
      BY <2>1, <1>0, Zenon DEF MainType, KernelType
    <2>3. CacheType'
      BY <2>1, <1>0, <1>1, Zenon DEF CacheType
    <2>4. PathInv' /\ LabelsFitPath' /\ MergeInv' /\ KeepsName
      BY <2>1, <1>1, Zenon DEF CacheInv, PathInv, LabelsFitPath, MergeInv, Merging, KeepsName
    <2>5. StartInv'
      BY <2>1, Zenon DEF CacheInv, StartInv
    <2> QED BY <2>2, <2>3, <2>4, <2>5, Zenon DEF CacheInv
  <1>5. CASE evict_stale_cgroups
    <2>1. UNCHANGED <<mpc, discovered, moved>> /\ mpc = "select"
      BY <1>5, Zenon DEF evict_stale_cgroups, mainVars
    <2>2. MainType' /\ StartInv'
      BY <2>1, <1>0, Zenon DEF MainType, StartInv
    <2> QED BY <2>2, <1>5, Evicts, Zenon DEF CacheInv
  <1>6. CASE \E c \in Cgroup : register_cgroup_directory(c)
    <2>1. PICK c \in Cgroup : register_cgroup_directory(c)
      BY <1>6, Zenon
    <2>2. /\ mpc = "register" /\ c \in discovered /\ discovered' = discovered \ {c}
          /\ UNCHANGED <<mpc, moved>> /\ paths' = Insert(paths, One(c, PathOf[c]))
          /\ labels' = Insert(labels, One(c, labels_from_cgroup_path(PathOf[c])))
      BY <2>1, Zenon DEF register_cgroup_directory
    <2>3. c \notin DOMAIN paths /\ PathOf[c] \in Path
      BY <2>2, AttributionAssumption, Zenon DEF CacheInv, StartInv
    <2>4. PICK path \in Path : path = PathOf[c]
      BY <2>3, Zenon
    <2>5. CacheType' /\ PathInv' /\ LabelsFitPath' /\ MergeInv' /\ KeepsName
      BY <2>2, <2>3, <2>4, <1>1, <1>3, Learns, Zenon
    <2>6. MainType'
      BY <2>2, <1>0, Zenon DEF MainType
    <2>7. DOMAIN paths' = DOMAIN paths \cup {c}
      BY <2>2, Zenon DEF Insert, One
    <2>8. StartInv'
      BY <2>2, <2>7, Zenon DEF CacheInv, StartInv
    <2> QED BY <2>5, <2>6, <2>8, Zenon DEF CacheInv
  <1>7. CASE \E c \in Cgroup : on_identity_event(c)
    <2>1. PICK c \in Cgroup : on_identity_event(c)
      BY <1>7, Zenon
    <2>2. /\ mpc = "select" /\ UNCHANGED <<mpc, discovered>> /\ c \notin DOMAIN paths
      BY <2>1, Zenon DEF on_identity_event, NewToCache
    <2>3. StartInv'
      BY <2>2, Zenon DEF StartInv
    <2>4. PICK path \in cgroup_path_from_pid :
            /\ IF path \in {None, PathOf[c]}
               THEN UNCHANGED moved
               ELSE moved < MaxMoved /\ moved' = moved + 1
            /\ paths' = IF path = None THEN paths ELSE Insert(paths, One(c, path))
            /\ labels' = Insert(labels, One(c, labels_from_cgroup_path(path)))
      BY <2>1, Zenon DEF on_identity_event
    <2>5. CASE path = None
      <3>1. UNCHANGED <<paths, moved>> /\ labels' = Insert(labels, One(c, labels_from_cgroup_path(None)))
        BY <2>4, <2>5, Zenon
      <3>2. CacheType' /\ PathInv' /\ LabelsFitPath' /\ MergeInv' /\ KeepsName
        BY <2>2, <3>1, <1>1, LearnsNothing, Zenon
      <3>3. MainType'
        BY <2>2, <3>1, <1>0, Zenon DEF MainType
      <3> QED BY <2>3, <3>2, <3>3, Zenon DEF CacheInv
    <2>6. CASE path # None
      <3>1. /\ path \in Path /\ paths' = Insert(paths, One(c, path))
            /\ labels' = Insert(labels, One(c, labels_from_cgroup_path(path)))
        BY <2>4, <2>6, <1>0, AttributionAssumption, Zenon DEF cgroup_path_from_pid, KernelType
      <3>2. \/ path = PathOf[c] /\ moved' = moved
            \/ moved < MaxMoved /\ moved' = moved + 1
        BY <2>4, <2>6, Zenon
      <3>3. moved \in 0..MaxMoved
        BY <1>0, Zenon DEF MainType
      <3>4. moved' \in Nat /\ moved' \in 0..MaxMoved /\ (moved' = moved \/ (moved' > 0 /\ moved' > moved))
        BY ONLY <3>2, <3>3, <1>3
      <3>5. (path = PathOf[c] /\ moved' = moved) \/ (moved' > 0 /\ moved' > moved)
        BY ONLY <3>2, <1>3
      <3>6. CacheType' /\ PathInv' /\ LabelsFitPath' /\ MergeInv' /\ KeepsName
        BY <2>2, <3>1, <3>4, <3>5, <1>1, Learns, Zenon
      <3>7. MainType'
        BY <2>2, <3>4, <1>0, Zenon DEF MainType
      <3> QED BY <2>3, <3>6, <3>7, Zenon DEF CacheInv
    <2> QED BY <2>5, <2>6, Zenon
  <1> QED BY <1>4, <1>5, <1>6, <1>7, Zenon DEF MainStep

\* A merge reads the cache: what it computes fits the paths of this moment.
LEMMA ReadStep ==
  ASSUME TypeOK, CacheInv, NEW next \in {"merge_watch", "merge_sleep"},
         MergeRead(pods', next), UNCHANGED <<paths, labels, mainVars>>
  PROVE  IsMap(new_labels', Cgroup, Labels) /\ wpc' = next /\ CacheInv' /\ KeepsName
  <1>1. IsMap(paths, Cgroup, Path)
    BY Zenon DEF TypeOK
  <1>2. /\ new_labels' = [c \in DOMAIN paths |-> Merged(paths[c], pods')] /\ wpc' = next
        /\ DOMAIN paths \subseteq Cgroup /\ \A c \in DOMAIN paths : paths[c] \in Path
    BY <1>1, Zenon DEF MergeRead, IsMap
  <1>3. PICK known : known = pods'
    BY Zenon
  <1>4. \A c \in DOMAIN paths :
          /\ Merged(paths[c], known) \in Labels /\ Merged(paths[c], known).path = paths[c]
          /\ UidIn[paths[c]] \in DOMAIN known => Merged(paths[c], known).k8s_resolved
    BY <1>2, MergedLabels, Zenon
  <1>5. DOMAIN new_labels' = DOMAIN paths /\ \A c \in DOMAIN paths : new_labels'[c] = Merged(paths[c], known)
    BY <1>2, <1>3, Zenon
  <1>6. IsMap(new_labels', Cgroup, Labels)
    <2>1. new_labels' \in [DOMAIN paths -> Labels]
      BY <1>2, <1>3, <1>4, Zenon
    <2> QED BY <2>1, <1>2, <1>5, Zenon DEF IsMap
  <1>7. MergeInv'
    BY <1>2, <1>3, <1>4, <1>5 DEF CacheInv, PathInv, MergeInv, Merging, mainVars
  <1>8. PathInv' /\ LabelsFitPath' /\ StartInv' /\ KeepsName
    BY Zenon DEF CacheInv, PathInv, LabelsFitPath, StartInv, KeepsName, mainVars
  <1> QED BY <1>2, <1>6, <1>7, <1>8, Zenon DEF CacheInv

\* A merge writes what it computed.
LEMMA WriteStep ==
  ASSUME TypeOK, CacheInv, MergeWrite
  PROVE  CacheType' /\ CacheInv' /\ KeepsName
  <1>0. /\ labels' = Insert(labels, new_labels) /\ new_labels' = EmptyMap
        /\ UNCHANGED <<paths, pods, mpc, discovered, moved>>
    BY Zenon DEF MergeWrite, WatcherOnly, mainVars
  <1>1. /\ DOMAIN labels' = DOMAIN labels \cup DOMAIN new_labels
        /\ \A c \in DOMAIN new_labels : labels'[c] = new_labels[c]
        /\ \A c \in DOMAIN labels : c \notin DOMAIN new_labels => labels'[c] = labels[c]
    BY <1>0, Zenon DEF Insert
  <1>2. CacheType'
    <2>1. CacheType /\ IsMap(new_labels, Cgroup, Labels)
      BY Types, Zenon DEF WatcherType
    <2>2. IsMap(labels', Cgroup, Labels)
      BY <2>1, <1>0, InsertMap, Zenon DEF CacheType
    <2> QED BY <2>1, <2>2, <1>0, Zenon DEF CacheType
  <1>3. PathInv' /\ StartInv'
    BY <1>0, <1>1, Zenon DEF CacheInv, PathInv, StartInv
  <1>4. MergeInv'
    BY <1>0, EmptyIsMap, Zenon DEF MergeInv
  <1>5. LabelsFitPath'
    <2> SUFFICES ASSUME moved' = 0, NEW c \in DOMAIN paths' PROVE c \in DOMAIN labels' /\ labels'[c].path = paths'[c]
      BY Zenon DEF LabelsFitPath
    <2>1. moved = 0 /\ c \in DOMAIN paths /\ paths'[c] = paths[c] /\ paths[c] = PathOf[c]
      BY <1>0, Zenon DEF CacheInv, PathInv
    <2>2. CASE c \in DOMAIN new_labels
      BY <2>1, <2>2, <1>1, Zenon DEF CacheInv, MergeInv
    <2>3. CASE c \notin DOMAIN new_labels
      BY <2>1, <2>3, <1>1, Zenon DEF CacheInv, LabelsFitPath
    <2> QED BY <2>2, <2>3, Zenon
  <1>6. KeepsName
    <2> SUFFICES ASSUME NEW c \in DOMAIN paths, labels[c].k8s_resolved, UidIn[paths[c]] \in DOMAIN pods
                 PROVE  labels'[c].k8s_resolved
      BY <1>0, Zenon DEF KeepsName
    <2>1. CASE c \in DOMAIN new_labels
      BY <2>1, <1>1, Zenon DEF CacheInv, MergeInv
    <2>2. CASE c \notin DOMAIN new_labels
      BY <2>2, <1>1, Zenon DEF CacheInv, PathInv
    <2> QED BY <2>1, <2>2, Zenon
  <1> QED BY <1>2, <1>3, <1>4, <1>5, <1>6, Zenon DEF CacheInv

LEMMA WatcherTaskStep ==
  ASSUME TypeOK, CacheInv, WatcherStep \/ StreamEnds \/ WatcherEnds
  PROVE  TypeOK' /\ CacheInv' /\ KeepsName
  <1>0. KernelType /\ CacheType /\ MainType /\ WatcherType
    BY Types, Zenon
  <1>1. UNCHANGED <<alive, future, api, paths, mainVars>> /\ UNCHANGED <<mpc, discovered, moved>>
    BY Zenon DEF WatcherStep, StreamEnds, WatcherEnds, Client, WatchInit, InitDone, Apply, Delete,
           MergeWrite, refresh_k8s_pods, Reconnect, InitApply, WatcherOnly, kernelVars, mainVars
  <1>2. KernelType' /\ MainType'
    BY <1>0, <1>1, Zenon DEF KernelType, MainType
  <1> SUFFICES CacheType' /\ WatcherType' /\ CacheInv' /\ KeepsName
    BY <1>2, TypesNext, Zenon
  <1>e. IsMap(EmptyMap, Pod, Known) /\ IsMap(EmptyMap, Cgroup, Labels) /\ DOMAIN EmptyMap = {}
    BY EmptyIsMap, Zenon
  \* Outside a merge nothing is waiting to be written.
  <1>n. ASSUME ~Merging PROVE DOMAIN new_labels = {}
    BY <1>n, Zenon DEF CacheInv, MergeInv
  \* A step between two merges.
  <1>q. ASSUME ~Merging, UNCHANGED <<labels, new_labels>> PROVE CacheInv' /\ KeepsName
    <2>1. MergeInv'
      BY <1>q, <1>n, Zenon DEF MergeInv
    <2>2. PathInv' /\ LabelsFitPath' /\ StartInv' /\ KeepsName
      BY <1>q, <1>1, Zenon DEF CacheInv, PathInv, LabelsFitPath, StartInv, KeepsName
    <2> QED BY <2>1, <2>2, Zenon DEF CacheInv
  <1>3. CASE Client \/ WatcherEnds \/ Reconnect
    <2>1. ~Merging /\ UNCHANGED <<labels, pods, listed, stream, new_labels, drops>>
          /\ wpc' \in {"start", "ended"}
      BY <1>3, Zenon DEF Client, WatcherEnds, Reconnect, Merging
    <2> QED BY <2>1, <1>0, <1>1, <1>q, Zenon DEF CacheType, WatcherType
  <1>4. CASE WatchInit
    <2>1. ~Merging /\ UNCHANGED <<labels, pods, stream, new_labels, drops>> /\ wpc' = "list"
          /\ listed' = Restrict(api, Listed)
      BY <1>4, Zenon DEF WatchInit, Merging
    <2>2. IsMap(listed', Pod, Known)
      BY <2>1, <1>0, ListedMap, Zenon DEF KernelType
    <2> QED BY <2>1, <2>2, <1>0, <1>1, <1>q, Zenon DEF CacheType, WatcherType
  <1>5. CASE \E p \in Pod : InitApply(p)
    <2>1. PICK p \in Pod : InitApply(p)
      BY <1>5, Zenon
    <2>2. /\ ~Merging /\ UNCHANGED <<labels, wpc, stream, new_labels, drops>> /\ p \in DOMAIN listed
          /\ pods' = Insert(pods, One(p, listed[p])) /\ listed' = Remove(listed, {p})
      BY <2>1, Zenon DEF InitApply, Merging
    <2>3. listed[p] \in Known
      BY <2>2, <1>0, Zenon DEF WatcherType, IsMap
    <2>4. IsMap(One(p, listed[p]), Pod, Known)
      BY <2>3, OneMap, Zenon
    <2>5. IsMap(pods', Pod, Known) /\ IsMap(listed', Pod, Known)
      BY <2>2, <2>4, <1>0, InsertMap, RemoveMap, Zenon DEF CacheType, WatcherType
    <2> QED BY <2>2, <2>5, <1>0, <1>1, <1>q, Zenon DEF CacheType, WatcherType
  <1>6. CASE InitDone
    <2>1. /\ UNCHANGED <<labels, pods, listed, stream, drops>> /\ MergeRead(pods', "merge_watch")
      BY <1>6, Zenon DEF InitDone, MergeRead
    <2>2. IsMap(new_labels', Cgroup, Labels) /\ wpc' = "merge_watch" /\ CacheInv' /\ KeepsName
      BY <2>1, <1>1, ReadStep, Zenon
    <2> QED BY <2>1, <2>2, <1>0, <1>1, Zenon DEF CacheType, WatcherType
  <1>7. CASE Apply
    <2>1. /\ UNCHANGED <<labels, listed, drops>> /\ MergeRead(pods', "merge_watch")
          /\ stream # <<>> /\ stream' = Tail(stream)
          /\ Head(stream).type = "Apply"
          /\ pods' = Insert(pods, One(Head(stream).pod, Head(stream).info))
      BY <1>7, Zenon DEF Apply
    <2>2. Head(stream) \in Event /\ stream' \in Seq(Event)
      BY <2>1, <1>0 DEF WatcherType
    <2>3. Head(stream).pod \in Pod /\ Head(stream).info \in Known
      BY <2>1, <2>2, Zenon DEF Event
    <2>4. IsMap(One(Head(stream).pod, Head(stream).info), Pod, Known)
      BY <2>3, OneMap, Zenon
    <2>5. IsMap(pods', Pod, Known)
      BY <2>1, <2>4, <1>0, InsertMap, Zenon DEF CacheType
    <2>6. IsMap(new_labels', Cgroup, Labels) /\ wpc' = "merge_watch" /\ CacheInv' /\ KeepsName
      BY <2>1, <1>1, ReadStep, Zenon
    <2> QED BY <2>1, <2>2, <2>5, <2>6, <1>0, <1>1, Zenon DEF CacheType, WatcherType
  <1>8. CASE Delete
    <2>1. /\ ~Merging /\ UNCHANGED <<labels, wpc, listed, new_labels, drops>>
          /\ stream # <<>> /\ stream' = Tail(stream) /\ pods' = Remove(pods, {Head(stream).pod})
      BY <1>8, Zenon DEF Delete, Merging
    <2>2. stream' \in Seq(Event)
      BY <2>1, <1>0 DEF WatcherType
    <2>3. IsMap(pods', Pod, Known)
      BY <2>1, <1>0, RemoveMap, Zenon DEF CacheType
    <2> QED BY <2>1, <2>2, <2>3, <1>0, <1>1, <1>q, Zenon DEF CacheType, WatcherType
  <1>9. CASE MergeWrite
    <2>1. /\ new_labels' = EmptyMap /\ wpc' \in {"watch", "sleep"} /\ UNCHANGED <<listed, stream, drops>>
      BY <1>9, Zenon DEF MergeWrite
    <2>2. WatcherType'
      BY <2>1, <1>0, <1>e, Zenon DEF WatcherType
    <2> QED BY <2>2, <1>9, WriteStep, Zenon
  <1>10. CASE refresh_k8s_pods
    <2>1. ~Merging /\ UNCHANGED <<labels, listed, stream, drops>>
      BY <1>10, Zenon DEF refresh_k8s_pods, Merging
    <2>2. CASE pods' = Insert(pods, Restrict(api, Listed)) /\ MergeRead(pods', "merge_sleep")
      <3>1. IsMap(pods', Pod, Known)
        BY <2>2, <1>0, ListedMap, InsertMap, Zenon DEF CacheType, KernelType
      <3>2. IsMap(new_labels', Cgroup, Labels) /\ wpc' = "merge_sleep" /\ CacheInv' /\ KeepsName
        BY <2>1, <2>2, <1>1, ReadStep, Zenon
      <3> QED BY <2>1, <3>1, <3>2, <1>0, <1>1, Zenon DEF CacheType, WatcherType
    <2>3. CASE wpc' = "sleep" /\ UNCHANGED <<pods, new_labels>>
      BY <2>1, <2>3, <1>0, <1>1, <1>q, Zenon DEF CacheType, WatcherType
    <2> QED BY <1>10, <2>2, <2>3, Zenon DEF refresh_k8s_pods
  <1>11. CASE StreamEnds
    <2>1. /\ ~Merging /\ UNCHANGED <<labels, pods, new_labels>> /\ wpc' = "refresh"
          /\ listed' = EmptyMap /\ stream' = <<>> /\ drops' = drops + 1 /\ drops < MaxDrops
      BY <1>11, Zenon DEF StreamEnds, Merging
    <2>2. drops' \in 0..MaxDrops
      BY <2>1, <1>0, AttributionAssumption DEF WatcherType
    <2>3. WatcherType'
      BY <2>1, <2>2, <1>0, <1>e DEF WatcherType
    <2> QED BY <2>1, <2>3, <1>0, <1>1, <1>q, Zenon DEF CacheType
  <1> QED BY <1>3, <1>4, <1>5, <1>6, <1>7, <1>8, <1>9, <1>10, <1>11, Zenon DEF WatcherStep
-----------------------------------------------------------------------------
(* Theorems. *)

LEMMA AttributionInit == Init => TypeOK /\ CacheInv
  <1> SUFFICES ASSUME Init PROVE TypeOK /\ CacheInv
    BY Zenon
  <1>1. /\ DOMAIN EmptyMap = {} /\ IsMap(EmptyMap, Cgroup, Path) /\ IsMap(EmptyMap, Cgroup, Labels)
        /\ IsMap(EmptyMap, Pod, Known)
    BY EmptyIsMap, Zenon
  <1>2. KernelType /\ CacheType
    <2>1. KernelType
      BY Zenon DEF Init, KernelType, Known
    <2>2. CacheType
      BY <1>1, Zenon DEF Init, CacheType
    <2> QED BY <2>1, <2>2, Zenon
  <1>3. MainType
    BY AttributionAssumption DEF Init, MainType
  <1>4. WatcherType
    BY <1>1, AttributionAssumption DEF Init, WatcherType
  <1>5. CacheInv
    BY <1>1, Zenon DEF Init, CacheInv, PathInv, LabelsFitPath, MergeInv, StartInv
  <1> QED BY <1>2, <1>3, <1>4, <1>5, Types, Zenon

LEMMA AttributionStep ==
  TypeOK /\ CacheInv /\ [Next]_vars => TypeOK' /\ CacheInv' /\ KeepsName
  <1> SUFFICES ASSUME TypeOK, CacheInv, [Next]_vars PROVE TypeOK' /\ CacheInv' /\ KeepsName
    BY Zenon
  <1>1. CASE UNCHANGED vars
    <2>1. /\ UNCHANGED <<alive, future, api, paths, labels, pods, mainVars, wpc, new_labels>>
          /\ UNCHANGED <<mpc, discovered, moved, listed, stream, drops>>
      BY <1>1, Zenon DEF vars, kernelVars, mainVars, watcherVars
    <2>2. CacheInv' /\ KeepsName
      BY <2>1, CacheKept, Zenon
    <2>3. TypeOK'
      BY <2>1, Zenon DEF TypeOK, Exists
    <2> QED BY <2>2, <2>3, Zenon
  <1>2. CASE \/ \E c \in Cgroup : CgroupStarts(c) \/ CgroupEnds(c)
             \/ \E p \in Pod : PodChanges(p)
    BY <1>2, EnvStep, Zenon
  <1>3. CASE MainStep \/ \E c \in Cgroup : on_identity_event(c)
    BY <1>3, MainTaskStep, Zenon
  <1>4. CASE WatcherStep \/ StreamEnds \/ WatcherEnds
    BY <1>4, WatcherTaskStep, Zenon
  <1> QED BY <1>1, <1>2, <1>3, <1>4, Zenon DEF Next

LEMMA AttributionInductive == Spec => [](TypeOK /\ CacheInv)
  <1>1. TypeOK /\ CacheInv /\ [Next]_vars => (TypeOK /\ CacheInv)'
    BY AttributionStep, Zenon
  <1> QED BY AttributionInit, <1>1, PTL DEF Spec

\* The node, the cache, the main task and the watcher task keep their types.
THEOREM AttributionTypeCorrect == Spec => []TypeOK
  BY AttributionInductive, PTL

\* A merge that lost the race with evictions and registrations still writes labels of
\* the directory its cgroup is sampled from (merge_cgroup_labels_from_k8s between its
\* read lock and its write lock, on_identity_event, evict_stale_cgroups).
THEOREM LabelsAlwaysFit == Spec => []LabelsFitPath
  <1>1. CacheInv => LabelsFitPath
    BY Zenon DEF CacheInv
  <1> QED BY AttributionInductive, <1>1, PTL

\* No step of either task takes a pod's name from a sampled cgroup as long as the
\* watcher knows the pod, also when processes moved.
THEOREM NamesStay == Spec => NoUnresolve
  <1>1. TypeOK /\ CacheInv /\ [Next]_vars => [KeepsName]_vars
    BY AttributionStep, Zenon
  <1>2. NoUnresolve <=> [][KeepsName]_vars
    BY PTL DEF NoUnresolve, KeepsName
  <1> QED BY AttributionInductive, <1>1, <1>2, PTL DEF Spec
==============================================================================
