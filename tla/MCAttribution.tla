---------------------------- MODULE MCAttribution ----------------------------
(* Attribution on a small instance. *)
EXTENDS Attribution, TLC

CONSTANTS app, svc, svc2, appDir, svcDir, p1

\* A container of a pod, and a system service that may start again in its directory,
\* the second time with the memory controller.
Directories == app :> appDir @@ svc :> svcDir @@ svc2 :> svcDir
PodDirs == appDir :> p1 @@ svcDir :> None
\* The container alone.
OneDirectory == app :> appDir
OnePod == appDir :> p1
\* The second life of the service follows the first; only CgroupStarts is about that.
InOrder == svc \in future => svc2 \in future
OrderedInit == Init /\ InOrder
OrderedNext ==
  \/ MainStep \/ WatcherStep \/ StreamEnds \/ WatcherEnds
  \/ \E c \in Cgroup : (CgroupStarts(c) /\ InOrder') \/ CgroupEnds(c) \/ on_identity_event(c)
  \/ \E p \in Pod : PodChanges(p)
OrderedSpec ==
  /\ OrderedInit /\ [][OrderedNext]_vars /\ WF_vars(MainStep) /\ WF_vars(WatcherStep)
==============================================================================
