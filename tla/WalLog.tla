------------------------------- MODULE WalLog -------------------------------
(***************************************************************************)
(* What the disk WAL promises (abstract specification of WalStore): one    *)
(* log of entries, written at the back and read in order.  What has been   *)
(* replayed may be deleted; the oldest entries are lost only when the log  *)
(* is full; a crash loses only the newest ones, and forgets what was       *)
(* replayed, so that batches already read are read again.                  *)
(***************************************************************************)
CONSTANTS Batch, NoBatch,
          Before(_, _),  \* the order in which entries were written
          BatchOf(_)     \* the batch an entry holds

VARIABLES log,       \* the entries on disk
          replayed,  \* those of them that have been replayed
          out,       \* the batch being handed to the retry queue, or NoBatch
          full       \* is the log over its hard cap?  (An input.)

logVars == <<log, replayed, out>>

Oldest(e, S) == e \in S /\ \A x \in S \ {e} : Before(e, x)

\* Every entry of E was written before every entry of F.
AllBefore(E, F) == \A e \in E, f \in F : Before(e, f)

LogInit == log = {} /\ replayed = {} /\ out = NoBatch

Write(e) ==
  /\ BatchOf(e) \in Batch /\ AllBefore(log, {e})
  /\ log' = log \cup {e} /\ UNCHANGED <<replayed, out>>

\* The next batch to replay is always the oldest one that was not replayed.
Offer(e) ==
  /\ Oldest(e, log \ replayed) /\ out = NoBatch /\ out' = BatchOf(e)
  /\ UNCHANGED <<log, replayed>>

Offered == out # NoBatch /\ out' = NoBatch /\ UNCHANGED <<log, replayed>>

Replayed(e) ==
  /\ Oldest(e, log \ replayed) /\ replayed' = replayed \cup {e}
  /\ UNCHANGED <<log, out>>

DropPrefix(E) ==
  /\ AllBefore(E, log \ E)
  /\ log' = log \ E /\ replayed' = replayed \ E /\ UNCHANGED out

\* Replayed batches are deleted.
Trim(E) == E \subseteq replayed /\ DropPrefix(E)

\* Drop-oldest at the hard cap.
DropOldest(E) == full /\ DropPrefix(E)

Restart(E) ==
  /\ AllBefore(log \ E, E)
  /\ log' = log \ E /\ replayed' = {} /\ out' = NoBatch

LogNext ==
  \/ \E e \in log' : Write(e)
  \/ \E e \in log : Offer(e) \/ Replayed(e)
  \/ Offered
  \/ \E E \in SUBSET log : Trim(E) \/ DropOldest(E) \/ Restart(E)

LogSpec == LogInit /\ [][LogNext]_logVars
=============================================================================
