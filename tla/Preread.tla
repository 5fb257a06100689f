------------------------------ MODULE Preread -------------------------------
(***************************************************************************)
(* The admin's batches of cold reads, handlers/admin-preread.js: a rate    *)
(* limit, a cap that drops the oldest prereads, a pool of a few reads at   *)
(* once per batch, and the status the page polls.                          *)
(*                                                                         *)
(* Sessions are numbered in the order they were created. Prereads have no  *)
(* row in Postgres (only session-start.js writes one), so the branch of    *)
(* the status handler that reads one never answers.                        *)
(***************************************************************************)
EXTENDS Naturals, Sequences, FiniteSets, FiniteSetsExt, SequencesExt

CONSTANTS
  MemoryCap,    \* the 100 of enforcePrereadMemoryGuard
  MaxUrls,      \* the 20 a batch may have
  MaxConcurrent, RateMax, RateWindow, BatchTtl,
  LastTick, MaxBatches, MaxRestarts  \* bounds

ASSUME PrereadAssumption ==
  /\ {MemoryCap, MaxUrls, MaxConcurrent, RateMax, RateWindow, BatchTtl} \subseteq Nat \ {0}

VARIABLES
  now,
  stamps,    \* timestamps of rateLimitMap
  session,   \* session[i]: infer_status of the i-th preread, "gone" if dropped
  batches,   \* [ids, at]: the batches the process remembers
  waiting,   \* per batch: tasks not begun
  executing, \* per batch: tasks begun
  orphaned,  \* history: sessions whose work a restart ended
  submitted, restarts

prereadVars == <<now, stamps, session, batches, waiting, executing, orphaned, submitted, restarts>>

PrereadInit ==
  /\ now = 0 /\ stamps = << >> /\ session = << >>
  /\ batches = {} /\ waiting = << >> /\ executing = << >>
  /\ orphaned = {} /\ submitted = 0 /\ restarts = 0

-----------------------------------------------------------------------------

Kept(of) == {i \in DOMAIN of : of[i] # "gone"}

(* Mutant: the guard lets one more stay. *)
GuardAboveCap ==
  LET drop == IF Cardinality(Kept(session)) > MemoryCap
              THEN Cardinality(Kept(session)) - MemoryCap ELSE 0
      Older(i) == Cardinality({j \in Kept(session) : j < i})
  IN  [i \in DOMAIN session |-> IF Older(i) < drop THEN "gone" ELSE session[i]]

(* At the cap, the oldest go until one place is free, read or not.         *)
MemoryGuard ==
  LET drop == IF Cardinality(Kept(session)) >= MemoryCap
              THEN Cardinality(Kept(session)) - (MemoryCap - 1) ELSE 0
      Older(i) == Cardinality({j \in Kept(session) : j < i})
  IN  [i \in DOMAIN session |-> IF Older(i) < drop THEN "gone" ELSE session[i]]

InWindow == SelectSeq(stamps, LAMBDA time : time + RateWindow > now)
Remembered == {b \in batches : now - b.at <= BatchTtl}

(* 429: the stamps outside the window are pruned all the same.             *)
RateLimited ==
  /\ Len(InWindow) >= RateMax
  /\ stamps' = InWindow
  /\ UNCHANGED <<now, session, batches, waiting, executing, orphaned, submitted, restarts>>

(* 400, for no URL or too many: the attempt is counted before it is read.  *)
BadBatch ==
  /\ Len(InWindow) < RateMax
  /\ stamps' = Append(InWindow, now)
  /\ UNCHANGED <<now, session, batches, waiting, executing, orphaned, submitted, restarts>>

Begin(queue, running) ==
  LET n == IF Len(queue) < MaxConcurrent - Cardinality(running)
           THEN Len(queue) ELSE MaxConcurrent - Cardinality(running)
  IN  [queue |-> SubSeq(queue, n + 1, Len(queue)),
       running |-> running \cup ToSet(SubSeq(queue, 1, n))]

Submit(n) ==
  LET ids == [k \in 1..n |-> Len(session) + k]
      pool == Begin(ids, {})
  IN  /\ submitted < MaxBatches
      /\ Len(InWindow) < RateMax
      /\ n \in 1..MaxUrls
      /\ stamps' = Append(InWindow, now)
      /\ session' = MemoryGuard \o [k \in 1..n |-> "processing"]
      /\ batches' = Remembered \cup {[ids |-> ids, at |-> now]}
      /\ waiting' = Append(waiting, pool.queue)
      /\ executing' = Append(executing, pool.running)
      /\ submitted' = submitted + 1
      /\ UNCHANGED <<now, orphaned, restarts>>

(* Mutant: a read whose session is gone keeps its place in the pool. *)
FinishIfKept(b, i, outcome) ==
  LET pool == Begin(waiting[b], executing[b] \ {i})
  IN  /\ i \in executing[b] /\ session[i] # "gone"
      /\ session' = [session EXCEPT ![i] = outcome]
      /\ waiting' = [waiting EXCEPT ![b] = pool.queue]
      /\ executing' = [executing EXCEPT ![b] = pool.running]
      /\ UNCHANGED <<now, stamps, batches, orphaned, submitted, restarts>>

(* triggerColdRead ends: updateSession writes only to a session that is    *)
(* still there, the place is freed, the next task begins.                  *)
Finish(b, i, outcome) ==
  LET pool == Begin(waiting[b], executing[b] \ {i})
  IN  /\ i \in executing[b]
      /\ session' = [session EXCEPT ![i] = IF @ = "gone" THEN @ ELSE outcome]
      /\ waiting' = [waiting EXCEPT ![b] = pool.queue]
      /\ executing' = [executing EXCEPT ![b] = pool.running]
      /\ UNCHANGED <<now, stamps, batches, orphaned, submitted, restarts>>

(* The status handler: it forgets batches past their hour, and answers     *)
(* 404, or of each read what its session says; a dropped one has failed.   *)
Status(i) ==
  CASE session[i] = "complete" -> "complete"
    [] session[i] \in {"failed", "gone"} -> "failed"
    [] session[i] = "processing" -> "running"

Poll ==
  /\ batches' = Remembered
  /\ UNCHANGED <<now, stamps, session, waiting, executing, orphaned, submitted, restarts>>

Tick ==
  /\ now < LastTick
  /\ now' = now + 1
  /\ UNCHANGED <<stamps, session, batches, waiting, executing, orphaned, submitted, restarts>>

(* Batches, stamps and work are in memory; session files are not, and the  *)
(* reaper of session-store.js fails those still processing.                *)
PrereadRestart ==
  /\ restarts < MaxRestarts
  /\ restarts' = restarts + 1
  /\ session' = [i \in DOMAIN session |-> IF session[i] = "processing" THEN "failed" ELSE session[i]]
  /\ orphaned' = orphaned \cup {i \in DOMAIN session : session[i] = "processing"}
  /\ batches' = {} /\ stamps' = << >>
  /\ waiting' = [b \in DOMAIN waiting |-> << >>]
  /\ executing' = [b \in DOMAIN executing |-> {}]
  /\ UNCHANGED <<now, submitted>>

PrereadNext ==
  \/ RateLimited \/ BadBatch \/ Poll \/ Tick \/ PrereadRestart
  \/ \E n \in 1..MaxUrls : Submit(n)
  \/ \E b \in DOMAIN executing : \E i \in executing[b], o \in {"complete", "failed"} : Finish(b, i, o)

PrereadSpec == PrereadInit /\ [][PrereadNext]_prereadVars

(* Every provider a read waits for has a timeout: a read that runs ends.   *)
ReadsEnd ==
  \A b \in 1..MaxBatches :
    WF_prereadVars(b \in DOMAIN executing
                   /\ \E i \in executing[b], o \in {"complete", "failed"} : Finish(b, i, o))

-----------------------------------------------------------------------------

(* However batches overlap, a read that is queued is told complete or      *)
(* failed in the end: a read whose session the cap dropped gives its place *)
(* back, and no batch waits for another (runWithConcurrency).              *)
EveryReadSettles ==
  \A i \in 1..(MaxBatches * MaxUrls) :
    i \in DOMAIN session ~> (i \in DOMAIN session /\ Status(i) # "running")

(* Prereads never outnumber the cap by more than a batch, less the place   *)
(* the guard frees, and of them the newest are kept; what a read says is   *)
(* final, unless the cap drops it: the process that failed it at boot      *)
(* holds no work that could complete it.                                   *)
OnlyOldPrereadsGo ==
  /\ Cardinality(Kept(session)) <= MemoryCap - 1 + MaxUrls
  /\ \A i, j \in DOMAIN session : i < j /\ session[j] = "gone" => session[i] = "gone"
  /\ \A i \in orphaned : session[i] \in {"failed", "gone"}
=============================================================================
