---------------------------- MODULE SessionStore ----------------------------
(***************************************************************************)
(* One cold-read session in services/session-store.js: an object in a Map  *)
(* (the cache) over a file, written through by coalesced, overlapping      *)
(* asynchronous writes, evicted when idle, hydrated on return, reaped when *)
(* the process boots; and the handlers that mutate it, the chat turn of    *)
(* handlers/session-chat.js keeping its object across two awaits.          *)
(*                                                                         *)
(* Objects and inodes are named, because the hazards are about identity: a *)
(* handler may mutate an object the Map no longer holds, and two writes    *)
(* share one temporary path. What a session says is abstracted to the      *)
(* turns it records, infer_status, and whether last_active_at is within    *)
(* CACHE_TTL_MS. getSession hydrates inside the handler that misses; that  *)
(* is the Hydrate a poll of the same session does, so it is one action.    *)
(***************************************************************************)
EXTENDS Naturals, FiniteSets

CONSTANTS
  Turn,        \* the founder's requests that change the session
  Obj,         \* session objects alive at once
  Writer,      \* bound: writeSessionFile calls in flight at once
  Inode,       \* files on disk, under the session's path or its .tmp
  Torn,        \* a file truncated or half written
  Nil,
  MaxRestarts  \* bound: times the process is replaced

Status == {"processing", "complete", "failed"}

(* said: the message of each turn, and what ended it.                      *)
Content == [infer : Status, recent : BOOLEAN,
            said : SUBSET (Turn \X {"asked", "answered"})]

ASSUME SessionAssumption ==
  /\ Nil \notin Obj \cup Inode \cup Writer
  /\ Torn \notin Content
  /\ MaxRestarts \in Nat

VARIABLES
  phase,     \* "up", then SIGTERM's "flushing", "settling", "closing"; or down
  cache,     \* the object sessions.get(id) holds, or Nil
  heap,      \* heap[o]: what object o says
  dirty,     \* id is in the dirty set and the flush timer is armed
  write,     \* write[w]: a writeSessionFile call and how far it is
  inode,     \* inode[i]: a file's content
  tmp, file, \* what the temporary path and the session's path name
  turn,      \* turn[t]: where request t is and the object it holds
  worker,    \* extractAndInfer: "unborn", "running", "gone"
  awaiting,  \* writes flushSessionsNow is waiting for
  ended,     \* history: turns that ended in persistSession, surviving or new
  stopped,   \* history: ended when SIGTERM came
  upset,     \* history: the first mishap write-through is not proof against
  restarts

vars == <<phase, cache, heap, dirty, write, inode, tmp, file, turn, worker,
          awaiting, ended, stopped, upset, restarts>>

memory == <<cache, heap, dirty, turn, ended>>
disk == <<write, inode, tmp, file>>
process == <<phase, awaiting, stopped, restarts>>

NoWrite == [pc |-> "idle", obj |-> Nil, inode |-> Nil, data |-> Nil]
Blank == [infer |-> "processing", recent |-> TRUE, said |-> {}]

Init ==
  /\ phase = "up" /\ cache = Nil /\ dirty = FALSE
  /\ heap = [o \in Obj |-> Blank]
  /\ write = [w \in Writer |-> NoWrite]
  /\ inode = [i \in Inode |-> Torn]
  /\ tmp = Nil /\ file = Nil
  /\ turn = [t \in Turn |-> [pc |-> "new", obj |-> Nil]]
  /\ worker = "unborn"
  /\ awaiting = {} /\ ended = {} /\ stopped = {} /\ upset = "none"
  /\ restarts = 0

-----------------------------------------------------------------------------

Running == phase \in {"up", "flushing", "settling", "closing"}
Serving == phase \in {"up", "flushing", "settling"}

Open == {t \in Turn : turn[t].pc \in {"waiting", "replying"}}
InFlight == {w \in Writer : write[w].pc # "idle"}

Mishap(what) == upset' = IF upset = "none" THEN what ELSE upset

FreeObj(o) ==
  /\ o # cache
  /\ \A t \in Open : turn[t].obj # o
  /\ \A w \in InFlight : write[w].obj # o

(* The file is there and parses. *)
Readable == IF file = Nil THEN FALSE ELSE inode[file] # Torn

Answered(c) == {t \in Turn : <<t, "answered">> \in c.said}

FileTurns == IF Readable THEN Answered(inode[file]) ELSE {}

FreeInode(i) == i \notin {tmp, file} /\ \A w \in InFlight : write[w].inode # i

(* persistSession, in a step that leaves an object in the cache. *)
Persist == dirty' = TRUE

(* createSession, then extractAndInfer in the background. *)
Create(o) ==
  /\ Serving /\ worker = "unborn" /\ FreeObj(o)
  /\ cache' = o
  /\ heap' = [heap EXCEPT ![o] = Blank]
  /\ Persist
  /\ worker' = "running"
  /\ UNCHANGED <<disk, process, turn, ended, upset>>

HydratedAsIs(c) == c            \* mutant: a dead pipeline stays processing

Hydrated(c) ==
  [c EXCEPT !.infer = IF c.infer = "processing" THEN "failed" ELSE c.infer]

(* hydrateSession: a pipeline found mid-flight died with its process. *)
Hydrate(o) ==
  /\ Running /\ cache = Nil /\ FreeObj(o)
  /\ Readable
  /\ cache' = o
  /\ heap' = [heap EXCEPT ![o] = Hydrated(inode[file])]
  /\ Persist
  /\ UNCHANGED <<disk, process, turn, ended, worker, upset>>

(* A request that mutates and persists without yielding: updateSession     *)
(* refreshes last_active_at, a pushed telegram message does not.           *)
Touch(t, refresh) ==
  /\ Serving /\ cache # Nil /\ turn[t].pc = "new"
  /\ heap' = [heap EXCEPT ![cache].said = @ \cup {<<t, "answered">>},
                          ![cache].recent = @ \/ refresh]
  /\ Persist
  /\ turn' = [turn EXCEPT ![t].pc = "ended"]
  /\ ended' = ended \cup {t}
  /\ UNCHANGED <<cache, disk, process, worker, upset>>

(* sessionChatHandler, up to the await of retrieveCorpusEvidence: getSession *)
(* gives the object, the message and ceremony are written on it directly.  *)
(* Where no score is there yet the handler first awaits runGapAnalysis     *)
(* with the object in hand; that wait is left out, and the hazard with it  *)
(* is the next await's: an eviction leaves the object behind.              *)
BeginTurn(t) ==
  /\ Serving /\ cache # Nil /\ turn[t].pc = "new"
  /\ heap[cache].infer = "complete"
  /\ turn' = [turn EXCEPT ![t] = [pc |-> "waiting", obj |-> cache]]
  /\ heap' = [heap EXCEPT ![cache].said = @ \cup {<<t, "asked">>}]
  /\ UNCHANGED <<cache, dirty, ended, disk, process, worker, upset>>

(* appendChatReceipt: updateSession on the session the Map holds by now    *)
(* (none, where it can neither be found nor hydrated), then the stream.    *)
Receipt(t) ==
  /\ Running /\ turn[t].pc = "waiting"
  /\ \/ /\ cache # Nil
        /\ heap' = [heap EXCEPT ![cache].recent = TRUE]
        /\ Persist
     \/ /\ cache = Nil /\ ~Readable
        /\ UNCHANGED <<heap, dirty>>
  /\ turn' = [turn EXCEPT ![t].pc = "replying"]
  /\ UNCHANGED <<cache, ended, disk, process, worker, upset>>

(* Mutant: the reply is left for somebody else's persist to write. *)
EndTurnUnpersisted(t) ==
  /\ Running /\ turn[t].pc = "replying"
  /\ heap' = [heap EXCEPT ![turn[t].obj].said = @ \cup {<<t, "answered">>}]
  /\ turn' = [turn EXCEPT ![t] = [pc |-> "ended", obj |-> Nil]]
  /\ ended' = ended \cup {t}
  /\ UNCHANGED <<cache, dirty, disk, process, worker, upset>>

(* The stream ended: the reply goes on the held object, persistSession on  *)
(* the id.                                                                 *)
EndTurn(t) ==
  /\ Running /\ turn[t].pc = "replying"
  /\ heap' = [heap EXCEPT ![turn[t].obj].said = @ \cup {<<t, "answered">>}]
  /\ dirty' = (dirty \/ cache # Nil)
  /\ turn' = [turn EXCEPT ![t] = [pc |-> "ended", obj |-> Nil]]
  /\ ended' = ended \cup {t}
  /\ UNCHANGED <<cache, disk, process, worker, upset>>

(* extractAndInfer ends: updateSession with the outcome, even where the    *)
(* watchdog failed the pipeline meanwhile.                                 *)
WorkerEnds(outcome) ==
  /\ Running /\ worker = "running" /\ cache # Nil
  /\ heap' = [heap EXCEPT ![cache].infer = outcome, ![cache].recent = TRUE]
  /\ Persist
  /\ worker' = "gone"
  /\ UNCHANGED <<cache, turn, ended, disk, process, upset>>

-----------------------------------------------------------------------------
(* Write-through.                                                          *)

StartWrite(w) ==
  write' = [write EXCEPT ![w] =
              [pc |-> "mkdir", obj |-> cache, inode |-> Nil, data |-> Nil]]

(* flushDirty, by the timer: a session no longer cached is skipped. *)
Flush(w) ==
  /\ Running /\ dirty /\ write[w].pc = "idle"
  /\ dirty' = FALSE
  /\ IF cache = Nil THEN UNCHANGED write ELSE StartWrite(w)
  /\ UNCHANGED <<cache, heap, turn, ended, inode, tmp, file, process, worker,
                 upset>>

(* writeSessionFile after its mkdir: the object is serialised now, and the *)
(* temporary file, which all writes of this process share, is truncated.   *)
OpenTmp(w) ==
  /\ write[w].pc = "mkdir"
  /\ \E i \in Inode :
       /\ IF tmp = Nil THEN FreeInode(i) ELSE i = tmp
       /\ tmp' = i
       /\ inode' = [inode EXCEPT ![i] = Torn]
       /\ write' = [write EXCEPT ![w] = [pc |-> "fill", obj |-> Nil, inode |-> i,
                                        data |-> heap[write[w].obj]]]
  /\ IF \E v \in Writer : write[v].pc \in {"fill", "rename"}
       THEN Mishap("writes overlapped") ELSE UNCHANGED upset
  /\ UNCHANGED <<memory, file, process, worker>>

(* Bytes reach the inode. Over another write's bytes the longer one's tail *)
(* may remain.                                                             *)
Fill(w) ==
  /\ write[w].pc = "fill"
  /\ LET i == write[w].inode IN
       \E c \in {write[w].data} \cup (IF inode[i] = Torn THEN {} ELSE {Torn}) :
         inode' = [inode EXCEPT ![i] = c]
  /\ write' = [write EXCEPT ![w].pc = "rename"]
  /\ UNCHANGED <<memory, tmp, file, process, worker, upset>>

(* rename(tmp, path): whatever the temporary path names now; ENOENT, which *)
(* is caught and logged, if another write has renamed it already.          *)
Rename(w) ==
  /\ write[w].pc = "rename"
  /\ file' = IF tmp = Nil THEN file ELSE tmp
  /\ tmp' = Nil
  /\ inode' = [i \in Inode |->                  \* a replaced file is gone
                IF i = file /\ tmp # Nil THEN Torn ELSE inode[i]]
  /\ write' = [write EXCEPT ![w] = NoWrite]
  /\ awaiting' = awaiting \ {w}
  /\ UNCHANGED <<memory, phase, stopped, restarts, worker, upset>>

(* session_persist_failed: caught and logged; nothing marks it dirty again. *)
WriteFails(w) ==
  /\ write[w].pc \in {"mkdir", "fill"}
  /\ write' = [write EXCEPT ![w] = NoWrite]
  /\ awaiting' = awaiting \ {w}
  /\ Mishap("write failed")
  /\ UNCHANGED <<memory, inode, tmp, file, phase, stopped, restarts, worker>>

-----------------------------------------------------------------------------
(* checkStaleSessions, every 30 seconds until onClose clears the interval: *)
(* fail a pipeline older than STALE_TIMEOUT_MS, then evict an idle session, *)
(* writing it first if dirty.                                              *)

CacheInUse ==
  dirty \/ InFlight # {} \/ \E t \in Open : turn[t].obj = cache

Sweep ==
  /\ Serving /\ cache # Nil
  /\ \E timedOut \in BOOLEAN :
       LET old == heap[cache]
           c == [old EXCEPT !.infer = IF timedOut THEN "failed" ELSE old.infer]
       IN  /\ timedOut => old.infer = "processing"
           /\ ~old.recent /\ old.infer = "processing" => timedOut
           /\ timedOut \/ ~old.recent
           /\ heap' = [heap EXCEPT ![cache] = c]
           /\ IF old.recent
                THEN dirty' = TRUE /\ UNCHANGED <<cache, write, upset>>
                ELSE /\ cache' = Nil
                     /\ dirty' = FALSE
                     /\ IF dirty \/ timedOut
                          THEN \E w \in Writer \ InFlight : StartWrite(w)
                          ELSE UNCHANGED write
                     /\ IF CacheInUse THEN Mishap("evicted in use")
                                      ELSE UNCHANGED upset
  /\ UNCHANGED <<turn, ended, inode, tmp, file, process, worker>>

(* Twenty-four hours pass in which nothing touches the session. *)
DayPasses ==
  /\ ~dirty /\ Open = {} /\ InFlight = {} /\ worker # "running"
  /\ phase \in {"up", "exited", "crashed"}
  /\ heap' = [o \in Obj |-> [heap[o] EXCEPT !.recent = FALSE]]
  /\ inode' = [i \in Inode |-> IF inode[i] = Torn THEN Torn
                                ELSE [inode[i] EXCEPT !.recent = FALSE]]
  /\ UNCHANGED <<cache, dirty, turn, ended, write, tmp, file, process, worker,
                 upset>>

-----------------------------------------------------------------------------
(* The process is replaced.                                                *)

(* SIGTERM: flushSessionsNow takes the dirty set... *)
Terminate(w) ==
  /\ phase = "up" /\ write[w].pc = "idle" /\ restarts < MaxRestarts
  /\ phase' = "flushing"
  /\ stopped' = ended
  /\ dirty' = FALSE
  /\ IF dirty /\ cache # Nil
       THEN StartWrite(w) /\ awaiting' = {w}
       ELSE UNCHANGED write /\ awaiting' = {}
  /\ UNCHANGED <<cache, heap, turn, ended, inode, tmp, file, restarts, worker,
                 upset>>

(* Mutant: the older writes are not waited for. *)
SettleNothing ==
  /\ phase = "flushing" /\ awaiting = {}
  /\ phase' = "settling"
  /\ UNCHANGED <<memory, disk, awaiting, stopped, restarts, worker, upset>>

(* ...awaits that batch, then every write begun until now... *)
Settle ==
  /\ phase = "flushing" /\ awaiting = {}
  /\ phase' = "settling"
  /\ awaiting' = InFlight
  /\ UNCHANGED <<memory, disk, stopped, restarts, worker, upset>>

(* ...and only then app.close() stops new requests... *)
Close ==
  /\ phase = "settling" /\ awaiting = {}
  /\ phase' = "closing"
  /\ UNCHANGED <<memory, disk, awaiting, stopped, restarts, worker, upset>>

Die(as) ==
  /\ restarts < MaxRestarts
  /\ restarts' = restarts + 1
  /\ phase' = as
  /\ cache' = Nil /\ dirty' = FALSE /\ tmp' = Nil /\ awaiting' = {}
  /\ heap' = [o \in Obj |-> Blank]
  /\ write' = [w \in Writer |-> NoWrite]
  /\ turn' = [t \in Turn |->
                IF t \in Open THEN [pc |-> "new", obj |-> Nil] ELSE turn[t]]
  /\ worker' = IF worker = "running" THEN "gone" ELSE worker
  /\ inode' = [i \in Inode |-> IF i = file THEN inode[i] ELSE Torn]
  /\ UNCHANGED <<file, upset, ended, stopped>>

(* ...drains the open ones, and the process exits. *)
Exit == phase = "closing" /\ Open = {} /\ Die("exited")

(* SIGKILL after kill_timeout, or a crash. *)
Crash == Running /\ Die("crashed")

(* reapOrphanedSessions, before listen: written in place, not by rename. *)
Reaped(c) ==
  [c EXCEPT !.infer = IF c.infer = "processing" THEN "failed" ELSE c.infer]

Boot ==
  /\ phase \in {"exited", "crashed"}
  /\ phase' = "up"
  /\ LET orphaned == Readable /\ inode[file].infer = "processing" IN
       \/ /\ orphaned
          /\ inode' = [inode EXCEPT ![file] = Reaped(@)]
          /\ UNCHANGED upset
       \/ UNCHANGED <<inode, upset>>      \* nothing to reap, or the write failed
       \/ /\ orphaned                    \* it failed after truncating the file
          /\ inode' = [inode EXCEPT ![file] = Torn]
          /\ Mishap("reap failed")
  /\ stopped' = {}
  /\ ended' = ended \cap FileTurns
  /\ UNCHANGED <<cache, heap, dirty, turn, write, tmp, file, worker, awaiting,
                 restarts>>

Request(t) == \/ \E refresh \in BOOLEAN : Touch(t, refresh)
              \/ BeginTurn(t) \/ Receipt(t) \/ EndTurn(t)

Writing(w) == Flush(w) \/ OpenTmp(w) \/ Fill(w) \/ Rename(w) \/ WriteFails(w)

Next ==
  \/ \E o \in Obj : Create(o) \/ Hydrate(o)
  \/ \E t \in Turn : Request(t)
  \/ \E outcome \in {"complete", "failed"} : WorkerEnds(outcome)
  \/ \E w \in Writer : Writing(w) \/ Terminate(w)
  \/ Sweep \/ DayPasses
  \/ Settle \/ Close \/ Exit \/ Crash \/ Boot

Spec == Init /\ [][Next]_vars

-----------------------------------------------------------------------------
(* Properties.                                                             *)

(* The Map is a cache over the file: a turn that ended is in the cached    *)
(* object or, where the session is not cached, in the file it would be     *)
(* hydrated from; eviction, return and coalesced writes lose nothing, as   *)
(* long as nothing was evicted in use and no write failed or overlapped.   *)
CacheOverFile ==
  phase = "up" /\ upset = "none" =>
    ended \subseteq (IF cache # Nil THEN Answered(heap[cache]) ELSE FileTurns)

(* When write-through is at rest the file says what the object says.       *)
WriteThroughSettles ==
  /\ upset = "none" /\ Running /\ cache # Nil
  /\ ~dirty /\ InFlight = {} /\ Open = {}
  => file # Nil /\ inode[file] = heap[cache]

(* The cache and the file agree: nothing ended is lost, and at rest they   *)
(* say the same (writeSessionFile, hydrateSession, checkStaleSessions).    *)
CacheAndFileAgree == CacheOverFile /\ WriteThroughSettles

(* flushSessionsNow: what had ended when SIGTERM came is on disk when the  *)
(* process exits.                                                          *)
ShutdownKeepsWhatEnded ==
  phase = "exited" /\ upset = "none" => stopped \subseteq FileTurns

(* reapOrphanedSessions and hydrateSession: a poll never sees a pipeline   *)
(* processing in a process that is not running it.                         *)
NoOrphanProcessing ==
  cache # Nil /\ heap[cache].infer = "processing" => worker = "running"
=============================================================================
