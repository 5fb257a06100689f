------------------------- MODULE SessionStoreProofs -------------------------
(***************************************************************************)
(* The session store, for any number of requests, objects, writes, files   *)
(* and restarts: no poll waits for a pipeline that died; the Map is a      *)
(* cache of the file until the first mishap; a shutdown loses nothing that *)
(* had ended.                                                              *)
(***************************************************************************)
EXTENDS SessionStore, TLAPS

(* A cached object says processing only while its worker runs, and what a  *)
(* file or an object says is a session.                                    *)
PInv ==
  /\ cache \in Obj \cup {Nil}
  /\ heap \in [Obj -> Content]
  /\ inode \in [Inode -> Content \cup {Torn}]
  /\ \A w \in Writer : /\ write[w].pc = "mkdir" => write[w].obj \in Obj
                       /\ write[w].pc = "fill" => write[w].data \in Content
  /\ write \in [Writer -> [pc : {"idle", "mkdir", "fill", "rename"}, obj : Obj \cup {Nil},
                           inode : Inode \cup {Nil}, data : Content \cup {Nil}]]
  /\ tmp \in Inode \cup {Nil} /\ file \in Inode \cup {Nil}
  /\ NoOrphanProcessing

(* The content an action writes is a session's, and its flag is said.      *)
LEMMA Contents ==
  /\ Blank \in Content /\ Blank.infer = "processing"
  /\ \A c \in Content :
       /\ Hydrated(c) \in Content /\ Hydrated(c).infer # "processing"
       /\ Reaped(c) \in Content
       /\ \A r \in BOOLEAN : [c EXCEPT !.recent = r] \in Content
       /\ \A s \in Status : [c EXCEPT !.infer = s] \in Content
  BY DEF Blank, Content, Status, Hydrated, Reaped

(* What a request adds to a session leaves it a session, in the same state  *)
(* of the pipeline.                                                        *)
LEMMA ContentKeeps ==
  ASSUME NEW c \in Content, NEW p \in Turn \X {"asked", "answered"}, NEW r \in BOOLEAN
  PROVE  /\ [c EXCEPT !.said = @ \cup {p}] \in Content
         /\ [c EXCEPT !.said = @ \cup {p}].infer = c.infer
         /\ [c EXCEPT !.recent = TRUE] \in Content
         /\ [c EXCEPT !.recent = TRUE].infer = c.infer
         /\ [c EXCEPT !.said = @ \cup {p}, !.recent = @ \/ r] \in Content
         /\ [c EXCEPT !.said = @ \cup {p}, !.recent = @ \/ r].infer = c.infer
<1>1. c.said \cup {p} \in SUBSET (Turn \X {"asked", "answered"}) /\ c.recent \in BOOLEAN
  BY DEF Content
<1> QED
  BY <1>1 DEF Content

(* The pipeline's outcome is all that changes its state.                   *)
LEMMA OutcomeKeeps ==
  ASSUME NEW c \in Content, NEW outcome \in Status
  PROVE  /\ [c EXCEPT !.infer = outcome, !.recent = TRUE] \in Content
         /\ [c EXCEPT !.infer = outcome, !.recent = TRUE].infer = outcome
  BY DEF Content

(* Requests and the pipeline: the objects.                                 *)
LEMMA RequestsKeep ==
  ASSUME PInv,
         \/ \E o \in Obj : Create(o) \/ Hydrate(o)
         \/ \E t \in Turn : Request(t)
         \/ \E outcome \in {"complete", "failed"} : WorkerEnds(outcome)
  PROVE  PInv'
<1> USE SessionAssumption
<1>a. heap \in [Obj -> Content]
  BY DEF PInv
<1>1. ASSUME NEW o \in Obj, Create(o) PROVE PInv'
  BY <1>1, Contents DEF PInv, Create, disk, NoOrphanProcessing
<1>2. ASSUME NEW o \in Obj, Hydrate(o) PROVE PInv'
  <2>1. inode[file] \in Content
    BY <1>2 DEF PInv, Hydrate, Readable
  <2>2. heap' \in [Obj -> Content] /\ heap'[o].infer # "processing"
    BY <1>2, <1>a, <2>1, Contents DEF Hydrate
  <2> QED
    BY <1>2, <2>2 DEF PInv, Hydrate, disk, NoOrphanProcessing
<1>3. ASSUME heap' \in [Obj -> Content], \A p \in Obj : heap'[p].infer = heap[p].infer,
             UNCHANGED <<cache, disk, worker>>
      PROVE  PInv'
  BY <1>3 DEF PInv, disk, NoOrphanProcessing
<1>4. ASSUME NEW o \in Obj, NEW said \in Content, said.infer = heap[o].infer,
             heap' = [heap EXCEPT ![o] = said], UNCHANGED <<cache, disk, worker>>
      PROVE  PInv'
  <2>1. heap' \in [Obj -> Content] /\ \A p \in Obj : heap'[p].infer = heap[p].infer
    BY <1>4, <1>a
  <2> QED
    BY <1>3, <1>4, <2>1
<1>5. ASSUME NEW t \in Turn, Request(t) PROVE PInv'
  <2>a. <<t, "asked">> \in Turn \X {"asked", "answered"}
        /\ <<t, "answered">> \in Turn \X {"asked", "answered"} /\ TRUE \in BOOLEAN
    OBVIOUS
  <2>1. CASE BeginTurn(t)
    <3> DEFINE said == [heap[cache] EXCEPT !.said = @ \cup {<<t, "asked">>}]
    <3>1. heap' = [heap EXCEPT ![cache] = said]
          /\ cache \in Obj /\ UNCHANGED <<cache, disk, worker>>
      BY <2>1 DEF PInv, BeginTurn
    <3>2. said \in Content /\ said.infer = heap[cache].infer
      BY <1>a, <2>a, <3>1, ContentKeeps
    <3> HIDE DEF said
    <3> QED
      BY <1>4, <3>1, <3>2
  <2>2. CASE Receipt(t)
    <3> DEFINE said == [heap[cache] EXCEPT !.recent = TRUE]
    <3>1. /\ UNCHANGED <<cache, disk, worker>>
          /\ \/ UNCHANGED heap
             \/ cache \in Obj /\ heap' = [heap EXCEPT ![cache] = said]
      BY <2>2 DEF PInv, Receipt
    <3>2. cache \in Obj => said \in Content /\ said.infer = heap[cache].infer
      BY <1>a, <2>a, ContentKeeps
    <3> HIDE DEF said
    <3>3. CASE UNCHANGED heap
      BY <1>3, <1>a, <3>1, <3>3
    <3> QED
      BY <1>4, <3>1, <3>2, <3>3
  <2>3. CASE EndTurn(t)
    <3> DEFINE o == turn[t].obj
               said == [heap[o] EXCEPT !.said = @ \cup {<<t, "answered">>}]
    <3>1. heap' = [heap EXCEPT ![o] = said] /\ UNCHANGED <<cache, disk, worker>>
      BY <2>3 DEF EndTurn
    <3>2. CASE o \in Obj
      <4>1. said \in Content /\ said.infer = heap[o].infer
        BY <1>a, <2>a, <3>2, ContentKeeps
      <4> HIDE DEF said, o
      <4> QED
        BY <1>4, <3>1, <3>2, <4>1
    <3>3. CASE o \notin Obj
      <4>1. heap' = heap
        BY <1>a, <3>1, <3>3
      <4> QED
        BY <1>3, <1>a, <3>1, <4>1
    <3> QED
      BY <3>2, <3>3
  <2>4. ASSUME NEW refresh \in BOOLEAN, Touch(t, refresh) PROVE PInv'
    <3> DEFINE said == [heap[cache] EXCEPT !.said = @ \cup {<<t, "answered">>},
                                           !.recent = @ \/ refresh]
    <3>1. cache \in Obj /\ UNCHANGED <<cache, disk, worker>>
      BY <2>4 DEF PInv, Touch
    <3>2. heap' = [heap EXCEPT ![cache] = said]
      <4> DEFINE one == [heap[cache] EXCEPT !.said = @ \cup {<<t, "answered">>}]
                 h == [heap EXCEPT ![cache] = one]
      <4>1. heap' = [h EXCEPT ![cache] = [h[cache] EXCEPT !.recent = @ \/ refresh]]
        BY <2>4 DEF Touch
      <4>2. h[cache] = one /\ DOMAIN h = Obj
        BY <1>a, <3>1
      <4>3. said = [one EXCEPT !.recent = one.recent \/ refresh]
        <5>1. heap[cache] \in Content
          BY <1>a, <3>1
        <5> QED
          BY <5>1 DEF Content
      <4> HIDE DEF one, said
      <4>4. heap' = [h EXCEPT ![cache] = said]
        BY <4>1, <4>2, <4>3
      <4> QED
        BY <1>a, <4>4
    <3>3. said \in Content /\ said.infer = heap[cache].infer
      <4>1. heap[cache] \in Content
        BY <1>a, <3>1
      <4>2. /\ heap[cache].said \cup {<<t, "answered">>} \in SUBSET (Turn \X {"asked", "answered"})
            /\ (heap[cache].recent \/ refresh) \in BOOLEAN
        BY <2>a, <4>1 DEF Content
      <4> QED
        BY <4>1, <4>2 DEF Content
    <3> HIDE DEF said
    <3> QED
      BY <1>4, <3>1, <3>2, <3>3
  <2> QED
    BY <1>5, <2>1, <2>2, <2>3, <2>4 DEF Request
<1>6. ASSUME NEW outcome \in {"complete", "failed"}, WorkerEnds(outcome) PROVE PInv'
  <2>1. /\ heap' = [heap EXCEPT ![cache] = [heap[cache] EXCEPT !.infer = outcome, !.recent = TRUE]]
        /\ cache \in Obj /\ outcome \in Status
    BY <1>6 DEF PInv, WorkerEnds, Status
  <2>2. heap' \in [Obj -> Content] /\ heap'[cache].infer = outcome
    BY <1>a, <2>1, OutcomeKeeps
  <2> QED
    BY <1>6, <2>2 DEF PInv, WorkerEnds, disk, NoOrphanProcessing
<1> QED
  BY <1>1, <1>2, <1>5, <1>6

(* Writes: the disk. Of the objects they touch nothing.                    *)
LEMMA WritesKeep ==
  ASSUME PInv, NEW w \in Writer, Writing(w) \/ Terminate(w)
  PROVE  PInv'
<1> USE SessionAssumption DEF PInv
<1>1. NoOrphanProcessing' /\ UNCHANGED <<cache, heap>>
  BY DEF Writing, Terminate, Flush, OpenTmp, Fill, Rename, WriteFails, memory, process,
     NoOrphanProcessing
<1>2. CASE Flush(w)
  BY <1>1, <1>2 DEF Flush, StartWrite
<1>3. CASE Terminate(w)
  BY <1>1, <1>3 DEF Terminate, StartWrite
<1>4. CASE OpenTmp(w)
  <2>1. heap[write[w].obj] \in Content
    BY <1>4 DEF OpenTmp
  <2>2. PICK i \in Inode :
          /\ tmp' = i
          /\ inode' = [inode EXCEPT ![i] = Torn]
          /\ write' = [write EXCEPT ![w] = [pc |-> "fill", obj |-> Nil, inode |-> i,
                                           data |-> heap[write[w].obj]]]
    BY <1>4 DEF OpenTmp
  <2>3. file' = file /\ inode' \in [Inode -> Content \cup {Torn}]
    BY <1>4, <2>2 DEF OpenTmp
  <2>4. /\ write' \in [Writer -> [pc : {"idle", "mkdir", "fill", "rename"}, obj : Obj \cup {Nil},
                                  inode : Inode \cup {Nil}, data : Content \cup {Nil}]]
        /\ \A v \in Writer : /\ write'[v].pc = "mkdir" => write'[v].obj \in Obj
                             /\ write'[v].pc = "fill" => write'[v].data \in Content
    BY <2>1, <2>2
  <2> QED
    BY <1>1, <2>2, <2>3, <2>4
<1>5. CASE Fill(w)
  <2>1. write[w].data \in Content
    BY <1>5 DEF Fill
  <2>2. inode' \in [Inode -> Content \cup {Torn}]
    <3>1. PICK c \in {write[w].data, Torn} : inode' = [inode EXCEPT ![write[w].inode] = c]
      BY <1>5, Zenon DEF Fill
    <3> QED
      BY <2>1, <3>1
  <2> QED
    BY <1>1, <1>5, <2>2 DEF Fill
<1>6. CASE Rename(w)
  BY <1>1, <1>6 DEF Rename, NoWrite
<1>7. CASE WriteFails(w)
  BY <1>1, <1>7 DEF WriteFails, NoWrite
<1> QED
  BY <1>2, <1>3, <1>4, <1>5, <1>6, <1>7 DEF Writing

(* The sweep, a day, and the process's end and boot.                       *)
LEMMA RestKeeps ==
  ASSUME PInv, Sweep \/ DayPasses \/ Settle \/ Close \/ Exit \/ Crash \/ Boot
  PROVE  PInv'
<1> USE SessionAssumption DEF PInv
<1>1. CASE Sweep
  <2>1. PICK timedOut \in BOOLEAN :
          /\ heap' = [heap EXCEPT ![cache] =
               [heap[cache] EXCEPT !.infer = IF timedOut THEN "failed" ELSE heap[cache].infer]]
          /\ \/ UNCHANGED <<cache, write>>
             \/ /\ cache' = Nil
                /\ UNCHANGED write \/ \E w \in Writer \ InFlight : StartWrite(w)
    BY <1>1 DEF Sweep
  <2>2. cache \in Obj /\ UNCHANGED <<inode, tmp, file, worker>>
    BY <1>1 DEF Sweep
  <2>3. /\ heap' \in [Obj -> Content]
        /\ heap'[cache].infer = "processing" => heap[cache].infer = "processing"
    <3> DEFINE held == [heap[cache] EXCEPT !.infer = IF timedOut THEN "failed"
                                                      ELSE heap[cache].infer]
    <3>1. heap[cache] \in Content /\ heap[cache].infer \in Status /\ "failed" \in Status
      BY <2>2 DEF Content, Status
    <3>2. held \in Content /\ held.infer \in {"failed", heap[cache].infer}
      BY <3>1 DEF Content
    <3>3. heap' = [heap EXCEPT ![cache] = held]
      BY <2>1
    <3> HIDE DEF held
    <3> QED
      BY <2>2, <3>2, <3>3
  <2>4. /\ write' \in [Writer -> [pc : {"idle", "mkdir", "fill", "rename"}, obj : Obj \cup {Nil},
                                  inode : Inode \cup {Nil}, data : Content \cup {Nil}]]
        /\ \A w \in Writer : /\ write'[w].pc = "mkdir" => write'[w].obj \in Obj
                             /\ write'[w].pc = "fill" => write'[w].data \in Content
    BY <2>1, <2>2 DEF StartWrite
  <2>5. NoOrphanProcessing'
    BY <2>1, <2>2, <2>3 DEF NoOrphanProcessing
  <2> QED
    BY <2>1, <2>2, <2>3, <2>4, <2>5
<1>2. CASE DayPasses
  <2>1. \A c \in Content : /\ [c EXCEPT !.recent = FALSE] \in Content
                           /\ [c EXCEPT !.recent = FALSE].infer = c.infer
    BY DEF Content
  <2>2. heap' \in [Obj -> Content] /\ \A o \in Obj : heap'[o].infer = heap[o].infer
    BY <1>2, <2>1 DEF DayPasses
  <2>3. inode' \in [Inode -> Content \cup {Torn}]
    BY <1>2, <2>1 DEF DayPasses
  <2> QED
    BY <1>2, <2>2, <2>3 DEF DayPasses, process, NoOrphanProcessing
<1>3. CASE Settle \/ Close
  BY <1>3 DEF Settle, Close, memory, disk, NoOrphanProcessing
<1>4. ASSUME NEW as, Die(as) PROVE PInv'
  BY <1>4, Contents DEF Die, NoWrite, NoOrphanProcessing
<1>5. CASE Boot
  <2>1. inode' \in [Inode -> Content \cup {Torn}]
    <3>1. Readable => inode[file] \in Content
      BY DEF Readable
    <3>2. CASE Readable
      <4>1. file \in Inode /\ Reaped(inode[file]) \in Content
        BY <3>1, <3>2, Contents DEF Readable
      <4> QED
        BY <1>5, <3>2, <4>1 DEF Boot
    <3> QED
      BY <1>5, <3>2 DEF Boot
  <2> QED
    BY <1>5, <2>1 DEF Boot, NoOrphanProcessing
<1> QED
  BY <1>1, <1>2, <1>3, <1>4, <1>5 DEF Exit, Crash

(* No poll ever sees a pipeline processing in a process that is not        *)
(* running it, however the writes, the reaper and the restarts go.         *)
THEOREM NoPollWaitsForTheDead == Spec => []NoOrphanProcessing
<1>1. Init => PInv
  BY SessionAssumption, Contents DEF Init, PInv, NoWrite, NoOrphanProcessing
<1>2. PInv /\ [Next]_vars => PInv'
  <2>1. ASSUME PInv, UNCHANGED vars PROVE PInv'
    BY <2>1 DEF PInv, vars, NoOrphanProcessing
  <2> QED
    BY <2>1, RequestsKeep, WritesKeep, RestKeeps DEF Next
<1>3. PInv => NoOrphanProcessing
  BY DEF PInv
<1> QED
  BY <1>1, <1>2, <1>3, PTL DEF Spec

-----------------------------------------------------------------------------
(* Write-through. Until the first mishap the Map is a cache of the file,   *)
(* and SIGTERM loses nothing that had ended.                               *)

(* Writes waiting for their mkdir, and writes that hold the temporary file. *)
Queued == {w \in Writer : write[w].pc = "mkdir"}
Active == {w \in Writer : write[w].pc \in {"fill", "rename"}}

(* The values of the variables PInv is silent about.                       *)
RestTypes ==
  /\ phase \in {"up", "flushing", "settling", "closing", "exited", "crashed"}
  /\ dirty \in BOOLEAN
  /\ turn \in [Turn -> [pc : {"new", "waiting", "replying", "ended"}, obj : Obj \cup {Nil}]]
  /\ worker \in {"unborn", "running", "gone"}
  /\ ended \subseteq Turn

(* Before createSession there is nothing, in memory or on disk.            *)
BirthInv ==
  worker = "unborn" =>
    cache = Nil /\ file = Nil /\ ended = {} /\ InFlight = {} /\ Open = {} /\ ~dirty

(* The session of a running pipeline is cached, and too fresh to evict.    *)
RunsRecent == worker = "running" => cache # Nil /\ heap[cache].recent

(* A process that is down holds nothing.                                   *)
DownInv ==
  ~Running => /\ cache = Nil /\ InFlight = {} /\ Open = {}
              /\ ~dirty /\ awaiting = {} /\ tmp = Nil

Skeleton == RestTypes /\ BirthInv /\ RunsRecent /\ DownInv

(* Turns and queued writes hold the object the Map holds.                  *)
HeldInv ==
  /\ \A t \in Open : turn[t].obj = cache
  /\ \A w \in Queued : write[w].obj = cache
  /\ cache = Nil => InFlight = {} /\ Open = {} /\ ~dirty

(* One write at a time has the temporary file, and the session's file is   *)
(* whole.                                                                  *)
OneFile ==
  /\ \A v, w \in Active : v = w
  /\ Active = {} => tmp = Nil
  /\ \A w \in Active :
       /\ tmp = write[w].inode /\ tmp # Nil /\ tmp # file
       /\ write[w].data \in Content
       /\ inode[tmp] = IF write[w].pc = "fill" THEN Torn ELSE write[w].data
  /\ file # Nil => inode[file] # Torn

(* The object says at least what a write carries, and that at least what   *)
(* the file says: a rename never takes the file back.                      *)
GrowInv ==
  cache # Nil =>
    /\ FileTurns \subseteq Answered(heap[cache])
    /\ \A w \in Active : /\ FileTurns \subseteq Answered(write[w].data)
                         /\ Answered(write[w].data) \subseteq Answered(heap[cache])

(* Clean, with nothing queued: the newest copy has all that ended, and all *)
(* the object says unless a turn is open.                                  *)
FreshInv ==
  cache # Nil /\ ~dirty /\ Queued = {} =>
    /\ Active = {} => /\ ended \subseteq FileTurns
                      /\ Open = {} => file # Nil /\ inode[file] = heap[cache]
    /\ \A w \in Active : /\ ended \subseteq Answered(write[w].data)
                         /\ Open = {} => write[w].data = heap[cache]

EndedInv ==
  Running => ended \subseteq (IF cache # Nil THEN Answered(heap[cache]) ELSE FileTurns)

(* A write that will bring what had ended at SIGTERM to the file.          *)
Carries(w) ==
  w \in Queued \/ (w \in Active /\ stopped \subseteq Answered(write[w].data))

(* What had ended when SIGTERM came is in the file, or a write that the    *)
(* shutdown still waits for carries it.                                    *)
StopInv ==
  /\ phase \in {"flushing", "settling", "closing"} => stopped \subseteq ended
  /\ phase = "flushing" => stopped \subseteq FileTurns \/ \E w \in Writer : Carries(w)
  /\ phase = "settling" =>
       stopped \subseteq FileTurns \/ \E w \in Writer : w \in awaiting /\ Carries(w)
  /\ phase \in {"closing", "exited"} => stopped \subseteq FileTurns

WriteThrough == HeldInv /\ OneFile /\ GrowInv /\ FreshInv /\ EndedInv /\ StopInv

SInv == PInv /\ Skeleton /\ (upset = "none" => WriteThrough)

(* A session that says more has more turns answered.                       *)
LEMMA AnsweredGrows ==
  ASSUME NEW c, NEW d, c.said \subseteq d.said
  PROVE  Answered(c) \subseteq Answered(d)
  BY DEF Answered

(* The sets that follow from variables a step leaves alone.                *)
LEMMA SameSets ==
  /\ write' = write => InFlight' = InFlight /\ Active' = Active /\ Queued' = Queued
  /\ turn' = turn => Open' = Open
  /\ inode' = inode /\ file' = file => FileTurns' = FileTurns /\ Readable' = Readable
  BY DEF InFlight, Active, Queued, Open, FileTurns, Readable, Answered

(* What a step of the objects may do without the disk: the cached object   *)
(* says more, and the session is dirty, or a turn that will end is open.   *)
LEMMA GrowStep ==
  ASSUME SInv, upset = "none", Running, cache \in Obj, UNCHANGED <<cache, disk, process>>,
         Answered(heap[cache]) \subseteq Answered(heap'[cache]),
         ended \subseteq ended', ended' \subseteq ended \cup Answered(heap'[cache]),
         \A t \in Open' : turn'[t].obj = cache,
         dirty' \/ (~dirty /\ ended' = ended /\ Open' # {})
  PROVE  WriteThrough'
<1> USE SessionAssumption DEF SInv, WriteThrough
<1>1. /\ InFlight' = InFlight /\ Active' = Active /\ Queued' = Queued /\ FileTurns' = FileTurns
      /\ UNCHANGED <<write, inode, tmp, file, phase, awaiting, stopped>>
  BY SameSets DEF disk, process
<1>2. cache' = cache /\ cache # Nil
  OBVIOUS
<1>3. HeldInv'
  BY <1>1, <1>2 DEF HeldInv
<1>4. OneFile'
  BY <1>1 DEF OneFile
<1>5. GrowInv'
  BY <1>1, <1>2 DEF GrowInv
<1>6. FreshInv'
  BY <1>1, <1>2 DEF FreshInv
<1>7. EndedInv'
  BY <1>1, <1>2 DEF EndedInv, Running
<1>8. StopInv'
  <2>1. \A w : Carries(w)' <=> Carries(w)
    BY <1>1 DEF Carries
  <2> QED
    BY <1>1, <2>1 DEF StopInv
<1> QED
  BY <1>3, <1>4, <1>5, <1>6, <1>7, <1>8

(* The first object of the session, in memory only.                        *)
LEMMA CreateThrough ==
  ASSUME SInv, NEW o \in Obj, Create(o)
  PROVE  Skeleton' /\ (upset' = "none" => WriteThrough')
<1> USE SessionAssumption DEF SInv
<1>1. /\ cache' = o /\ o # Nil /\ heap'[o] = Blank /\ dirty' /\ worker' = "running"
      /\ UNCHANGED <<write, inode, tmp, file, phase, awaiting, stopped, turn, ended, upset>>
  BY DEF Create, PInv, disk, process, Persist
<1>2. /\ InFlight' = InFlight /\ Active' = Active /\ Queued' = Queued /\ FileTurns' = FileTurns
      /\ Open' = Open
  BY <1>1, SameSets
<1>3. /\ cache = Nil /\ file = Nil /\ ended = {} /\ InFlight = {} /\ Open = {}
      /\ Active = {} /\ Queued = {} /\ FileTurns = {} /\ phase \in {"up", "flushing", "settling"}
  BY DEF Create, Skeleton, BirthInv, InFlight, Active, Queued, FileTurns, Readable, Serving
<1>4. Skeleton'
  BY <1>1, <1>2, <1>3
     DEF Skeleton, RestTypes, BirthInv, RunsRecent, DownInv, Blank, Running, Serving
<1>5. ASSUME upset = "none" PROVE WriteThrough'
  <2> USE <1>5 DEF WriteThrough
  <2>1. HeldInv'
    BY <1>1, <1>2, <1>3 DEF HeldInv
  <2>2. OneFile'
    BY <1>1, <1>2, <1>3 DEF OneFile
  <2>3. GrowInv' /\ FreshInv' /\ EndedInv'
    BY <1>1, <1>2, <1>3 DEF GrowInv, FreshInv, EndedInv
  <2>4. StopInv'
    <3>1. \A w : ~Carries(w)
      BY <1>3 DEF Carries
    <3> QED
      BY <1>1, <1>2, <1>3, <3>1 DEF StopInv
  <2> QED
    BY <2>1, <2>2, <2>3, <2>4
<1> QED
  BY <1>1, <1>4, <1>5

(* The object hydrated from the file says what the file says.              *)
LEMMA HydrateThrough ==
  ASSUME SInv, NEW o \in Obj, Hydrate(o)
  PROVE  Skeleton' /\ (upset' = "none" => WriteThrough')
<1> USE SessionAssumption DEF SInv
<1>1. /\ cache = Nil /\ cache' = o /\ o # Nil /\ heap'[o] = Hydrated(inode[file]) /\ dirty' /\ Readable
      /\ UNCHANGED <<write, inode, tmp, file, phase, awaiting, stopped, turn, ended, worker, upset>>
      /\ Running
  BY DEF Hydrate, PInv, disk, process, Persist
<1>2. /\ InFlight' = InFlight /\ Active' = Active /\ Queued' = Queued /\ FileTurns' = FileTurns
      /\ Open' = Open
  BY <1>1, SameSets
<1>3. file # Nil /\ worker # "unborn" /\ worker # "running"
  BY <1>1 DEF Readable, Skeleton, BirthInv, RunsRecent
<1>4. Skeleton'
  BY <1>1, <1>2, <1>3
     DEF Skeleton, RestTypes, BirthInv, RunsRecent, DownInv, Running
<1>5. FileTurns = Answered(heap'[o])
  <2>1. inode[file] \in Content
    BY <1>1 DEF Readable, PInv
  <2>2. Hydrated(inode[file]).said = inode[file].said
    BY <2>1 DEF Hydrated, Content
  <2> QED
    BY <1>1, <2>2 DEF FileTurns, Answered
<1>6. ASSUME upset = "none" PROVE WriteThrough'
  <2> USE <1>6 DEF WriteThrough
  <2>1. InFlight = {} /\ Active = {} /\ Queued = {} /\ Open = {}
    BY <1>1 DEF HeldInv, InFlight, Active, Queued
  <2>2. HeldInv' /\ OneFile'
    BY <1>1, <1>2, <2>1 DEF HeldInv, OneFile
  <2>3. GrowInv' /\ FreshInv' /\ EndedInv'
    BY <1>1, <1>2, <1>5, <2>1 DEF GrowInv, FreshInv, EndedInv, Running
  <2>4. StopInv'
    <3>1. \A w : ~Carries(w) /\ ~Carries(w)'
      BY <1>2, <2>1 DEF Carries
    <3> QED
      BY <1>1, <1>2, <3>1 DEF StopInv
  <2> QED
    BY <2>2, <2>3, <2>4
<1> QED
  BY <1>1, <1>4, <1>6

(* Requests and the pipeline's end: the cached object says more.           *)
LEMMA RequestsThrough ==
  ASSUME SInv, \/ \E t \in Turn : Request(t)
               \/ \E outcome \in {"complete", "failed"} : WorkerEnds(outcome)
  PROVE  Skeleton' /\ (upset' = "none" => WriteThrough')
<1> USE SessionAssumption DEF SInv
<1>1. ASSUME NEW t \in Turn, NEW refresh \in BOOLEAN, Touch(t, refresh)
      PROVE  Skeleton' /\ (upset' = "none" => WriteThrough')
  <2>1. /\ cache \in Obj /\ cache' = cache /\ dirty' /\ Running /\ turn[t].pc = "new"
        /\ turn' = [turn EXCEPT ![t].pc = "ended"] /\ ended' = ended \cup {t}
        /\ UNCHANGED <<disk, process, worker, upset>>
    BY <1>1 DEF Touch, Persist, PInv, Serving, Running
  <2>2. heap'[cache] = [heap[cache] EXCEPT !.said = @ \cup {<<t, "answered">>},
                                          !.recent = @ \/ refresh]
    BY <1>1, <2>1 DEF Touch, PInv
  <2>3. heap[cache] \in Content
    BY <2>1 DEF PInv
  <2>4. /\ heap'[cache].said = heap[cache].said \cup {<<t, "answered">>}
        /\ heap[cache].recent => heap'[cache].recent
    BY <2>2, <2>3 DEF Content
  <2>5. Answered(heap[cache]) \subseteq Answered(heap'[cache]) /\ t \in Answered(heap'[cache])
    BY <2>4 DEF Answered
  <2>6. Open' = Open /\ \A u \in Open : turn'[u] = turn[u]
    BY <2>1 DEF Open, Skeleton, RestTypes
  <2>7. Skeleton'
    BY <2>1, <2>4, <2>6
       DEF Skeleton, RestTypes, BirthInv, RunsRecent, DownInv, Running, InFlight, disk, process
  <2>8. ASSUME upset = "none" PROVE WriteThrough'
    <3>1. \A u \in Open' : turn'[u].obj = cache
      BY <2>6, <2>8 DEF WriteThrough, HeldInv
    <3> QED
      BY <2>1, <2>5, <2>8, <3>1, GrowStep
  <2> QED
    BY <2>1, <2>7, <2>8
<1>2. ASSUME NEW t \in Turn, BeginTurn(t)
      PROVE  Skeleton' /\ (upset' = "none" => WriteThrough')
  <2>1. /\ cache \in Obj /\ cache' = cache /\ dirty' = dirty /\ Running
        /\ turn' = [turn EXCEPT ![t] = [pc |-> "waiting", obj |-> cache]]
        /\ UNCHANGED <<disk, process, worker, ended, upset>>
    BY <1>2 DEF BeginTurn, PInv, Serving, Running
  <2>2. heap'[cache] = [heap[cache] EXCEPT !.said = @ \cup {<<t, "asked">>}]
    BY <1>2, <2>1 DEF BeginTurn, PInv
  <2>3. heap[cache] \in Content
    BY <2>1 DEF PInv
  <2>4. /\ heap'[cache].said = heap[cache].said \cup {<<t, "asked">>}
        /\ heap'[cache].recent = heap[cache].recent
    BY <2>2, <2>3 DEF Content
  <2>5. Answered(heap[cache]) \subseteq Answered(heap'[cache])
    BY <2>4, AnsweredGrows
  <2>6. t \in Open' /\ \A u \in Open' : u = t \/ (u \in Open /\ turn'[u] = turn[u])
    BY <2>1 DEF Open, Skeleton, RestTypes
  <2>7. Skeleton'
    BY <2>1, <2>4, <2>6
       DEF Skeleton, RestTypes, BirthInv, RunsRecent, DownInv, Running, InFlight, disk, process
  <2>8. ASSUME upset = "none" PROVE WriteThrough'
    <3>1. \A u \in Open' : turn'[u].obj = cache
      BY <2>1, <2>6, <2>8 DEF WriteThrough, HeldInv, Skeleton, RestTypes
    <3>2. dirty' \/ (~dirty /\ ended' = ended /\ Open' # {})
      BY <2>1, <2>6
    <3>3. ended \subseteq ended' /\ ended' \subseteq ended \cup Answered(heap'[cache])
      BY <2>1
    <3> QED
      BY <2>1, <2>5, <2>8, <3>1, <3>2, <3>3, GrowStep
  <2> QED
    BY <2>1, <2>7, <2>8
<1>3. ASSUME NEW t \in Turn, Receipt(t)
      PROVE  Skeleton' /\ (upset' = "none" => WriteThrough')
  <2>1. /\ cache' = cache /\ Running /\ turn[t].pc = "waiting"
        /\ turn' = [turn EXCEPT ![t].pc = "replying"]
        /\ UNCHANGED <<disk, process, worker, ended, upset>>
    BY <1>3 DEF Receipt
  <2>2. /\ t \in Open /\ Open' = Open /\ \A u \in Open : turn'[u].obj = turn[u].obj
        /\ turn' \in [Turn -> [pc : {"new", "waiting", "replying", "ended"}, obj : Obj \cup {Nil}]]
    BY <2>1 DEF Open, Skeleton, RestTypes
  <2>3. CASE cache # Nil
    <3>1. cache \in Obj /\ dirty' /\ heap'[cache] = [heap[cache] EXCEPT !.recent = TRUE]
      BY <1>3, <2>3 DEF Receipt, PInv, Persist
    <3>2. heap[cache] \in Content
      BY <3>1 DEF PInv
    <3>3. heap'[cache].said = heap[cache].said /\ heap'[cache].recent
      BY <3>1, <3>2 DEF Content
    <3>4. Answered(heap[cache]) \subseteq Answered(heap'[cache])
      BY <3>3, AnsweredGrows
    <3>5. Skeleton'
      BY <2>1, <2>2, <3>1, <3>3
         DEF Skeleton, RestTypes, BirthInv, RunsRecent, DownInv, Running, InFlight, disk, process
    <3>6. ASSUME upset = "none" PROVE WriteThrough'
      <4>1. \A u \in Open' : turn'[u].obj = cache
        BY <2>2, <3>6 DEF WriteThrough, HeldInv
      <4>2. ended \subseteq ended' /\ ended' \subseteq ended \cup Answered(heap'[cache])
        BY <2>1
      <4> QED
        BY <2>1, <3>1, <3>4, <3>6, <4>1, <4>2, GrowStep
    <3> QED
      BY <2>1, <3>5, <3>6
  <2>4. CASE cache = Nil
    <3>1. dirty' = dirty /\ heap' = heap
      BY <1>3, <2>4 DEF Receipt
    <3>2. Skeleton'
      BY <2>1, <2>2, <2>4, <3>1
         DEF Skeleton, RestTypes, BirthInv, RunsRecent, DownInv, Running, InFlight, disk, process
    <3>3. upset # "none"
      BY <2>2, <2>4 DEF WriteThrough, HeldInv
    <3> QED
      BY <2>1, <3>2, <3>3
  <2> QED
    BY <2>3, <2>4
<1>4. ASSUME NEW t \in Turn, EndTurn(t)
      PROVE  Skeleton' /\ (upset' = "none" => WriteThrough')
  <2>1. /\ cache' = cache /\ Running /\ turn[t].pc = "replying" /\ dirty' = (dirty \/ cache # Nil)
        /\ turn' = [turn EXCEPT ![t] = [pc |-> "ended", obj |-> Nil]] /\ ended' = ended \cup {t}
        /\ UNCHANGED <<disk, process, worker, upset>>
    BY <1>4 DEF EndTurn
  <2>2. /\ t \in Open /\ Open' = Open \ {t} /\ \A u \in Open' : turn'[u] = turn[u]
        /\ turn' \in [Turn -> [pc : {"new", "waiting", "replying", "ended"}, obj : Obj \cup {Nil}]]
    BY <2>1 DEF Open, Skeleton, RestTypes
  <2>3. heap' = [heap EXCEPT ![turn[t].obj] =
                   [heap[turn[t].obj] EXCEPT !.said = @ \cup {<<t, "answered">>}]]
    BY <1>4 DEF EndTurn
  <2>4. ASSUME NEW o \in Obj
        PROVE  /\ heap'[o].said = (IF o = turn[t].obj THEN heap[o].said \cup {<<t, "answered">>}
                                                      ELSE heap[o].said)
               /\ heap'[o].recent = heap[o].recent
    <3>1. heap[o] \in Content /\ heap \in [Obj -> Content]
      BY DEF PInv
    <3> QED
      BY <2>3, <3>1 DEF Content
  <2>5. Skeleton'
    <3>1. RestTypes' /\ BirthInv' /\ DownInv'
      BY <2>1, <2>2
         DEF Skeleton, RestTypes, BirthInv, DownInv, Running, InFlight, disk, process
    <3>2. RunsRecent'
      BY <2>1, <2>4 DEF Skeleton, RunsRecent, PInv
    <3> QED
      BY <3>1, <3>2 DEF Skeleton
  <2>6. ASSUME upset = "none" PROVE WriteThrough'
    <3>1. turn[t].obj = cache /\ cache # Nil /\ cache \in Obj
      BY <2>2, <2>6 DEF WriteThrough, HeldInv, PInv
    <3>2. heap'[cache].said = heap[cache].said \cup {<<t, "answered">>}
      BY <2>4, <3>1
    <3>3. Answered(heap[cache]) \subseteq Answered(heap'[cache]) /\ t \in Answered(heap'[cache])
      BY <3>2 DEF Answered
    <3>4. \A u \in Open' : turn'[u].obj = cache
      BY <2>2, <2>6 DEF WriteThrough, HeldInv
    <3>5. dirty' /\ ended \subseteq ended' /\ ended' \subseteq ended \cup Answered(heap'[cache])
      BY <2>1, <3>1, <3>3
    <3> QED
      BY <2>1, <2>6, <3>1, <3>3, <3>4, <3>5, GrowStep
  <2> QED
    BY <2>1, <2>5, <2>6
<1>5. ASSUME NEW outcome \in {"complete", "failed"}, WorkerEnds(outcome)
      PROVE  Skeleton' /\ (upset' = "none" => WriteThrough')
  <2>1. /\ cache \in Obj /\ cache' = cache /\ dirty' /\ Running /\ worker = "running"
        /\ worker' = "gone" /\ UNCHANGED <<turn, ended, disk, process, upset>>
    BY <1>5 DEF WorkerEnds, Persist, PInv
  <2>2. heap'[cache] = [heap[cache] EXCEPT !.infer = outcome, !.recent = TRUE]
    BY <1>5, <2>1 DEF WorkerEnds, PInv
  <2>3. heap'[cache].said = heap[cache].said
    <3>1. heap[cache] \in Content
      BY <2>1 DEF PInv
    <3> QED
      BY <2>2, <3>1 DEF Content
  <2>4. Skeleton'
    BY <2>1 DEF Skeleton, RestTypes, BirthInv, RunsRecent, DownInv, Running, InFlight, Open,
                disk, process
  <2>5. ASSUME upset = "none" PROVE WriteThrough'
    <3>1. \A u \in Open' : turn'[u].obj = cache
      BY <2>1, <2>5 DEF WriteThrough, HeldInv, Open
    <3>2. Answered(heap[cache]) \subseteq Answered(heap'[cache])
      BY <2>3, AnsweredGrows
    <3> QED
      BY <2>1, <2>5, <3>1, <3>2, GrowStep
  <2> QED
    BY <2>1, <2>4, <2>5
<1> QED
  BY <1>1, <1>2, <1>3, <1>4, <1>5 DEF Request

(* A write begins: what was dirty is queued, and nothing else moves. At    *)
(* SIGTERM it is the write, if any is due, that carries what had ended.    *)
LEMMA BeginWriteThrough ==
  ASSUME SInv, NEW w \in Writer, Flush(w) \/ Terminate(w)
  PROVE  Skeleton' /\ (upset' = "none" => WriteThrough')
<1> USE SessionAssumption DEF SInv
<1>1. /\ Running /\ Running' /\ ~dirty' /\ write[w].pc = "idle"
      /\ UNCHANGED <<cache, heap, turn, ended, inode, tmp, file, worker, upset>>
  BY DEF Flush, Terminate, process, Running
<1>2. Open' = Open /\ FileTurns' = FileTurns
  BY <1>1, SameSets
<1>3. \/ write' = write
      \/ /\ cache # Nil /\ dirty /\ w \in Queued' /\ write'[w].obj = cache
         /\ \A v \in Writer : v # w => write'[v] = write[v]
  BY DEF Flush, Terminate, StartWrite, PInv, Queued
<1>4. /\ Active' = Active /\ \A v \in Active : write'[v] = write[v]
      /\ \A v \in Queued' : (v \in Queued /\ write'[v] = write[v]) \/ v = w
      /\ Queued \subseteq Queued'
  BY <1>1, <1>3 DEF Active, Queued
<1>5. ~dirty \/ cache = Nil \/ w \in Queued'
  BY <1>3 DEF Flush, Terminate, StartWrite, PInv, Queued
<1>6. Skeleton'
  <2>1. worker # "unborn" \/ write' = write
    BY <1>3 DEF Skeleton, BirthInv
  <2> QED
    BY <1>1, <1>2, <2>1
       DEF Skeleton, RestTypes, BirthInv, RunsRecent, DownInv, Running, InFlight, Flush, Terminate,
           process
<1>7. ASSUME upset = "none" PROVE WriteThrough'
  <2> USE <1>7 DEF WriteThrough
  <2>1. HeldInv'
    BY <1>1, <1>2, <1>3, <1>4, SameSets DEF HeldInv
  <2>2. OneFile'
    BY <1>1, <1>4 DEF OneFile
  <2>3. GrowInv' /\ EndedInv'
    BY <1>1, <1>2, <1>4 DEF GrowInv, EndedInv
  <2>4. FreshInv'
    BY <1>1, <1>2, <1>4, <1>5 DEF FreshInv
  <2>5. StopInv'
    <3>1. CASE Flush(w)
      <4>1. UNCHANGED <<phase, stopped, awaiting>>
        BY <3>1 DEF Flush, process
      <4>2. \A v \in Writer : Carries(v) => Carries(v)'
        BY <1>4, <4>1 DEF Carries
      <4> QED
        BY <1>1, <1>2, <4>1, <4>2 DEF StopInv
    <3>2. CASE Terminate(w)
      <4>1. phase' = "flushing" /\ stopped' = ended
        BY <3>2 DEF Terminate
      <4>2. stopped' \subseteq FileTurns' \/ \E v \in Writer : Carries(v)'
        <5>1. CASE cache = Nil
          BY <1>1, <1>2, <4>1, <5>1 DEF EndedInv
        <5>2. CASE Queued' # {}
          BY <5>2 DEF Carries, Queued
        <5>3. CASE cache # Nil /\ Queued' = {}
          <6>1. ~dirty /\ Queued = {}
            BY <1>4, <1>5, <5>3
          <6>2. CASE Active = {}
            BY <1>2, <4>1, <5>3, <6>1, <6>2 DEF FreshInv
          <6>3. ASSUME NEW v \in Active PROVE Carries(v)'
            BY <1>4, <4>1, <5>3, <6>1, <6>3 DEF FreshInv, Carries
          <6>4. Active \subseteq Writer
            BY DEF Active
          <6> QED
            BY <6>2, <6>3, <6>4
        <5> QED
          BY <5>1, <5>2, <5>3
      <4> QED
        BY <1>1, <4>1, <4>2 DEF StopInv
    <3> QED
      BY <3>1, <3>2
  <2> QED
    BY <2>1, <2>2, <2>3, <2>4, <2>5
<1> QED
  BY <1>1, <1>6, <1>7

(* OpenTmp takes down what the object says now.                            *)
LEMMA OpenTmpThrough ==
  ASSUME SInv, NEW w \in Writer, OpenTmp(w)
  PROVE  Skeleton' /\ (upset' = "none" => WriteThrough')
<1> USE SessionAssumption DEF SInv
<1>1. PICK i \in Inode :
        /\ IF tmp = Nil THEN FreeInode(i) ELSE i = tmp
        /\ tmp' = i
        /\ inode' = [inode EXCEPT ![i] = Torn]
        /\ write' = [write EXCEPT ![w] = [pc |-> "fill", obj |-> Nil, inode |-> i,
                                         data |-> heap[write[w].obj]]]
  BY DEF OpenTmp
<1>2. /\ w \in Queued /\ w \in InFlight /\ write[w].obj \in Obj
      /\ UNCHANGED <<cache, heap, dirty, turn, ended, file, phase, awaiting, stopped, worker>>
  BY DEF OpenTmp, Queued, InFlight, PInv, memory, process
<1>3. upset' = "none" => upset = "none" /\ Active = {}
  BY DEF OpenTmp, Mishap, Active
<1>4. Open' = Open /\ InFlight' = InFlight
  BY <1>1, <1>2 DEF Open, InFlight, PInv
<1>5. Skeleton'
  <2>1. Running /\ worker # "unborn"
    BY <1>2 DEF Skeleton, DownInv, BirthInv
  <2> QED
    BY <1>2, <1>4, <2>1 DEF Skeleton, RestTypes, BirthInv, RunsRecent, DownInv, Running
<1>6. ASSUME upset' = "none" PROVE WriteThrough'
  <2> USE <1>3, <1>6 DEF WriteThrough
  <2>1. /\ tmp = Nil /\ i # Nil /\ i # file /\ cache # Nil /\ write[w].obj = cache
        /\ heap[cache] \in Content
    BY <1>1, <1>2 DEF OneFile, FreeInode, HeldInv, PInv
  <2>2. /\ Active' = {w} /\ Queued' = Queued \ {w} /\ w \notin Queued'
        /\ write'[w].pc = "fill" /\ write'[w].inode = i /\ write'[w].data = heap[cache]
        /\ \A v \in Queued' : write'[v] = write[v]
    BY <1>1, <1>2, <1>3, <2>1 DEF Active, Queued, PInv
  <2>3. /\ inode'[i] = Torn
        /\ file # Nil => inode'[file] = inode[file]
        /\ FileTurns' = FileTurns
    BY <1>1, <1>2, <2>1 DEF PInv, FileTurns, Readable, Answered
  <2>4. HeldInv'
    BY <1>2, <1>4, <2>1, <2>2 DEF HeldInv
  <2>5. OneFile'
    BY <1>1, <1>2, <2>1, <2>2, <2>3 DEF OneFile
  <2>6. GrowInv' /\ EndedInv' /\ FreshInv'
    BY <1>2, <1>4, <2>1, <2>2, <2>3 DEF GrowInv, EndedInv, FreshInv, Running, Skeleton, DownInv
  <2>7. StopInv'
    <3>1. \A v \in Writer : Carries(v) /\ v # w => Carries(v)'
      BY <1>2, <1>3, <2>2 DEF Carries, Queued
    <3>2. stopped \subseteq ended => Carries(w)'
      <4>1. ended \subseteq Answered(heap[cache])
        BY <1>2, <2>1 DEF EndedInv, Skeleton, DownInv
      <4> QED
        BY <1>2, <2>2, <4>1 DEF Carries
    <3> QED
      BY <1>2, <2>3, <3>1, <3>2 DEF StopInv
  <2> QED
    BY <2>4, <2>5, <2>6, <2>7
<1> QED
  BY <1>5, <1>6

(* Fill puts the whole of it in the file, which no other write has open.   *)
LEMMA FillThrough ==
  ASSUME SInv, NEW w \in Writer, Fill(w)
  PROVE  Skeleton' /\ (upset' = "none" => WriteThrough')
<1> USE SessionAssumption DEF SInv
<1>1. /\ w \in InFlight /\ w \in Active /\ write[w].pc = "fill"
      /\ write' = [write EXCEPT ![w].pc = "rename"]
      /\ UNCHANGED <<cache, heap, dirty, turn, ended, tmp, file, phase, awaiting, stopped, worker,
                     upset>>
  BY DEF Fill, InFlight, Active, memory, process
<1>2. /\ Open' = Open /\ InFlight' = InFlight /\ Active' = Active /\ Queued' = Queued
      /\ \A v \in Writer : /\ write'[v].data = write[v].data /\ write'[v].inode = write[v].inode
                           /\ write'[v].obj = write[v].obj
                           /\ v # w => write'[v] = write[v]
      /\ write'[w].pc = "rename"
  BY <1>1 DEF Open, InFlight, Active, Queued, PInv
<1>3. Skeleton'
  BY <1>1, <1>2 DEF Skeleton, RestTypes, BirthInv, RunsRecent, DownInv, Running
<1>4. ASSUME upset = "none" PROVE WriteThrough'
  <2> USE <1>4 DEF WriteThrough
  <2>1. /\ tmp = write[w].inode /\ tmp \in Inode /\ tmp # file /\ inode[tmp] = Torn
        /\ write[w].data \in Content
    BY <1>1 DEF OneFile, PInv
  <2>2. inode' = [inode EXCEPT ![tmp] = write[w].data]
    BY <2>1 DEF Fill
  <2>3. /\ inode'[tmp] = write[w].data
        /\ file # Nil => inode'[file] = inode[file]
        /\ FileTurns' = FileTurns
    BY <1>1, <2>1, <2>2 DEF PInv, FileTurns, Readable, Answered
  <2>4. HeldInv'
    BY <1>1, <1>2 DEF HeldInv, Queued
  <2>5. OneFile'
    BY <1>1, <1>2, <2>1, <2>3 DEF OneFile
  <2>6. GrowInv' /\ EndedInv' /\ FreshInv'
    BY <1>1, <1>2, <2>3 DEF GrowInv, EndedInv, FreshInv, Running, Active
  <2>7. StopInv'
    <3>1. \A v \in Writer : Carries(v) => Carries(v)'
      BY <1>1, <1>2 DEF Carries
    <3> QED
      BY <1>1, <2>3, <3>1 DEF StopInv
  <2> QED
    BY <2>4, <2>5, <2>6, <2>7
<1> QED
  BY <1>1, <1>3, <1>4

(* Rename makes it the session's file, and nobody has to wait for it.      *)
LEMMA RenameThrough ==
  ASSUME SInv, NEW w \in Writer, Rename(w)
  PROVE  Skeleton' /\ (upset' = "none" => WriteThrough')
<1> USE SessionAssumption DEF SInv
<1>1. /\ w \in InFlight /\ w \in Active /\ write[w].pc = "rename"
      /\ write' = [write EXCEPT ![w] = NoWrite] /\ awaiting' = awaiting \ {w} /\ tmp' = Nil
      /\ UNCHANGED <<cache, heap, dirty, turn, ended, phase, stopped, worker, upset>>
  BY DEF Rename, InFlight, Active, memory
<1>2. /\ Open' = Open /\ InFlight' = InFlight \ {w} /\ Active' = Active \ {w} /\ Queued' = Queued
      /\ \A v \in Writer : v # w => write'[v] = write[v]
  BY <1>1 DEF Open, InFlight, Active, Queued, PInv, NoWrite
<1>3. Skeleton'
  <2>1. Running /\ worker # "unborn"
    BY <1>1 DEF Skeleton, DownInv, BirthInv
  <2> QED
    BY <1>1, <1>2, <2>1 DEF Skeleton, RestTypes, BirthInv, RunsRecent, DownInv, Running
<1>4. ASSUME upset = "none" PROVE WriteThrough'
  <2> USE <1>4 DEF WriteThrough
  <2>1. /\ tmp # Nil /\ tmp # file /\ tmp \in Inode /\ inode[tmp] = write[w].data
        /\ write[w].data \in Content /\ cache # Nil /\ Active' = {} /\ w \notin Queued
    BY <1>1, <1>2 DEF OneFile, PInv, HeldInv, Queued
  <2>2. file' = tmp /\ inode'[file'] = write[w].data /\ file' # Nil
    BY <2>1 DEF Rename
  <2>3. FileTurns' = Answered(write[w].data) /\ FileTurns \subseteq FileTurns'
    <3>1. FileTurns' = Answered(write[w].data)
      BY <2>1, <2>2 DEF FileTurns, Readable, Answered
    <3> QED
      BY <1>1, <2>1, <3>1 DEF GrowInv
  <2>4. HeldInv'
    BY <1>1, <1>2, <2>1 DEF HeldInv, Queued
  <2>5. OneFile'
    BY <1>1, <2>1, <2>2 DEF OneFile
  <2>6. GrowInv' /\ EndedInv' /\ FreshInv'
    BY <1>1, <1>2, <2>1, <2>2, <2>3 DEF GrowInv, EndedInv, FreshInv, Running, Active
  <2>7. StopInv'
    <3>1. Carries(w) => stopped \subseteq FileTurns'
      BY <1>1, <2>1, <2>3 DEF Carries
    <3>2. \A v \in Writer : Carries(v) /\ v # w => Carries(v)'
      BY <1>1, <1>2 DEF Carries
    <3> QED
      BY <1>1, <2>3, <3>1, <3>2 DEF StopInv
  <2> QED
    BY <2>4, <2>5, <2>6, <2>7
<1> QED
  BY <1>1, <1>3, <1>4

(* A sweep evicts only what is idle, and until a mishap only what the file *)
(* says too.                                                               *)
LEMMA SweepThrough ==
  ASSUME SInv, Sweep
  PROVE  Skeleton' /\ (upset' = "none" => WriteThrough')
<1> USE SessionAssumption DEF SInv
<1>1. /\ cache \in Obj /\ cache # Nil /\ Running /\ heap[cache] \in Content
      /\ UNCHANGED <<turn, ended, inode, tmp, file, phase, awaiting, stopped, worker>>
  BY DEF Sweep, Serving, Running, PInv, process
<1>2. Open' = Open /\ FileTurns' = FileTurns
  BY <1>1, SameSets
<1>3. worker # "unborn"
  BY <1>1 DEF Skeleton, BirthInv
<1>4. CASE heap[cache].recent
  <2>1. /\ cache' = cache /\ write' = write /\ upset' = upset /\ dirty' = TRUE
        /\ heap'[cache].said = heap[cache].said /\ heap'[cache].recent = heap[cache].recent
    <3>1. PICK timedOut \in BOOLEAN :
            heap' = [heap EXCEPT ![cache] =
                      [heap[cache] EXCEPT !.infer = IF timedOut THEN "failed" ELSE heap[cache].infer]]
      BY DEF Sweep
    <3>2. /\ heap'[cache].said = heap[cache].said
          /\ heap'[cache].recent = heap[cache].recent
      BY <1>1, <3>1 DEF PInv, Content
    <3> QED
      BY <1>4, <3>2 DEF Sweep
  <2>2. Skeleton'
    BY <1>1, <1>2, <1>3, <1>4, <2>1
       DEF Skeleton, RestTypes, BirthInv, RunsRecent, DownInv, Running
  <2>3. ASSUME upset = "none" PROVE WriteThrough'
    <3>1. Answered(heap[cache]) \subseteq Answered(heap'[cache])
      BY <2>1, AnsweredGrows
    <3>2. \A u \in Open' : turn'[u].obj = cache
      BY <1>1, <1>2, <2>3 DEF WriteThrough, HeldInv
    <3>3. UNCHANGED <<cache, disk, process>>
      BY <2>1 DEF Sweep, disk
    <3> QED
      BY <1>1, <2>1, <2>3, <3>1, <3>2, <3>3, GrowStep
  <2> QED
    BY <2>1, <2>2, <2>3
<1>5. CASE ~heap[cache].recent
  <2>1. worker # "running" /\ heap[cache].infer # "processing"
    BY <1>1, <1>5 DEF Skeleton, RunsRecent, PInv, NoOrphanProcessing
  <2>2. /\ cache' = Nil /\ dirty' = FALSE
        /\ IF dirty THEN \E w \in Writer \ InFlight : StartWrite(w) ELSE UNCHANGED write
        /\ IF CacheInUse THEN Mishap("evicted in use") ELSE UNCHANGED upset
    BY <1>5, <2>1 DEF Sweep
  <2>3. Skeleton'
    BY <1>1, <1>2, <1>3, <2>1, <2>2
       DEF Skeleton, RestTypes, BirthInv, RunsRecent, DownInv, Running
  <2>4. ASSUME upset' = "none" PROVE WriteThrough'
    <3>1. upset = "none" /\ ~dirty /\ InFlight = {} /\ \A t \in Open : turn[t].obj # cache
      BY <2>2, <2>4 DEF Mishap, CacheInUse
    <3> USE <3>1 DEF WriteThrough
    <3>2. /\ Open = {} /\ Active = {} /\ Queued = {} /\ write' = write
      BY <2>2 DEF HeldInv, InFlight, Active, Queued
    <3>3. InFlight' = {} /\ Active' = {} /\ Queued' = {}
      BY <3>2, SameSets
    <3>4. ended \subseteq FileTurns
      BY <1>1, <3>2 DEF FreshInv
    <3>5. HeldInv' /\ OneFile'
      BY <1>1, <1>2, <2>2, <3>2, <3>3 DEF HeldInv, OneFile
    <3>6. GrowInv' /\ EndedInv' /\ FreshInv'
      BY <1>1, <1>2, <2>2, <3>4 DEF GrowInv, EndedInv, FreshInv
    <3>7. StopInv'
      <4>1. \A w : ~Carries(w)
        BY <3>2 DEF Carries
      <4> QED
        BY <1>1, <1>2, <4>1 DEF StopInv
    <3> QED
      BY <3>5, <3>6, <3>7
  <2> QED
    BY <2>3, <2>4
<1> QED
  BY <1>4, <1>5

(* A day ages the object and the file alike.                               *)
LEMMA DayThrough ==
  ASSUME SInv, DayPasses
  PROVE  Skeleton' /\ (upset' = "none" => WriteThrough')
<1> USE SessionAssumption DEF SInv
<1>1. /\ ~dirty /\ Open = {} /\ InFlight = {} /\ Active = {} /\ Queued = {} /\ worker # "running"
      /\ phase \in {"up", "exited", "crashed"}
      /\ UNCHANGED <<cache, dirty, turn, ended, write, tmp, file, phase, awaiting, stopped, worker,
                     upset>>
  BY DEF DayPasses, process, InFlight, Active, Queued
<1>2. Open' = {} /\ InFlight' = {} /\ Active' = {} /\ Queued' = {}
  BY <1>1, SameSets
<1>3. \A c \in Content : [c EXCEPT !.recent = FALSE].said = c.said /\ [c EXCEPT !.recent = FALSE] \in Content
  BY DEF Content
<1>4. /\ cache # Nil => heap'[cache] = [heap[cache] EXCEPT !.recent = FALSE] /\ heap[cache] \in Content
      /\ file # Nil /\ inode[file] # Torn =>
           inode'[file] = [inode[file] EXCEPT !.recent = FALSE] /\ inode[file] \in Content
      /\ file # Nil /\ inode[file] = Torn => inode'[file] = Torn
  BY DEF DayPasses, PInv
<1>5. cache # Nil => Answered(heap'[cache]) = Answered(heap[cache])
  BY <1>3, <1>4 DEF Answered
<1>6. FileTurns' = FileTurns
  <2>1. CASE Readable
    <3>1. file # Nil /\ inode[file] # Torn
      BY <2>1 DEF Readable
    <3>2. inode'[file].said = inode[file].said /\ inode'[file] # Torn
      BY <1>3, <1>4, <3>1
    <3> QED
      BY <1>1, <2>1, <3>1, <3>2 DEF FileTurns, Readable, Answered
  <2>2. CASE ~Readable
    BY <1>1, <1>4, <2>2 DEF FileTurns, Readable
  <2> QED
    BY <2>1, <2>2
<1>7. Skeleton'
  BY <1>1, <1>2 DEF Skeleton, RestTypes, BirthInv, RunsRecent, DownInv, Running
<1>8. ASSUME upset = "none" PROVE WriteThrough'
  <2> USE <1>8 DEF WriteThrough
  <2>1. HeldInv'
    BY <1>1, <1>2 DEF HeldInv
  <2>2. OneFile'
    BY <1>1, <1>2, <1>3, <1>4 DEF OneFile
  <2>3. GrowInv' /\ EndedInv'
    BY <1>1, <1>2, <1>5, <1>6 DEF GrowInv, EndedInv, Running
  <2>4. FreshInv'
    BY <1>1, <1>2, <1>4, <1>6 DEF FreshInv, OneFile
  <2>5. StopInv'
    BY <1>1, <1>6 DEF StopInv
  <2> QED
    BY <2>1, <2>2, <2>3, <2>4, <2>5
<1> QED
  BY <1>1, <1>7, <1>8

(* The shutdown goes on only when what it awaited is written.              *)
LEMMA ShutdownThrough ==
  ASSUME SInv, Settle \/ Close
  PROVE  Skeleton' /\ (upset' = "none" => WriteThrough')
<1> USE SessionAssumption DEF SInv
<1>1. /\ UNCHANGED <<cache, heap, dirty, turn, ended, write, inode, tmp, file, stopped, worker, upset>>
      /\ Running /\ Running' /\ awaiting = {}
      /\ \/ phase = "flushing" /\ phase' = "settling" /\ awaiting' = InFlight
         \/ phase = "settling" /\ phase' = "closing" /\ awaiting' = {}
  BY DEF Settle, Close, memory, disk, Running
<1>2. /\ InFlight' = InFlight /\ Active' = Active /\ Queued' = Queued /\ FileTurns' = FileTurns
      /\ Open' = Open
  BY <1>1, SameSets
<1>3. Skeleton'
  BY <1>1, <1>2 DEF Skeleton, RestTypes, BirthInv, RunsRecent, DownInv
<1>4. ASSUME upset = "none" PROVE WriteThrough'
  <2> USE <1>4 DEF WriteThrough
  <2>1. HeldInv' /\ OneFile'
    BY <1>1, <1>2 DEF HeldInv, OneFile
  <2>2. GrowInv' /\ EndedInv' /\ FreshInv'
    BY <1>1, <1>2 DEF GrowInv, EndedInv, FreshInv
  <2>3. StopInv'
    <3>1. \A w \in Writer : Carries(w) => w \in InFlight /\ Carries(w)'
      BY <1>1, <1>2 DEF Carries, Queued, Active, InFlight
    <3> QED
      BY <1>1, <1>2, <3>1 DEF StopInv
  <2> QED
    BY <2>1, <2>2, <2>3
<1> QED
  BY <1>1, <1>3, <1>4

(* Of a process that ends only the file is left.                           *)
LEMMA DeathThrough ==
  ASSUME SInv, Exit \/ Crash
  PROVE  Skeleton' /\ (upset' = "none" => WriteThrough')
<1> USE SessionAssumption DEF SInv
<1>1. PICK as \in {"exited", "crashed"} : Running /\ Die(as) /\ (as = "exited" => phase = "closing")
  BY DEF Exit, Crash, Running
<1>2. /\ cache' = Nil /\ ~dirty' /\ tmp' = Nil /\ awaiting' = {}
      /\ phase' = as /\ UNCHANGED <<file, upset, ended, stopped>>
      /\ file # Nil => inode'[file] = inode[file]
      /\ worker' \in {"unborn", "gone"} /\ (worker' = "unborn" => worker = "unborn")
  BY <1>1 DEF Die, PInv, Skeleton, RestTypes
<1>3. InFlight' = {} /\ Active' = {} /\ Queued' = {} /\ Open' = {}
  BY <1>1 DEF Die, InFlight, Active, Queued, Open, NoWrite
<1>4. FileTurns' = FileTurns
  BY <1>2 DEF FileTurns, Readable, Answered
<1>5. Skeleton'
  <2>1. RestTypes'
    BY <1>1, <1>2 DEF Skeleton, RestTypes, Die
  <2>2. BirthInv' /\ RunsRecent' /\ DownInv'
    BY <1>2, <1>3 DEF Skeleton, BirthInv, RunsRecent, DownInv
  <2> QED
    BY <2>1, <2>2 DEF Skeleton
<1>6. ASSUME upset = "none" PROVE WriteThrough'
  <2> USE <1>6 DEF WriteThrough
  <2>1. HeldInv' /\ OneFile'
    BY <1>2, <1>3 DEF HeldInv, OneFile
  <2>2. GrowInv' /\ EndedInv' /\ FreshInv'
    BY <1>1, <1>2 DEF GrowInv, EndedInv, FreshInv, Running
  <2>3. StopInv'
    BY <1>1, <1>2, <1>4 DEF StopInv
  <2> QED
    BY <2>1, <2>2, <2>3
<1> QED
  BY <1>2, <1>5, <1>6

(* The reaper rewrites a flag; what is on the file stays.                  *)
LEMMA BootThrough ==
  ASSUME SInv, Boot
  PROVE  Skeleton' /\ (upset' = "none" => WriteThrough')
<1> USE SessionAssumption DEF SInv
<1>1. /\ phase \in {"exited", "crashed"} /\ phase' = "up" /\ stopped' = {}
      /\ ended' = ended \cap FileTurns
      /\ UNCHANGED <<cache, heap, dirty, turn, write, tmp, file, worker, awaiting>>
  BY DEF Boot
<1>2. /\ cache = Nil /\ InFlight = {} /\ Open = {} /\ ~dirty /\ tmp = Nil /\ Active = {} /\ Queued = {}
  BY <1>1 DEF Skeleton, DownInv, Running, InFlight, Active, Queued
<1>3. InFlight' = {} /\ Active' = {} /\ Queued' = {} /\ Open' = {}
  BY <1>1, <1>2, SameSets
<1>4. Skeleton'
  BY <1>1, <1>2, <1>3 DEF Skeleton, RestTypes, BirthInv, RunsRecent, DownInv, Running
<1>5. ASSUME upset' = "none" PROVE WriteThrough'
  <2>1. upset = "none" /\ \/ inode' = inode
                          \/ Readable /\ inode' = [inode EXCEPT ![file] = Reaped(@)]
    BY <1>5 DEF Boot, Mishap
  <2> USE <2>1 DEF WriteThrough
  <2>2. Readable => file # Nil /\ file \in Inode /\ inode[file] \in Content
    BY DEF Readable, PInv
  <2>3. \A c \in Content : Reaped(c) \in Content /\ Reaped(c).said = c.said
    BY Contents DEF Reaped, Content
  <2>4. FileTurns' = FileTurns /\ (file # Nil => inode'[file] # Torn)
    <3>1. CASE inode' = inode
      BY <1>1, <3>1, SameSets DEF OneFile
    <3>2. CASE Readable /\ inode' = [inode EXCEPT ![file] = Reaped(@)]
      <4>1. inode'[file] = Reaped(inode[file])
        BY <2>2, <3>2 DEF PInv
      <4> QED
        BY <1>1, <2>2, <2>3, <3>2, <4>1 DEF FileTurns, Readable, Answered
    <3> QED
      BY <2>1, <3>1, <3>2
  <2>5. HeldInv' /\ OneFile'
    BY <1>1, <1>2, <1>3, <2>4 DEF HeldInv, OneFile
  <2>6. GrowInv' /\ EndedInv' /\ FreshInv'
    BY <1>1, <1>2, <2>4 DEF GrowInv, EndedInv, FreshInv
  <2>7. StopInv'
    BY <1>1 DEF StopInv
  <2> QED
    BY <2>5, <2>6, <2>7
<1> QED
  BY <1>4, <1>5

(* A failed write is a mishap.                                             *)
LEMMA WriteFailsThrough ==
  ASSUME SInv, NEW w \in Writer, WriteFails(w)
  PROVE  Skeleton' /\ (upset' = "none" => WriteThrough')
<1> USE SessionAssumption DEF SInv
<1>1. /\ w \in InFlight /\ write' = [write EXCEPT ![w] = NoWrite] /\ upset' # "none"
      /\ UNCHANGED <<cache, heap, dirty, turn, ended, tmp, file, phase, worker>>
  BY DEF WriteFails, Mishap, InFlight, memory
<1>2. Open' = Open /\ Running /\ worker # "unborn"
  BY <1>1, SameSets DEF Skeleton, DownInv, BirthInv
<1>3. Skeleton'
  BY <1>1, <1>2 DEF Skeleton, RestTypes, BirthInv, RunsRecent, DownInv, Running
<1> QED
  BY <1>1, <1>3

-----------------------------------------------------------------------------
(* Every step keeps the invariant.                                         *)
LEMMA SessionStep == SInv /\ [Next]_vars => SInv'
<1>1. ASSUME SInv, UNCHANGED vars PROVE SInv'
  BY <1>1 DEF SInv, vars, PInv, Skeleton, RestTypes, BirthInv, RunsRecent, DownInv, WriteThrough, HeldInv,
     OneFile, GrowInv, FreshInv, EndedInv, StopInv, Carries, NoOrphanProcessing, Running, InFlight, Active,
     Queued, Open, FileTurns, Readable, Answered
<1>2. ASSUME SInv, Next PROVE PInv'
  BY <1>2, RequestsKeep, WritesKeep, RestKeeps DEF SInv, Next
<1>3. ASSUME SInv, Next PROVE Skeleton' /\ (upset' = "none" => WriteThrough')
  BY <1>3, CreateThrough, HydrateThrough, RequestsThrough, BeginWriteThrough, OpenTmpThrough, FillThrough,
     RenameThrough, WriteFailsThrough, SweepThrough, DayThrough, ShutdownThrough, DeathThrough, BootThrough
     DEF Next, Writing
<1> QED
  BY <1>1, <1>2, <1>3 DEF SInv

(* The session starts unborn. *)
LEMMA SessionStart == Init => SInv
<1> SUFFICES ASSUME Init PROVE SInv
  OBVIOUS
<1>1. InFlight = {} /\ Active = {} /\ Queued = {} /\ Open = {} /\ FileTurns = {}
  BY DEF Init, InFlight, Active, Queued, Open, FileTurns, Readable, NoWrite
<1>2. PInv
  BY SessionAssumption, Contents DEF Init, PInv, NoWrite, NoOrphanProcessing
<1>3. Skeleton
  BY <1>1 DEF Init, Skeleton, RestTypes, BirthInv, RunsRecent, DownInv, Running
<1>4. WriteThrough
  BY <1>1 DEF Init, WriteThrough, HeldInv, OneFile, GrowInv, FreshInv, EndedInv, StopInv
<1> QED
  BY <1>2, <1>3, <1>4 DEF SInv

(* The cache and the file agree until the first mishap: nothing that ended *)
(* is lost by coalesced writes, eviction, return or reaping, and when      *)
(* write-through is at rest the file says what the object says.            *)
THEOREM CacheIsOverFile == Spec => []CacheAndFileAgree
<1>1. SInv => CacheAndFileAgree
  <2> SUFFICES ASSUME SInv, upset = "none" PROVE CacheAndFileAgree
    BY DEF CacheAndFileAgree, CacheOverFile, WriteThroughSettles
  <2>1. CacheOverFile
    BY DEF SInv, WriteThrough, EndedInv, CacheOverFile, Running
  <2>2. InFlight = {} => Active = {} /\ Queued = {}
    BY DEF InFlight, Active, Queued
  <2>3. WriteThroughSettles
    BY <2>2 DEF SInv, WriteThrough, FreshInv, WriteThroughSettles
  <2> QED
    BY <2>1, <2>3 DEF CacheAndFileAgree
<1> QED
  BY <1>1, SessionStart, SessionStep, PTL DEF Spec

(* What had ended when SIGTERM came is in the file when the process exits, *)
(* whichever writes were queued, half done or already replaced by then.    *)
THEOREM ShutdownLosesNothing == Spec => []ShutdownKeepsWhatEnded
<1>1. SInv => ShutdownKeepsWhatEnded
  BY DEF SInv, WriteThrough, StopInv, ShutdownKeepsWhatEnded
<1> QED
  BY <1>1, SessionStart, SessionStep, PTL DEF Spec
=============================================================================
