---------------------------- MODULE MemoryStore ----------------------------
(***************************************************************************)
(* The file-backed founder memory of services/memory-store-file.js: its    *)
(* directory lock (withLock, stealIfStale), the first-touch files it       *)
(* guards (founder.json, active-profile.json, a session's binding) and the *)
(* append-only transaction files of a profile.                             *)
(*                                                                         *)
(* A call is a chain of awaited file operations; calls of one API process  *)
(* interleave at every await, so each file operation is a step. A crash    *)
(* kills every call and leaves files and lock directories behind.          *)
(* Wall-clock age is abstracted to stale or not: a lock left by a dead     *)
(* holder ages past LOCK_STALE_MS, and one held by a live call may too (a  *)
(* stalled disk) where MayStall says so.                                   *)
(***************************************************************************)
EXTENDS Naturals, FiniteSets, FiniteSetsExt

CONSTANTS
  Call,         \* calls in flight
  Cell,         \* first-touch files
  PreChecked,   \* the cells whose existence is checked before locking too
  Value,        \* what a call may put in a cell: an id minted, a profile
  Tx,           \* transactions to append
  Log,          \* the lock of the profile's transactions (profile.lock)
  Nil,
  MayStall,     \* whether a live call may hold a lock past LOCK_STALE_MS
  MaxCrashes    \* bound: restarts of the API process

ASSUME MemoryAssumption ==
  /\ PreChecked \subseteq Cell
  /\ Log \notin Cell
  /\ Nil \notin Value \cup Tx
  /\ Value \cap Tx = {}
  /\ MayStall \in BOOLEAN
  /\ MaxCrashes \in Nat

Lock == Cell \cup {Log}

VARIABLES
  lock,      \* lock[l]: "free", "fresh" or "stale": the lock directory
  cell,      \* cell[k]: the file's content, Nil while it does not exist
  files,     \* transaction files, [seq, tx]: named `${seq}-${txId}.json`
  pc,        \* pc[p]: the file operation call p does next
  op,        \* op[p]: [lock, arg] p works on
  reg,       \* reg[p]: what p has read or will return
  acked,     \* history: <<k, v>>, the caller was told cell k holds v
  done,      \* history: transactions acknowledged to their caller
  seen,      \* history: seen[t], done when the append of t was called
  overtaken, \* history: a lock was removed under a live holder
  crashes

vars == <<lock, cell, files, pc, op, reg, acked, done, seen, overtaken, crashes>>

Pc == {"idle", "mkdir", "owner", "look", "steal", "read", "write", "release"}

(* Every file, lock and call is in a state the code can put it in. *)
TypeOK ==
  /\ lock \in [Lock -> {"free", "fresh", "stale"}]
  /\ cell \in [Cell -> Value \cup {Nil}]
  /\ files \subseteq [seq : Nat \ {0}, tx : Tx]
  /\ pc \in [Call -> Pc]
  /\ op \in [Call -> [lock : Cell, arg : Value]
                       \cup [lock : {Log}, arg : Tx \cup {Nil}]]
  /\ reg \in [Call -> Value \cup Nat \cup {Nil}]
  /\ acked \subseteq Cell \X Value
  /\ done \subseteq Tx
  /\ seen \in [Tx -> SUBSET Tx]
  /\ overtaken \in BOOLEAN
  /\ crashes \in 0..MaxCrashes

Init ==
  /\ lock = [l \in Lock |-> "free"]
  /\ cell = [k \in Cell |-> Nil]
  /\ files = {}
  /\ pc = [p \in Call |-> "idle"]
  /\ op = [p \in Call |-> [lock |-> Log, arg |-> Nil]]
  /\ reg = [p \in Call |-> Nil]
  /\ acked = {}
  /\ done = {}
  /\ seen = [t \in Tx |-> {}]
  /\ overtaken = FALSE
  /\ crashes = 0

-----------------------------------------------------------------------------

Goto(p, next) == pc' = [pc EXCEPT ![p] = next]

(* p believes it holds l: its mkdir succeeded and it has not let go.       *)
Holds(p, l) ==
  /\ op[p].lock = l
  /\ pc[p] \in {"owner", "read", "write", "release"}

HeldBy(l) == {p \in Call : Holds(p, l)}

(* getOrCreateFounder, getOrCreateActiveProfile, claimSessionForProfile:   *)
(* a file that exists is returned without locking where the code looks     *)
(* first, otherwise the call goes for the lock.                            *)
TouchCell(p, k, v) ==
  /\ pc[p] = "idle"
  /\ IF k \in PreChecked /\ cell[k] # Nil
       THEN acked' = acked \cup {<<k, cell[k]>>} /\ UNCHANGED <<pc, op>>
       ELSE /\ op' = [op EXCEPT ![p] = [lock |-> k, arg |-> v]]
            /\ Goto(p, "mkdir")
            /\ UNCHANGED acked
  /\ UNCHANGED <<lock, cell, files, reg, done, seen, overtaken, crashes>>

Started == {op[p].arg : p \in {q \in Call : pc[q] # "idle"}}
             \cup {f.tx : f \in files}

(* appendTransaction: a fresh txId per call. *)
CallAppend(p, t) ==
  /\ pc[p] = "idle"
  /\ t \notin Started
  /\ op' = [op EXCEPT ![p] = [lock |-> Log, arg |-> t]]
  /\ seen' = [seen EXCEPT ![t] = done]
  /\ Goto(p, "mkdir")
  /\ UNCHANGED <<lock, cell, files, reg, acked, done, overtaken, crashes>>

(* withLock: mkdir succeeds, or fails with EEXIST. *)
Mkdir(p) ==
  /\ pc[p] = "mkdir"
  /\ LET l == op[p].lock IN
       \/ /\ lock[l] = "free"
          /\ lock' = [lock EXCEPT ![l] = "fresh"]
          /\ Goto(p, "owner")
       \/ /\ lock[l] # "free"
          /\ Goto(p, "look")
          /\ UNCHANGED lock
  /\ UNCHANGED <<cell, files, op, reg, acked, done, seen, overtaken, crashes>>

(* withLock: owner.json dates the directory now. A write that fails (the   *)
(* directory was removed since the mkdir, or the disk is full) throws: it  *)
(* is not retried, and a directory that is there stays.                    *)
WriteOwner(p) ==
  /\ pc[p] = "owner"
  /\ LET l == op[p].lock IN
       \/ /\ lock[l] # "free"
          /\ lock' = [lock EXCEPT ![l] = "fresh"]
          /\ Goto(p, "read")
       \/ /\ Goto(p, "idle")
          /\ UNCHANGED lock
  /\ UNCHANGED <<cell, files, op, reg, acked, done, seen, overtaken, crashes>>

(* withLock's retry: once more, or memory_lock_timeout after five seconds. *)
RetryOrTimeout(p) == \E next \in {"mkdir", "idle"} : Goto(p, next)

(* Mutant: no self-heal. *)
NeverStale(p) ==
  /\ pc[p] = "look"
  /\ RetryOrTimeout(p)
  /\ UNCHANGED <<lock, cell, files, op, reg, acked, done, seen, overtaken, crashes>>

(* stealIfStale reads the age of the directory it found. *)
LookStale(p) ==
  /\ pc[p] = "look"
  /\ \/ lock[op[p].lock] = "stale" /\ Goto(p, "steal")
     \/ lock[op[p].lock] # "stale" /\ RetryOrTimeout(p)
  /\ UNCHANGED <<lock, cell, files, op, reg, acked, done, seen, overtaken, crashes>>

(* stealIfStale removes the path, whatever directory is there by now. *)
RemoveStale(p) ==
  /\ pc[p] = "steal"
  /\ lock' = [lock EXCEPT ![op[p].lock] = "free"]
  /\ overtaken' = (overtaken \/ HeldBy(op[p].lock) # {})
  /\ RetryOrTimeout(p)
  /\ UNCHANGED <<cell, files, op, reg, acked, done, seen, crashes>>

ReuseLastNumber == IF files = {} THEN 1 ELSE Max({f.seq : f \in files})

(* nextTransactionName: one more than the last file's number. *)
NextSeq == IF files = {} THEN 1 ELSE Max({f.seq : f \in files}) + 1

(* Mutant: the loser does not look again inside the lock. *)
NoSecondLook(p) ==
  /\ pc[p] = "read"
  /\ reg' = [reg EXCEPT ![p] = IF op[p].lock = Log THEN NextSeq ELSE op[p].arg]
  /\ Goto(p, "write")
  /\ UNCHANGED <<lock, cell, files, op, acked, done, seen, overtaken, crashes>>

(* The locked section begins: look again for the cell, or take a number.   *)
LockedRead(p) ==
  /\ pc[p] = "read"
  /\ LET l == op[p].lock IN
       \/ /\ l \in Cell /\ cell[l] # Nil
          /\ reg' = [reg EXCEPT ![p] = cell[l]]
          /\ Goto(p, "release")
       \/ /\ l \in Cell /\ cell[l] = Nil
          /\ reg' = [reg EXCEPT ![p] = op[p].arg]
          /\ Goto(p, "write")
       \/ /\ l = Log
          /\ reg' = [reg EXCEPT ![p] = NextSeq]
          /\ Goto(p, "write")
  /\ UNCHANGED <<lock, cell, files, op, acked, done, seen, overtaken, crashes>>

(* writeJsonAtomic: temporary file, fsync, rename: all or nothing. *)
LockedWrite(p) ==
  /\ pc[p] = "write"
  /\ LET l == op[p].lock IN
       \/ /\ l \in Cell
          /\ cell' = [cell EXCEPT ![l] = reg[p]]
          /\ UNCHANGED files
       \/ /\ l = Log
          /\ files' = files \cup {[seq |-> reg[p], tx |-> op[p].arg]}
          /\ UNCHANGED cell
  /\ Goto(p, "release")
  /\ UNCHANGED <<lock, op, reg, acked, done, seen, overtaken, crashes>>

Unlock(p, l) ==
  /\ lock' = [lock EXCEPT ![l] = "free"]
  /\ overtaken' = (overtaken \/ HeldBy(l) \ {p} # {})
  /\ Goto(p, "idle")
  /\ reg' = [reg EXCEPT ![p] = Nil]

(* A write that fails leaves through the finally, unlocked, with an error, *)
(* and so does a snapshot that fails after its transaction was written.    *)
LockedFail(p) ==
  /\ pc[p] = "write" \/ (pc[p] = "release" /\ op[p].lock = Log)
  /\ Unlock(p, op[p].lock)
  /\ UNCHANGED <<cell, files, op, acked, done, seen, crashes>>

(* The finally removes the lock path and the caller gets its answer.       *)
Release(p) ==
  /\ pc[p] = "release"
  /\ LET l == op[p].lock IN
       /\ Unlock(p, l)
       /\ acked' = IF l = Log THEN acked ELSE acked \cup {<<l, reg[p]>>}
       /\ done' = IF l = Log THEN done \cup {op[p].arg} ELSE done
  /\ UNCHANGED <<cell, files, op, seen, crashes>>

(* LOCK_STALE_MS passes over a lock directory. *)
Age(l) ==
  /\ lock[l] = "fresh"
  /\ MayStall \/ HeldBy(l) = {}
  /\ lock' = [lock EXCEPT ![l] = "stale"]
  /\ UNCHANGED <<cell, files, pc, op, reg, acked, done, seen, overtaken, crashes>>

(* The process dies and is started again: every call is gone. *)
Crash ==
  /\ crashes < MaxCrashes
  /\ \E p \in Call : pc[p] # "idle"
  /\ crashes' = crashes + 1
  /\ pc' = [p \in Call |-> "idle"]
  /\ reg' = [p \in Call |-> Nil]
  /\ UNCHANGED <<lock, cell, files, op, acked, done, seen, overtaken>>

Step(p) ==
  \/ Mkdir(p) \/ WriteOwner(p) \/ LookStale(p) \/ RemoveStale(p)
  \/ LockedRead(p) \/ LockedWrite(p) \/ Release(p)

Next ==
  \/ \E p \in Call, k \in Cell, v \in Value : TouchCell(p, k, v)
  \/ \E p \in Call, t \in Tx : CallAppend(p, t)
  \/ \E p \in Call : Step(p)
  \/ \E p \in Call : LockedFail(p)
  \/ \E l \in Lock : Age(l)
  \/ Crash

Spec == Init /\ [][Next]_vars

(* The event loop runs every call's next operation, time passes, and       *)
(* clients keep calling.                                                   *)
FairSpec ==
  /\ Spec
  /\ \A p \in Call : WF_vars(Step(p))
  /\ \A l \in Lock : WF_vars(Age(l))
  /\ \A k \in Cell : SF_vars(\E p \in Call, v \in Value : TouchCell(p, k, v))

-----------------------------------------------------------------------------
(* Properties.                                                             *)

(* MEMFILE-RACE-001: every caller is told the same founder id, active      *)
(* profile or session binding, and the file keeps it, as long as no lock   *)
(* was removed under a live holder.                                        *)
OneWinnerUnlessOvertaken ==
  ~overtaken => \A a \in acked : cell[a[1]] = a[2]

(* Sequence numbers order the log: no two transactions share one, unless a *)
(* lock was removed under a live holder.                                   *)
SequenceUniqueUnlessOvertaken ==
  ~overtaken => \A f, g \in files : f.seq = g.seq => f = g

(* What the directory lock is for: one winner of a first touch, and one    *)
(* order of the log (withFileLock).                                        *)
LockSerializes == OneWinnerUnlessOvertaken /\ SequenceUniqueUnlessOvertaken

(* Whatever the locks do, an acknowledged transaction stays in the log and *)
(* replays after every transaction acknowledged before it was appended.    *)
ReplayKeepsRealTimeOrder ==
  \A t \in done :
    \E f \in files :
      /\ f.tx = t
      /\ \A g \in files : g.tx \in seen[t] => g.seq < f.seq

(* MEMFILE-RACE-001 (b): a lock nobody holds any more never wedges a cell: *)
(* while clients keep calling it is removed, or no call needs it again.    *)
SelfHeals ==
  \A k \in Cell :
    []<>(\/ lock[k] = "free"
         \/ HeldBy(k) # {}
         \/ k \in PreChecked /\ cell[k] # Nil)

-----------------------------------------------------------------------------
(* What the proofs need beside them.                                       *)

(* One holder at a time, and its lock directory is there. *)
LockInv ==
  ~overtaken =>
    \A l \in Lock : \A p, q \in HeldBy(l) : p = q /\ lock[l] # "free"

(* What a call writes to a cell or answers with is a value. *)
RegInv ==
  \A p \in Call :
    op[p].lock \in Cell /\ pc[p] \in {"write", "release"} => reg[p] \in Value

(* A holder about to write found the cell empty; one about to release will *)
(* answer with what the cell holds.                                        *)
CellInv ==
  ~overtaken =>
    /\ \A a \in acked : cell[a[1]] = a[2]
    /\ \A p \in Call : op[p].lock \in Cell =>
         /\ pc[p] = "write" => cell[op[p].lock] = Nil
         /\ pc[p] = "release" => cell[op[p].lock] = reg[p]

FileTx == {f.tx : f \in files}

Appending(p) == pc[p] # "idle" /\ op[p].lock = Log

(* A transaction is appended by one call, once; a number taken is above    *)
(* those of the files it must follow, and the last file has the highest.   *)
LogInv ==
  /\ \A p \in Call : Appending(p) =>
       /\ op[p].arg \in Tx
       /\ op[p].arg \in FileTx <=> pc[p] = "release"
       /\ \A q \in Call : Appending(q) /\ op[q].arg = op[p].arg => q = p
       /\ pc[p] = "write" =>
            /\ reg[p] \in Nat \ {0}
            /\ \A g \in files : g.tx \in seen[op[p].arg] => g.seq < reg[p]
  /\ done \subseteq FileTx
  /\ \A t \in Tx : seen[t] \subseteq done
  /\ \A f, g \in files : g.tx \in seen[f.tx] => g.seq < f.seq
  /\ files # {} => \E m \in files : \A f \in files : f.seq <= m.seq

(* While nobody is overtaken, a number taken is above those of all files.  *)
NumberInv ==
  ~overtaken =>
    /\ \A f, g \in files : f.seq = g.seq => f = g
    /\ \A p \in Call : pc[p] = "write" /\ op[p].lock = Log =>
         \A g \in files : g.seq < reg[p]

(* The inductive invariant. *)
IInv == TypeOK /\ RegInv /\ LockInv /\ CellInv /\ LogInv /\ NumberInv
=============================================================================
