------------------------- MODULE MemoryStoreProofs -------------------------
(***************************************************************************)
(* Proofs about MemoryStore, for any number of calls, cells, values,       *)
(* transactions and restarts: while no lock was removed under a live       *)
(* holder, first touch has one winner and sequence numbers are unique; and *)
(* whatever the locks do, the log keeps acknowledged transactions in the   *)
(* order in which they were acknowledged. And about CerLog, what that log  *)
(* keeps of a profile's CERs, for any number of CERs, partners, requests   *)
(* and sessions: its fold implements Cer, and shows the contact as the     *)
(* records themselves say.                                                 *)
(***************************************************************************)
EXTENDS MemoryStore, CerLog, SequenceTheorems, FiniteSetTheorems, TLAPS

(* What a call works on is a cell with a value, or the log with a          *)
(* transaction.                                                            *)
LEMMA OpType ==
  ASSUME TypeOK, NEW p \in Call
  PROVE  /\ op[p].lock \in Lock
         /\ op[p].lock \in Cell => op[p].arg \in Value
         /\ op[p].lock = Log => op[p].arg \in Tx \cup {Nil}
  BY MemoryAssumption DEF TypeOK, Lock

(* A set with a largest member: Max is above all of them. *)
LEMMA MaxIsAbove ==
  ASSUME NEW S \in SUBSET Nat, NEW m \in S, \A x \in S : x <= m
  PROVE  Max(S) \in S /\ \A x \in S : x <= Max(S)
<1>1. \E x \in S : \A y \in S : x >= y
  OBVIOUS
<1> QED
  BY <1>1 DEF Max

(* nextTransactionName's number is above every file's. *)
LEMMA NextSeqAbove ==
  ASSUME TypeOK, LogInv
  PROVE  NextSeq \in Nat \ {0} /\ \A f \in files : f.seq < NextSeq
<1>1. CASE files = {}
  BY <1>1 DEF NextSeq
<1>2. CASE files # {}
  <2> DEFINE S == {f.seq : f \in files}
  <2>1. PICK m \in files : \A f \in files : f.seq <= m.seq
    BY <1>2 DEF LogInv
  <2>2. S \in SUBSET Nat /\ m.seq \in S
    BY DEF TypeOK
  <2>3. \A x \in S : x <= m.seq
    BY <2>1
  <2> HIDE DEF S
  <2>4. Max(S) \in S /\ \A x \in S : x <= Max(S)
    BY <2>2, <2>3, MaxIsAbove
  <2>5. \A f \in files : f.seq \in S /\ f.seq \in Nat
    BY DEF S, TypeOK
  <2>6. NextSeq = Max(S) + 1
    BY <1>2 DEF NextSeq, S
  <2>7. Max(S) \in Nat
    BY <2>2, <2>4
  <2>8. NextSeq \in Nat \ {0}
    BY <2>6, <2>7
  <2>9. ASSUME NEW f \in files PROVE f.seq < NextSeq
    <3>1. f.seq <= Max(S) /\ f.seq \in Nat
      BY <2>4, <2>5
    <3> QED
      BY <3>1, <2>6, <2>7
  <2> QED
    BY <2>8, <2>9
<1> QED
  BY <1>1, <1>2

-----------------------------------------------------------------------------
(* Initially.                                                              *)

(* The invariant holds of an empty memory.                                 *)
LEMMA InitIInv == Init => IInv
<1> SUFFICES ASSUME Init PROVE IInv
  OBVIOUS
<1>1. TypeOK
  <2>1. [lock |-> Log, arg |-> Nil] \in [lock : {Log}, arg : Tx \cup {Nil}]
    OBVIOUS
  <2>2. op \in [Call -> [lock : Cell, arg : Value]
                          \cup [lock : {Log}, arg : Tx \cup {Nil}]]
    BY <2>1 DEF Init
  <2>3. 0 \in 0..MaxCrashes
    BY MemoryAssumption
  <2> QED
    BY <2>2, <2>3 DEF Init, TypeOK, Lock, Pc
<1>2. LockInv
  BY DEF Init, LockInv, HeldBy, Holds
<1>3. CellInv /\ NumberInv
  BY DEF Init, CellInv, NumberInv
<1>5. RegInv
  BY DEF Init, RegInv
<1>4. LogInv
  <2>1. \A p \in Call : ~Appending(p)
    BY DEF Init, Appending
  <2>2. files = {} /\ done = {} /\ \A t \in Tx : seen[t] = {}
    BY DEF Init
  <2> QED
    BY <2>1, <2>2 DEF LogInv
<1> QED
  BY <1>1, <1>2, <1>3, <1>4, <1>5 DEF IInv

-----------------------------------------------------------------------------
(* Types.                                                                  *)

(* A step keeps the types.                                                 *)
LEMMA TypeStep == TypeOK /\ RegInv /\ LogInv /\ [Next]_vars => TypeOK'
<1> SUFFICES ASSUME TypeOK, RegInv, LogInv, [Next]_vars PROVE TypeOK'
  OBVIOUS
<1> USE MemoryAssumption
<1>1. ASSUME NEW p \in Call, NEW k \in Cell, NEW v \in Value, TouchCell(p, k, v)
      PROVE  TypeOK'
  BY <1>1 DEF TypeOK, TouchCell, Goto, Pc
<1>2. ASSUME NEW p \in Call, NEW t \in Tx, CallAppend(p, t) PROVE TypeOK'
  BY <1>2 DEF TypeOK, CallAppend, Goto, Pc
<1>3. ASSUME NEW p \in Call, Mkdir(p) PROVE TypeOK'
  BY <1>3, OpType DEF TypeOK, Mkdir, Goto, Pc
<1>4. ASSUME NEW p \in Call, WriteOwner(p) PROVE TypeOK'
  BY <1>4, OpType DEF TypeOK, WriteOwner, Goto, Pc
<1>5. ASSUME NEW p \in Call, LookStale(p) PROVE TypeOK'
  BY <1>5, OpType DEF TypeOK, LookStale, RetryOrTimeout, Goto, Pc
<1>6. ASSUME NEW p \in Call, RemoveStale(p) PROVE TypeOK'
  BY <1>6, OpType DEF TypeOK, RemoveStale, RetryOrTimeout, Goto, Pc
<1>7. ASSUME NEW p \in Call, LockedRead(p) PROVE TypeOK'
  <2>1. PICK r \in Value \cup Nat : reg' = [reg EXCEPT ![p] = r]
    <3>1. CASE op[p].lock = Log
      <4>1. reg' = [reg EXCEPT ![p] = NextSeq]
        BY <1>7, <3>1 DEF LockedRead
      <4> QED
        BY <4>1, NextSeqAbove
    <3>2. CASE op[p].lock \in Cell
      <4>1. op[p].arg \in Value
        BY <3>2, OpType
      <4>2. cell[op[p].lock] \in Value \cup {Nil}
        BY <3>2 DEF TypeOK
      <4>3. \/ reg' = [reg EXCEPT ![p] = op[p].arg]
            \/ cell[op[p].lock] # Nil /\ reg' = [reg EXCEPT ![p] = cell[op[p].lock]]
        BY <1>7, <3>2 DEF LockedRead
      <4> QED
        BY <4>1, <4>2, <4>3
    <3> QED
      BY <3>1, <3>2, OpType DEF Lock
  <2>2. reg' \in [Call -> Value \cup Nat \cup {Nil}]
    BY <2>1 DEF TypeOK
  <2>3. pc' \in [Call -> Pc]
    BY <1>7 DEF TypeOK, LockedRead, Goto, Pc
  <2>4. UNCHANGED <<lock, cell, files, op, acked, done, seen, overtaken, crashes>>
    BY <1>7 DEF LockedRead
  <2> QED
    BY <2>2, <2>3, <2>4 DEF TypeOK
<1>8. ASSUME NEW p \in Call, LockedWrite(p) PROVE TypeOK'
  <2>1. CASE op[p].lock \in Cell
    BY <1>8, <2>1 DEF TypeOK, LockedWrite, Goto, Pc, RegInv
  <2>2. CASE op[p].lock = Log
    BY <1>8, <2>2 DEF TypeOK, LockedWrite, Goto, Pc, LogInv, Appending
  <2> QED
    BY <2>1, <2>2, OpType DEF Lock
<1>9. ASSUME NEW p \in Call, LockedFail(p) PROVE TypeOK'
  BY <1>9, OpType DEF TypeOK, LockedFail, Unlock, Goto, Pc
<1>10. ASSUME NEW p \in Call, Release(p) PROVE TypeOK'
  BY <1>10, OpType DEF TypeOK, Release, Unlock, Goto, Pc, LogInv, Appending,
     FileTx, RegInv
<1>11. ASSUME NEW l \in Lock, Age(l) PROVE TypeOK'
  BY <1>11 DEF TypeOK, Age
<1>12. CASE Crash
  BY <1>12 DEF TypeOK, Crash, Pc
<1>13. CASE UNCHANGED vars
  BY <1>13 DEF TypeOK, vars
<1> QED
  BY <1>1, <1>2, <1>3, <1>4, <1>5, <1>6, <1>7, <1>8, <1>9, <1>10, <1>11, <1>12,
     <1>13 DEF Next, Step

-----------------------------------------------------------------------------
(* Registers, the lock, and the cells.                                     *)

(* A step leaves only values to write or to answer with.                   *)
LEMMA RegStep == TypeOK /\ RegInv /\ [Next]_vars => RegInv'
<1> SUFFICES ASSUME TypeOK, RegInv, [Next]_vars PROVE RegInv'
  OBVIOUS
<1> USE MemoryAssumption DEF RegInv
<1>1. ASSUME NEW p \in Call, NEW k \in Cell, NEW v \in Value, TouchCell(p, k, v)
      PROVE  RegInv'
  BY <1>1 DEF TypeOK, TouchCell, Goto
<1>2. ASSUME NEW p \in Call, NEW t \in Tx, CallAppend(p, t) PROVE RegInv'
  BY <1>2 DEF TypeOK, CallAppend, Goto
<1>3. ASSUME NEW p \in Call, Mkdir(p) \/ WriteOwner(p) \/ LookStale(p)
      PROVE  RegInv'
  BY <1>3 DEF TypeOK, Mkdir, WriteOwner, LookStale, RetryOrTimeout, Goto
<1>4. ASSUME NEW p \in Call, RemoveStale(p) PROVE RegInv'
  BY <1>4 DEF TypeOK, RemoveStale, RetryOrTimeout, Goto
<1>5. ASSUME NEW p \in Call, LockedRead(p) PROVE RegInv'
  BY <1>5, OpType DEF TypeOK, LockedRead, Goto
<1>6. ASSUME NEW p \in Call, LockedWrite(p) PROVE RegInv'
  BY <1>6 DEF TypeOK, LockedWrite, Goto
<1>7. ASSUME NEW p \in Call, LockedFail(p) \/ Release(p) PROVE RegInv'
  BY <1>7 DEF TypeOK, LockedFail, Release, Unlock, Goto
<1>8. ASSUME NEW l \in Lock, Age(l) PROVE RegInv'
  BY <1>8 DEF Age
<1>9. CASE Crash
  BY <1>9 DEF Crash
<1>10. CASE UNCHANGED vars
  BY <1>10 DEF vars
<1> QED
  BY <1>1, <1>2, <1>3, <1>4, <1>5, <1>6, <1>7, <1>8, <1>9, <1>10 DEF Next, Step

(* A step lets nobody share a lock that is there.                          *)
LEMMA LockStep == TypeOK /\ LockInv /\ [Next]_vars => LockInv'
<1> SUFFICES ASSUME TypeOK, LockInv, [Next]_vars PROVE LockInv'
  OBVIOUS
<1> USE DEF LockInv, HeldBy, Holds
<1>1. ASSUME NEW p \in Call, NEW k \in Cell, NEW v \in Value, TouchCell(p, k, v)
      PROVE  LockInv'
  BY <1>1 DEF TypeOK, TouchCell, Goto
<1>2. ASSUME NEW p \in Call, NEW t \in Tx, CallAppend(p, t) PROVE LockInv'
  BY <1>2 DEF TypeOK, CallAppend, Goto
<1>3. ASSUME NEW p \in Call, Mkdir(p) PROVE LockInv'
  BY <1>3, OpType DEF TypeOK, Mkdir, Goto
<1>4. ASSUME NEW p \in Call, WriteOwner(p) PROVE LockInv'
  BY <1>4, OpType DEF TypeOK, WriteOwner, Goto
<1>5. ASSUME NEW p \in Call, LookStale(p) PROVE LockInv'
  BY <1>5 DEF TypeOK, LookStale, RetryOrTimeout, Goto
<1>6. ASSUME NEW p \in Call, RemoveStale(p) PROVE LockInv'
  <2> SUFFICES ASSUME ~overtaken' PROVE LockInv'
    OBVIOUS
  <2>1. ~overtaken /\ HeldBy(op[p].lock) = {}
    BY <1>6 DEF RemoveStale
  <2>2. \A q \in Call : Holds(q, op[p].lock)' => Holds(q, op[p].lock)
    BY <1>6 DEF TypeOK, RemoveStale, RetryOrTimeout, Goto
  <2>3. \A q \in Call, l \in Lock : Holds(q, l)' => Holds(q, l) /\ l # op[p].lock
    BY <1>6, <2>1, <2>2 DEF TypeOK, RemoveStale, RetryOrTimeout, Goto
  <2>4. \A l \in Lock : l # op[p].lock => lock'[l] = lock[l]
    BY <1>6 DEF TypeOK, RemoveStale
  <2> QED
    BY <2>1, <2>3, <2>4
<1>7. ASSUME NEW p \in Call, LockedRead(p) \/ LockedWrite(p) PROVE LockInv'
  BY <1>7 DEF TypeOK, LockedRead, LockedWrite, Goto
<1>8. ASSUME NEW p \in Call, LockedFail(p) \/ Release(p) PROVE LockInv'
  BY <1>8, OpType DEF TypeOK, LockedFail, Release, Unlock, Goto
<1>9. ASSUME NEW l \in Lock, Age(l) PROVE LockInv'
  BY <1>9 DEF TypeOK, Age
<1>10. CASE Crash
  BY <1>10 DEF TypeOK, Crash
<1>11. CASE UNCHANGED vars
  BY <1>11 DEF vars
<1> QED
  BY <1>1, <1>2, <1>3, <1>4, <1>5, <1>6, <1>7, <1>8, <1>9, <1>10, <1>11
     DEF Next, Step

(* A step keeps what holders found and what they were told.                *)
LEMMA CellStep ==
  TypeOK /\ RegInv /\ LockInv /\ CellInv /\ [Next]_vars => CellInv'
<1> SUFFICES ASSUME TypeOK, RegInv, LockInv, CellInv, [Next]_vars PROVE CellInv'
  OBVIOUS
<1> USE MemoryAssumption DEF CellInv
<1>1. ASSUME NEW p \in Call, NEW k \in Cell, NEW v \in Value, TouchCell(p, k, v)
      PROVE  CellInv'
  BY <1>1 DEF TypeOK, TouchCell, Goto
<1>2. ASSUME NEW p \in Call, NEW t \in Tx, CallAppend(p, t) PROVE CellInv'
  BY <1>2 DEF TypeOK, CallAppend, Goto
<1>3. ASSUME NEW p \in Call, Mkdir(p) \/ WriteOwner(p) \/ LookStale(p)
      PROVE  CellInv'
  BY <1>3 DEF TypeOK, Mkdir, WriteOwner, LookStale, RetryOrTimeout, Goto
<1>4. ASSUME NEW p \in Call, RemoveStale(p) PROVE CellInv'
  BY <1>4 DEF TypeOK, RemoveStale, RetryOrTimeout, Goto
<1>5. ASSUME NEW p \in Call, LockedRead(p) PROVE CellInv'
  BY <1>5, OpType DEF TypeOK, LockedRead, Goto
<1>6. ASSUME NEW p \in Call, LockedWrite(p) PROVE CellInv'
  <2>1. CASE op[p].lock = Log
    BY <1>6, <2>1 DEF TypeOK, LockedWrite, Goto
  <2>2. CASE op[p].lock \in Cell
    <3> DEFINE l == op[p].lock
    <3> SUFFICES ASSUME ~overtaken PROVE CellInv'
      BY <1>6 DEF LockedWrite
    <3>1. \A a \in acked : a[1] # l
      BY <1>6, <2>2 DEF LockedWrite, TypeOK
    <3>2. \A q \in Call \ {p} : op[q].lock = l => pc[q] \notin {"write", "release"}
      BY <1>6, <2>2 DEF LockInv, HeldBy, Holds, LockedWrite, Lock
    <3>3. cell' = [cell EXCEPT ![l] = reg[p]] /\ l \in Cell
      BY <1>6, <2>2 DEF LockedWrite
    <3>4. UNCHANGED <<op, reg, acked>> /\ pc' = [pc EXCEPT ![p] = "release"]
      BY <1>6 DEF LockedWrite, Goto
    <3> QED
      BY <2>2, <3>1, <3>2, <3>3, <3>4 DEF TypeOK
  <2> QED
    BY <2>1, <2>2, OpType DEF Lock
<1>7. ASSUME NEW p \in Call, LockedFail(p) PROVE CellInv'
  BY <1>7 DEF TypeOK, LockedFail, Unlock, Goto
<1>8. ASSUME NEW p \in Call, Release(p) PROVE CellInv'
  BY <1>8, OpType DEF TypeOK, Release, Unlock, Goto, Lock
<1>9. ASSUME NEW l \in Lock, Age(l) PROVE CellInv'
  BY <1>9 DEF Age
<1>10. CASE Crash
  BY <1>10 DEF Crash
<1>11. CASE UNCHANGED vars
  BY <1>11 DEF vars
<1> QED
  BY <1>1, <1>2, <1>3, <1>4, <1>5, <1>6, <1>7, <1>8, <1>9, <1>10, <1>11
     DEF Next, Step

-----------------------------------------------------------------------------
(* The log.                                                                *)

(* A step that leaves files, done and seen alone, and starts no append,    *)
(* keeps LogInv if it moves no call into or out of the final release.      *)
LEMMA LogUntouched ==
  ASSUME TypeOK, LogInv, UNCHANGED <<files, done, seen>>,
         \A p \in Call : Appending(p)' =>
           /\ Appending(p)
           /\ op'[p] = op[p]
           /\ pc'[p] = "release" <=> pc[p] = "release"
           /\ pc'[p] = "write" =>
                \/ pc[p] = "write" /\ reg'[p] = reg[p]
                \/ reg'[p] \in Nat \ {0} /\ \A f \in files : f.seq < reg'[p]
  PROVE  LogInv'
  BY DEF LogInv, FileTx

(* A step appends a transaction once, above those it must follow.          *)
LEMMA LogStep == TypeOK /\ LogInv /\ [Next]_vars => LogInv'
<1> SUFFICES ASSUME TypeOK, LogInv, [Next]_vars PROVE LogInv'
  OBVIOUS
<1> USE MemoryAssumption
<1>1. ASSUME NEW p \in Call, NEW k \in Cell, NEW v \in Value, TouchCell(p, k, v)
      PROVE  LogInv'
  BY <1>1, LogUntouched DEF TypeOK, TouchCell, Goto, Appending
<1>2. ASSUME NEW p \in Call, NEW t \in Tx, CallAppend(p, t) PROVE LogInv'
  <2>1. /\ UNCHANGED <<files, done, reg>>
        /\ seen' = [seen EXCEPT ![t] = done]
        /\ op' = [op EXCEPT ![p] = [lock |-> Log, arg |-> t]]
        /\ pc' = [pc EXCEPT ![p] = "mkdir"]
    BY <1>2 DEF CallAppend, Goto
  <2>2. t \notin FileTx /\ \A q \in Call : Appending(q) => op[q].arg # t
    BY <1>2 DEF CallAppend, Started, FileTx, Appending
  <2>3. \A q \in Call \ {p} :
          (Appending(q)' <=> Appending(q)) /\ op'[q] = op[q] /\ pc'[q] = pc[q]
    BY <2>1 DEF TypeOK, Appending
  <2>4. op'[p] = [lock |-> Log, arg |-> t] /\ pc'[p] = "mkdir"
    BY <2>1 DEF TypeOK
  <2>5. \A q \in Call : Appending(q)' =>
          /\ op'[q].arg \in Tx
          /\ op'[q].arg \in FileTx' <=> pc'[q] = "release"
          /\ \A r \in Call : Appending(r)' /\ op'[r].arg = op'[q].arg => r = q
    BY <2>1, <2>2, <2>3, <2>4 DEF LogInv, FileTx
  <2>6. \A f \in files : f.tx # t /\ seen'[f.tx] = seen[f.tx]
    BY <2>1, <2>2 DEF FileTx, TypeOK
  <2>7. ASSUME NEW q \in Call, Appending(q)', pc'[q] = "write"
        PROVE  /\ reg'[q] \in Nat \ {0}
               /\ \A g \in files' : g.tx \in seen'[op'[q].arg] => g.seq < reg'[q]
    <3>1. q # p /\ Appending(q) /\ pc[q] = "write" /\ op'[q] = op[q]
      BY <2>3, <2>4, <2>7
    <3>2. seen'[op[q].arg] = seen[op[q].arg]
      BY <3>1, <2>1, <2>2 DEF LogInv, TypeOK
    <3> QED
      BY <3>1, <3>2, <2>1 DEF LogInv
  <2>8. \A u \in Tx : seen'[u] \subseteq done'
    BY <2>1 DEF LogInv, TypeOK
  <2>9. \A f, g \in files' : g.tx \in seen'[f.tx] => g.seq < f.seq
    BY <2>1, <2>6 DEF LogInv
  <2>10. /\ done' \subseteq FileTx'
         /\ files' # {} => \E m \in files' : \A f \in files' : f.seq <= m.seq
    BY <2>1 DEF LogInv, FileTx
  <2> QED
    BY <2>5, <2>7, <2>8, <2>9, <2>10 DEF LogInv
<1>3. ASSUME NEW p \in Call, Mkdir(p) \/ WriteOwner(p) \/ LookStale(p)
      PROVE  LogInv'
  BY <1>3, LogUntouched DEF TypeOK, Mkdir, WriteOwner, LookStale, RetryOrTimeout,
     Goto, Appending
<1>4. ASSUME NEW p \in Call, RemoveStale(p) PROVE LogInv'
  BY <1>4, LogUntouched DEF TypeOK, RemoveStale, RetryOrTimeout, Goto, Appending
<1>5. ASSUME NEW p \in Call, LockedRead(p) PROVE LogInv'
  <2>1. CASE op[p].lock = Log
    BY <1>5, <2>1, LogUntouched, NextSeqAbove DEF TypeOK, LockedRead, Goto, Appending
  <2>2. CASE op[p].lock \in Cell
    BY <1>5, <2>2, LogUntouched DEF TypeOK, LockedRead, Goto, Appending
  <2> QED
    BY <2>1, <2>2, OpType DEF Lock
<1>7. ASSUME NEW p \in Call, LockedFail(p) PROVE LogInv'
  BY <1>7, LogUntouched DEF TypeOK, LockedFail, Unlock, Goto, Appending
<1>9. ASSUME NEW l \in Lock, Age(l) PROVE LogInv'
  BY <1>9, LogUntouched DEF Age, Appending
<1>10. CASE Crash
  BY <1>10, LogUntouched DEF Crash, Appending
<1>11. CASE UNCHANGED vars
  BY <1>11, LogUntouched DEF vars, Appending
<1>6. ASSUME NEW p \in Call, LockedWrite(p) PROVE LogInv'
  <2>1. CASE op[p].lock \in Cell
    BY <1>6, <2>1, LogUntouched DEF TypeOK, LockedWrite, Goto, Appending
  <2>2. CASE op[p].lock = Log
    <3> DEFINE t == op[p].arg
               new == [seq |-> reg[p], tx |-> t]
    <3>1. /\ files' = files \cup {new}
          /\ UNCHANGED <<op, reg, done, seen>>
          /\ pc' = [pc EXCEPT ![p] = "release"]
      BY <1>6, <2>2 DEF LockedWrite, Goto
    <3>2. /\ Appending(p) /\ pc[p] = "write"
          /\ t \in Tx /\ t \notin FileTx /\ reg[p] \in Nat \ {0}
          /\ \A g \in files : g.tx \in seen[t] => g.seq < reg[p]
          /\ \A q \in Call : Appending(q) /\ op[q].arg = t => q = p
      BY <1>6, <2>2 DEF LockedWrite, Appending, LogInv
    <3>3. FileTx' = FileTx \cup {t}
      <4>1. new.tx = t
        OBVIOUS
      <4> HIDE DEF new, t
      <4> QED
        BY <4>1, <3>1 DEF FileTx
    <3>4. \A u \in Tx : t \notin seen[u]
      BY <3>2 DEF LogInv
    <3>5. \A f \in files : f.tx \in Tx /\ f.seq \in Nat
      BY DEF TypeOK
    <3>6. /\ pc'[p] = "release" /\ Appending(p)'
          /\ \A q \in Call \ {p} : pc'[q] = pc[q] /\ (Appending(q)' <=> Appending(q))
      BY <3>1, <3>2 DEF TypeOK, Appending
    <3>7. \A q \in Call : Appending(q)' =>
            /\ op'[q].arg \in Tx
            /\ op'[q].arg \in FileTx' <=> pc'[q] = "release"
            /\ \A r \in Call : Appending(r)' /\ op'[r].arg = op'[q].arg => r = q
      <4> HIDE DEF new, t
      <4>1. t = op[p].arg
        BY DEF t
      <4>2. \A q \in Call \ {p} : Appending(q) => op[q].arg # t
        BY <3>2
      <4> QED
        BY <4>1, <4>2, <3>1, <3>2, <3>3, <3>6 DEF LogInv
    <3>8. ASSUME NEW q \in Call, Appending(q)', pc'[q] = "write"
          PROVE  /\ reg'[q] \in Nat \ {0}
                 /\ \A g \in files' : g.tx \in seen'[op'[q].arg] => g.seq < reg'[q]
      <4>1. q # p /\ Appending(q) /\ pc[q] = "write" /\ op[q].arg \in Tx
        BY <3>6, <3>8 DEF LogInv
      <4>2. new.tx = t
        OBVIOUS
      <4> HIDE DEF new, t
      <4> QED
        BY <4>1, <4>2, <3>1, <3>4 DEF LogInv
    <3>9. \A f, g \in files' : g.tx \in seen'[f.tx] => g.seq < f.seq
      <4>1. new.tx = t /\ new.seq = reg[p]
        OBVIOUS
      <4> HIDE DEF new, t
      <4> QED
        BY <4>1, <3>1, <3>2, <3>4, <3>5 DEF LogInv
    <3>10. \E m \in files' : \A f \in files' : f.seq <= m.seq
      <4>1. new \in files' /\ new.seq = reg[p] /\ reg[p] \in Nat
        BY <3>1, <3>2
      <4> HIDE DEF new
      <4>2. CASE files = {}
        BY <4>1, <4>2, <3>1
      <4>3. CASE files # {}
        <5>1. PICK m \in files : \A f \in files : f.seq <= m.seq
          BY <4>3 DEF LogInv
        <5> QED
          BY <5>1, <4>1, <3>1, <3>5
      <4> QED
        BY <4>2, <4>3
    <3>11. done' \subseteq FileTx' /\ \A u \in Tx : seen'[u] \subseteq done'
      BY <3>1, <3>3 DEF LogInv
    <3> QED
      BY <3>7, <3>8, <3>9, <3>10, <3>11 DEF LogInv
  <2> QED
    BY <2>1, <2>2, OpType DEF Lock
<1>8. ASSUME NEW p \in Call, Release(p) PROVE LogInv'
  <2>1. CASE op[p].lock \in Cell
    BY <1>8, <2>1, LogUntouched DEF TypeOK, Release, Unlock, Goto, Appending
  <2>2. CASE op[p].lock = Log
    <3>1. /\ UNCHANGED <<files, op, seen>>
          /\ done' = done \cup {op[p].arg}
          /\ pc' = [pc EXCEPT ![p] = "idle"]
          /\ reg' = [reg EXCEPT ![p] = Nil]
      BY <1>8, <2>2 DEF Release, Unlock, Goto
    <3>2. op[p].arg \in FileTx
      BY <1>8, <2>2 DEF Release, Appending, LogInv
    <3>3. \A q \in Call : Appending(q)' =>
            q # p /\ Appending(q) /\ pc'[q] = pc[q] /\ reg'[q] = reg[q]
      BY <3>1 DEF Appending, TypeOK
    <3> QED
      BY <3>1, <3>2, <3>3 DEF LogInv, FileTx
  <2> QED
    BY <2>1, <2>2, OpType DEF Lock
<1> QED
  BY <1>1, <1>2, <1>3, <1>4, <1>5, <1>6, <1>7, <1>8, <1>9, <1>10, <1>11
     DEF Next, Step

(* A step takes no number twice while nobody is overtaken.                 *)
LEMMA NumberStep ==
  TypeOK /\ LogInv /\ LockInv /\ NumberInv /\ [Next]_vars => NumberInv'
<1> SUFFICES ASSUME TypeOK, LogInv, LockInv, NumberInv, [Next]_vars
             PROVE  NumberInv'
  OBVIOUS
<1> USE MemoryAssumption DEF NumberInv
<1>1. ASSUME NEW p \in Call, NEW k \in Cell, NEW v \in Value, TouchCell(p, k, v)
      PROVE  NumberInv'
  BY <1>1 DEF TypeOK, TouchCell, Goto
<1>2. ASSUME NEW p \in Call, NEW t \in Tx, CallAppend(p, t) PROVE NumberInv'
  BY <1>2 DEF TypeOK, CallAppend, Goto
<1>3. ASSUME NEW p \in Call, Mkdir(p) \/ WriteOwner(p) \/ LookStale(p)
      PROVE  NumberInv'
  BY <1>3 DEF TypeOK, Mkdir, WriteOwner, LookStale, RetryOrTimeout, Goto
<1>4. ASSUME NEW p \in Call, RemoveStale(p) PROVE NumberInv'
  BY <1>4 DEF TypeOK, RemoveStale, RetryOrTimeout, Goto
<1>5. ASSUME NEW p \in Call, LockedRead(p) PROVE NumberInv'
  BY <1>5, NextSeqAbove DEF TypeOK, LockedRead, Goto
<1>6. ASSUME NEW p \in Call, LockedWrite(p) PROVE NumberInv'
  <2>1. CASE op[p].lock \in Cell
    BY <1>6, <2>1 DEF TypeOK, LockedWrite, Goto
  <2>2. CASE op[p].lock = Log
    <3> DEFINE new == [seq |-> reg[p], tx |-> op[p].arg]
    <3> SUFFICES ASSUME ~overtaken PROVE NumberInv'
      BY <1>6 DEF LockedWrite
    <3>1. /\ files' = files \cup {new}
          /\ UNCHANGED <<op, reg>>
          /\ pc' = [pc EXCEPT ![p] = "release"]
      BY <1>6, <2>2 DEF LockedWrite, Goto
    <3>2. \A q \in Call : op[q].lock = Log /\ pc'[q] = "write" => FALSE
      BY <1>6, <2>2, <3>1 DEF LockInv, HeldBy, Holds, LockedWrite, Lock, TypeOK
    <3>3. reg[p] \in Nat /\ \A g \in files : g.seq \in Nat /\ g.seq < reg[p]
      BY <1>6, <2>2 DEF LockedWrite, LogInv, Appending, TypeOK
    <3>4. new.seq = reg[p]
      OBVIOUS
    <3> HIDE DEF new
    <3>5. \A f, g \in files' : f.seq = g.seq => f = g
      BY <3>1, <3>3, <3>4
    <3> QED
      BY <3>1, <3>2, <3>5
  <2> QED
    BY <2>1, <2>2, OpType DEF Lock
<1>7. ASSUME NEW p \in Call, LockedFail(p) \/ Release(p) PROVE NumberInv'
  BY <1>7 DEF TypeOK, LockedFail, Release, Unlock, Goto
<1>8. ASSUME NEW l \in Lock, Age(l) PROVE NumberInv'
  BY <1>8 DEF Age
<1>9. CASE Crash
  BY <1>9 DEF Crash
<1>10. CASE UNCHANGED vars
  BY <1>10 DEF vars
<1> QED
  BY <1>1, <1>2, <1>3, <1>4, <1>5, <1>6, <1>7, <1>8, <1>9, <1>10 DEF Next, Step

-----------------------------------------------------------------------------
(* The theorems.                                                           *)

(* The inductive invariant holds of every behaviour.                       *)
LEMMA Invariance == Spec => []IInv
<1>1. IInv /\ [Next]_vars => IInv'
  BY TypeStep, RegStep, LockStep, CellStep, LogStep, NumberStep DEF IInv
<1> QED
  BY InitIInv, <1>1, PTL DEF Spec

(* Every file, lock and call is always in a state the code can put it in.  *)
THEOREM MemoryTypeCorrect == Spec => []TypeOK
<1>1. IInv => TypeOK
  BY DEF IInv
<1> QED
  BY <1>1, Invariance, PTL

(* MEMFILE-RACE-001 holds for any number of concurrent calls, crashes and  *)
(* timeouts as long as stealIfStale never removes a live holder's lock.    *)
THEOREM FirstTouchHasOneWinner == Spec => []OneWinnerUnlessOvertaken
<1>1. IInv => OneWinnerUnlessOvertaken
  BY DEF IInv, CellInv, OneWinnerUnlessOvertaken
<1> QED
  BY <1>1, Invariance, PTL

(* Under the same condition no two transactions share a sequence number.   *)
THEOREM SequenceNumbersUnique == Spec => []SequenceUniqueUnlessOvertaken
<1>1. IInv => SequenceUniqueUnlessOvertaken
  BY DEF IInv, NumberInv, SequenceUniqueUnlessOvertaken
<1> QED
  BY <1>1, Invariance, PTL

(* Both together: the directory lock does what it is for.                  *)
THEOREM LockSerializesWrites == Spec => []LockSerializes
<1>1. OneWinnerUnlessOvertaken /\ SequenceUniqueUnlessOvertaken => LockSerializes
  BY DEF LockSerializes
<1> QED
  BY <1>1, FirstTouchHasOneWinner, SequenceNumbersUnique, PTL

(* Without any condition: an acknowledged append is never lost, and        *)
(* replays after everything acknowledged before it was called.             *)
THEOREM ReplayOrder == Spec => []ReplayKeepsRealTimeOrder
<1>1. IInv => ReplayKeepsRealTimeOrder
  BY DEF IInv, LogInv, FileTx, ReplayKeepsRealTimeOrder
<1> QED
  BY <1>1, Invariance, PTL

-----------------------------------------------------------------------------
(* What the transactions keep of the CERs: CerLog.                         *)

IntroFold == INSTANCE FoldTheorems WITH Op <- StepIntroductions
ConcatFold == INSTANCE FoldTheorems WITH Op <- Concat

(* The log's folds are the ones FoldTheorems is about: the same            *)
(* expression, reached through another instance.                           *)
LEMMA SameFold ==
  /\ \A records : FoldIntroduction(records) = IntroFold!Fold(NoIntroductions, records)
  /\ \A seqs : FoldLeft(Concat, << >>, seqs) = ConcatFold!Fold(<< >>, seqs)
<1>1. \A records : FoldIntroduction(records) = IntroFold!Fold(NoIntroductions, records)
  BY Zenon DEF FoldIntroduction, IntroFold!Fold, FoldLeft, IntroFold!FoldLeft,
     MapThenFoldSet, IntroFold!MapThenFoldSet, Max, IntroFold!Max
<1>2. \A seqs : FoldLeft(Concat, << >>, seqs) = ConcatFold!Fold(<< >>, seqs)
  BY Zenon DEF ConcatFold!Fold, FoldLeft, ConcatFold!FoldLeft, MapThenFoldSet,
     ConcatFold!MapThenFoldSet, Max, ConcatFold!Max
<1> QED
  BY <1>1, <1>2

(* What the log holds.                                                     *)
RecordType == (EventType \ {"created"}) \cup {"decision", "consent-granted"}

LogRecord == [cer : Cer, type : RecordType, partner : Partner \cup {NoPartner}, to : CerStatus]

(* The greatest of the places up to n+1 where something holds.             *)
LEMMA LastAfter ==
  ASSUME NEW n \in Nat, NEW I \in SUBSET (1..n)
  PROVE  Max(I \cup {n + 1}) = n + 1
<1>1. n + 1 \in I \cup {n + 1} /\ \A y \in I \cup {n + 1} : n + 1 >= y
  OBVIOUS
<1>2. \A x \in I \cup {n + 1} : (\A y \in I \cup {n + 1} : x >= y) => x = n + 1
  OBVIOUS
<1> QED
  BY <1>1, <1>2 DEF Max

(* A set of places that is not empty has a greatest, which is in it.       *)
LEMMA GreatestExists ==
  ASSUME NEW n \in Nat, NEW I \in SUBSET (1..n), I # {}
  PROVE  Max(I) \in I /\ \A y \in I : Max(I) >= y
<1> DEFINE S == {k \in Nat : \A J \in SUBSET (1..k) :
                  J # {} => \E g \in J : \A j \in J : g >= j}
<1>1. 0 \in S
  <2>1. \A J \in SUBSET (1..0) : J = {}
    OBVIOUS
  <2> QED
    BY <2>1
<1>2. ASSUME NEW k \in Nat, k \in S PROVE k + 1 \in S
  <2> SUFFICES ASSUME NEW J \in SUBSET (1..(k + 1)), J # {}
               PROVE  \E g \in J : \A j \in J : g >= j
    OBVIOUS
  <2>1. CASE k + 1 \in J
    BY <2>1
  <2>2. CASE k + 1 \notin J
    <3>1. J \in SUBSET (1..k)
      BY <2>2
    <3> QED
      BY <1>2, <3>1
  <2> QED
    BY <2>1, <2>2
<1> HIDE DEF S
<1>3. n \in S
  BY <1>1, <1>2, IntroFold!NatSet
<1>4. \E g \in I : \A j \in I : g >= j
  BY <1>3 DEF S
<1> QED
  BY <1>4 DEF Max

(* One record more of c, or of another type: the last is it, or is the same.*)
LEMMA LatestAppend ==
  ASSUME NEW records \in Seq(LogRecord), NEW x \in LogRecord, NEW c, NEW types
  PROVE  LatestOf(Append(records, x), c, types) =
           IF x.cer = c /\ x.type \in types THEN Len(records) + 1
                                            ELSE LatestOf(records, c, types)
<1> DEFINE n == Len(records)
           more == Append(records, x)
           I == {i \in 1..n : records[i].cer = c /\ records[i].type \in types}
           J == {i \in 1..Len(more) : more[i].cer = c /\ more[i].type \in types}
<1>1. /\ n \in Nat /\ Len(more) = n + 1 /\ more[n + 1] = x
      /\ \A i \in 1..n : more[i] = records[i]
  OBVIOUS
<1>2. J = I \cup (IF x.cer = c /\ x.type \in types THEN {n + 1} ELSE {})
  <2>1. 1..(n + 1) = 1..n \cup {n + 1}
    BY <1>1
  <2> QED
    BY <1>1, <2>1
<1>3. I \in SUBSET (1..n)
  OBVIOUS
<1>4. /\ LatestOf(records, c, types) = IF I # {} THEN Max(I) ELSE 0
      /\ LatestOf(more, c, types) = IF J # {} THEN Max(J) ELSE 0
  BY Zenon DEF LatestOf, SelectLastInSeq
<1> HIDE DEF I, J, n, more
<1>5. Max(I \cup {n + 1}) = n + 1
  BY <1>1, <1>3, LastAfter
<1>6. I \cup {n + 1} # {} /\ I \cup {} = I
  OBVIOUS
<1> QED
  BY <1>2, <1>4, <1>5, <1>6 DEF n, more

(* An introduction stays one whatever record meets it.                     *)
LEMMA IntroductionStays ==
  ASSUME NEW i \in Introduction, NEW x \in LogRecord
  PROVE  StepIntroduction(i, x) \in Introduction
BY DEF StepIntroduction, LogRecord, RecordType, EventType, Introduction, IntroductionState

(* One record more: only its own CER's introduction moves.                 *)
LEMMA IntroductionsStay ==
  ASSUME NEW intros \in [Cer -> Introduction], NEW x \in LogRecord
  PROVE  /\ StepIntroductions(intros, x) \in [Cer -> Introduction]
         /\ \A c \in Cer : StepIntroductions(intros, x)[c] =
              IF x.cer = c THEN StepIntroduction(intros[c], x) ELSE intros[c]
<1>1. x.cer \in Cer /\ StepIntroduction(intros[x.cer], x) \in Introduction
  BY IntroductionStays DEF LogRecord
<1> QED
  BY <1>1 DEF StepIntroductions

(* Folding any log yields an introduction for every CER.                   *)
LEMMA FoldIntroductionType ==
  ASSUME NEW records \in Seq(LogRecord)
  PROVE  FoldIntroduction(records) \in [Cer -> Introduction]
<1>1. NoIntroductions \in [Cer -> Introduction]
  BY DEF NoIntroductions, EmptyIntroduction, Introduction, IntroductionState
<1>2. Len(records) \in Nat /\ DOMAIN records = 1..Len(records)
      /\ \A i \in 1..Len(records) : records[i] \in LogRecord
  OBVIOUS
<1>3. \A a \in [Cer -> Introduction], i \in 1..Len(records) :
        StepIntroductions(a, records[i]) \in [Cer -> Introduction]
  BY <1>2, IntroductionsStay
<1>4. IntroFold!Fold(NoIntroductions, records) \in [Cer -> Introduction]
  BY ONLY <1>1, <1>2, <1>3, IntroFold!FoldStays, Zenon
<1> QED
  BY <1>4, SameFold

(* Folding one record more is one step more for the CER it is about.       *)
LEMMA FoldIntroductionAppend ==
  ASSUME NEW records \in Seq(LogRecord), NEW x \in LogRecord, NEW c \in Cer
  PROVE  FoldIntroduction(Append(records, x))[c] =
           IF x.cer = c THEN StepIntroduction(FoldIntroduction(records)[c], x)
                        ELSE FoldIntroduction(records)[c]
<1>1. IntroFold!Fold(NoIntroductions, Append(records, x)) =
        StepIntroductions(IntroFold!Fold(NoIntroductions, records), x)
  BY ONLY records \in Seq(LogRecord), x \in LogRecord, IntroFold!FoldAppend, Zenon
<1>2. FoldIntroduction(Append(records, x)) =
        StepIntroductions(FoldIntroduction(records), x)
  BY <1>1, SameFold
<1> QED
  BY <1>2, FoldIntroductionType, IntroductionsStay

(* What one record more does to a projection. *)
Stepped(v, x) ==
  [exists |-> v.exists \/ x.type = "decision",
   consent |-> CASE x.type = "consent-granted" -> "granted"
                 [] x.type = "consent-withdrawn" -> "withdrawn"
                 [] OTHER -> v.consent,
   admin_status |-> IF x.type = "status-updated" THEN x.to ELSE v.admin_status,
   introduction |-> StepIntroduction(v.introduction, x)]

(* cerProjection of one record more, field by field: existence, the last   *)
(* consent event, the last admin status and the introduction.              *)
LEMMA ProjectAppend ==
  ASSUME NEW records \in Seq(LogRecord), NEW x \in LogRecord, NEW c \in Cer
  PROVE  ProjectOne(Append(records, x), c) =
           IF x.cer = c THEN Stepped(ProjectOne(records, c), x)
                        ELSE ProjectOne(records, c)
<1> DEFINE n == Len(records)
           more == Append(records, x)
<1>1. /\ n \in Nat /\ Len(more) = n + 1 /\ more[n + 1] = x
      /\ DOMAIN records = 1..n /\ DOMAIN more = 1..n \cup {n + 1}
      /\ \A i \in 1..n : more[i] = records[i] /\ i # 0
      /\ n + 1 # 0
  OBVIOUS
<1>2. \A types : LatestOf(records, c, types) \in {0} \cup 1..n
  <2> TAKE types
  <2> DEFINE I == {i \in 1..n : records[i].cer = c /\ records[i].type \in types}
  <2>1. LatestOf(records, c, types) = IF I # {} THEN Max(I) ELSE 0
    BY Zenon DEF LatestOf, SelectLastInSeq
  <2>2. I \in SUBSET (1..n)
    OBVIOUS
  <2> HIDE DEF I
  <2>3. I # {} => Max(I) \in I
    BY <1>1, <2>2, GreatestExists
  <2> QED
    BY <2>1, <2>2, <2>3
<1>3. \A types : LatestOf(more, c, types) =
        IF x.cer = c /\ x.type \in types THEN n + 1 ELSE LatestOf(records, c, types)
  BY LatestAppend
<1>4. (\E i \in DOMAIN more : more[i].cer = c /\ more[i].type = "decision")
        <=> \/ \E i \in DOMAIN records : records[i].cer = c /\ records[i].type = "decision"
            \/ x.cer = c /\ x.type = "decision"
  BY <1>1
<1>5. FoldIntroduction(more)[c] =
           IF x.cer = c THEN StepIntroduction(FoldIntroduction(records)[c], x)
                        ELSE FoldIntroduction(records)[c]
  BY FoldIntroductionAppend
<1> HIDE DEF n, more
<1>6. ConsentState(more, c) =
        IF x.cer = c /\ x.type \in ConsentTypes
          THEN IF x.type = "consent-withdrawn" THEN "withdrawn" ELSE "granted"
          ELSE ConsentState(records, c)
  <2> DEFINE l == LatestOf(records, c, ConsentTypes)
             m == LatestOf(more, c, ConsentTypes)
  <2>1. l \in {0} \cup 1..n
    BY <1>2
  <2>2. m = IF x.cer = c /\ x.type \in ConsentTypes THEN n + 1 ELSE l
    BY <1>3
  <2>3. /\ ConsentState(records, c) = IF l # 0 /\ records[l].type = "consent-withdrawn"
                                            THEN "withdrawn" ELSE "granted"
        /\ ConsentState(more, c) = IF m # 0 /\ more[m].type = "consent-withdrawn"
                                            THEN "withdrawn" ELSE "granted"
    BY DEF ConsentState
  <2> HIDE DEF l, m
  <2> QED
    BY <1>1, <2>1, <2>2, <2>3
<1>7. AdminStatus(more, c) =
        IF x.cer = c /\ x.type = "status-updated" THEN x.to ELSE AdminStatus(records, c)
  <2> DEFINE l == LatestOf(records, c, {"status-updated"})
             m == LatestOf(more, c, {"status-updated"})
  <2>1. l \in {0} \cup 1..n
    BY <1>2
  <2>2. m = IF x.cer = c /\ x.type = "status-updated" THEN n + 1 ELSE l
    BY <1>3
  <2>3. /\ AdminStatus(records, c) = IF l # 0 THEN records[l].to ELSE "Submitted"
        /\ AdminStatus(more, c) = IF m # 0 THEN more[m].to ELSE "Submitted"
    BY DEF AdminStatus
  <2> HIDE DEF l, m
  <2> QED
    BY <1>1, <2>1, <2>2, <2>3
<1>8. ProjectOne(more, c) =
           IF x.cer = c THEN Stepped(ProjectOne(records, c), x)
                        ELSE ProjectOne(records, c)
  BY <1>4, <1>5, <1>6, <1>7 DEF ProjectOne, Stepped, ConsentTypes
<1> QED
  BY <1>8 DEF more

(* The records of a transaction come CER by CER, each once.                *)
LEMMA EachOnce ==
  ASSUME NEW S, IsFiniteSet(S)
  PROVE  LET s == SetToSeq(S) IN
           /\ Cardinality(S) \in Nat
           /\ s \in [1..Cardinality(S) -> S]
           /\ \A i, j \in 1..Cardinality(S) : s[i] = s[j] => i = j
           /\ \A x \in S : \E i \in 1..Cardinality(S) : s[i] = x
<1> DEFINE n == Cardinality(S)
           s == SetToSeq(S)
<1>1. n \in Nat /\ ExistsBijection(1..n, S)
  BY FS_CardinalityType
<1>2. PICK f : f \in Injection(1..n, S)
  BY <1>1 DEF ExistsBijection, Bijection
<1>3. f \in [1..n -> S] /\ IsInjective(f)
  BY <1>2, Zenon DEF Injection, IsInjective
<1>4. s \in [1..n -> S] /\ IsInjective(s)
  <2>1. s = CHOOSE g \in [1..n -> S] : IsInjective(g)
    BY Zenon DEF SetToSeq
  <2> HIDE DEF s
  <2> QED
    BY <1>3, <2>1
<1> HIDE DEF s
<1>5. s \in Injection(1..n, S)
  BY <1>4, Zenon DEF Injection, IsInjective
<1>6. IsFiniteSet(1..n) /\ Cardinality(1..n) = n
  BY <1>1, FS_Interval
<1>7. s \in Surjection(1..n, S)
  BY <1>5, <1>6, FS_Injection
<1>8. /\ \A i, j \in 1..n : s[i] = s[j] => i = j
      /\ \A x \in S : \E i \in 1..n : s[i] = x
  BY <1>4, <1>7 DEF Surjection, IsInjective
<1> QED
  BY <1>1, <1>4, <1>8 DEF s

(* A record or two of one CER move that CER's projection as Cer moves it.  *)
LEMMA RecordsOfEffect ==
  ASSUME NEW records \in Seq(LogRecord), NEW d \in Cer, NEW e \in Event
  PROVE  /\ RecordsOf(d, e) \in Seq(LogRecord)
         /\ \A c \in Cer : ProjectOne(records \o RecordsOf(d, e), c) =
              IF c = d THEN C!ApplyEvent(ProjectOne(records, c), e)
                       ELSE ProjectOne(records, c)
<1> DEFINE R(t) == Record(d, t, e)
<1>1. \A t \in RecordType : R(t) \in LogRecord /\ R(t).cer = d /\ R(t).type = t
                            /\ R(t).partner = e.partner /\ R(t).to = e.to
  BY DEF LogRecord, Record, Event
<1> HIDE DEF R
<1>2. CASE e.type = "created"
  <2> DEFINE first == Append(records, R("decision"))
  <2>1. RecordsOf(d, e) = <<R("decision"), R("consent-granted")>>
    BY <1>2 DEF RecordsOf, R
  <2>2. R("decision") \in LogRecord /\ R("consent-granted") \in LogRecord
    BY <1>1 DEF RecordType
  <2>3. first \in Seq(LogRecord)
        /\ records \o RecordsOf(d, e) = Append(first, R("consent-granted"))
    BY <2>1, <2>2
  <2>4. ASSUME NEW c \in Cer
        PROVE  /\ ProjectOne(first, c) =
                    IF c = d THEN Stepped(ProjectOne(records, c), R("decision"))
                             ELSE ProjectOne(records, c)
               /\ ProjectOne(records \o RecordsOf(d, e), c) =
                    IF c = d THEN Stepped(ProjectOne(first, c), R("consent-granted"))
                             ELSE ProjectOne(first, c)
    <3> HIDE DEF first
    <3>1. R("decision").cer = d /\ R("consent-granted").cer = d
      BY <1>1 DEF RecordType
    <3>2. ProjectOne(first, c) =
                    IF c = d THEN Stepped(ProjectOne(records, c), R("decision"))
                             ELSE ProjectOne(records, c)
      BY <2>2, <3>1, ProjectAppend DEF first
    <3> QED
      BY <2>2, <2>3, <3>1, <3>2, ProjectAppend
  <2>5. \A v : Stepped(Stepped(v, R("decision")), R("consent-granted"))
                 = C!ApplyEvent(v, e)
    <3>1. /\ R("decision").type = "decision"
          /\ R("consent-granted").type = "consent-granted"
      BY <1>1 DEF RecordType
    <3>2. \A i : /\ StepIntroduction(i, R("decision")) = i
                 /\ StepIntroduction(i, R("consent-granted")) = i
                 /\ C!StepIntroduction(i, e) = i
      BY <3>1, <1>2 DEF StepIntroduction, C!StepIntroduction
    <3>3. \A v : Stepped(v, R("decision")) =
            [exists |-> TRUE, consent |-> v.consent, admin_status |-> v.admin_status,
             introduction |-> v.introduction]
      BY <3>1, <3>2, Zenon DEF Stepped
    <3>4. \A v : C!ApplyEvent(v, e) =
            [exists |-> TRUE, consent |-> "granted", admin_status |-> v.admin_status,
             introduction |-> v.introduction]
      BY <1>2, <3>2 DEF C!ApplyEvent
    <3>5. \A v : v.exists = TRUE => Stepped(v, R("consent-granted")) =
            [exists |-> v.exists, consent |-> "granted", admin_status |-> v.admin_status,
             introduction |-> v.introduction]
      BY <3>1, <3>2, Zenon DEF Stepped
    <3> QED
      <4> TAKE v
      <4> DEFINE w == Stepped(v, R("decision"))
      <4>1. /\ w.exists = TRUE /\ w.admin_status = v.admin_status
            /\ w.introduction = v.introduction
        BY <3>3
      <4>2. Stepped(w, R("consent-granted")) =
              [exists |-> w.exists, consent |-> "granted",
               admin_status |-> w.admin_status, introduction |-> w.introduction]
        BY <3>5, <4>1
      <4> HIDE DEF w
      <4>3. Stepped(w, R("consent-granted")) = C!ApplyEvent(v, e)
        BY <3>4, <4>1, <4>2
      <4> QED
        BY <4>3 DEF w
  <2> HIDE DEF first
  <2> QED
    BY <2>1, <2>2, <2>4, <2>5
<1>3. CASE e.type # "created"
  <2>1. RecordsOf(d, e) = <<R(e.type)>> /\ e.type \in RecordType
    BY <1>3 DEF RecordsOf, R, Event, RecordType
  <2>2. records \o RecordsOf(d, e) = Append(records, R(e.type)) /\ R(e.type) \in LogRecord
    BY <1>1, <2>1
  <2>3. \A v : Stepped(v, R(e.type)) = C!ApplyEvent(v, e)
    <3>1. e.type \in EventType \ {"created"}
      BY <1>3 DEF Event
    <3> QED
      BY <1>1, <2>1, <3>1 DEF Stepped, C!ApplyEvent, StepIntroduction,
                      C!StepIntroduction, RecordType, EventType
  <2>4. R(e.type).cer = d
    BY <1>1, <2>1
  <2>5. ASSUME NEW c \in Cer
        PROVE  ProjectOne(records \o RecordsOf(d, e), c) =
                 IF c = d THEN Stepped(ProjectOne(records, c), R(e.type))
                          ELSE ProjectOne(records, c)
    BY <2>2, <2>4, ProjectAppend
  <2>6. RecordsOf(d, e) \in Seq(LogRecord)
    BY <2>1, <2>2
  <2> QED
    BY <2>3, <2>5, <2>6
<1> QED
  BY <1>2, <1>3

(* What a set of CERs' records leaves of the projections.                  *)
MovedBy(was, cers, e) ==
  [c \in Cer |-> IF c \in cers THEN C!ApplyEvent(was[c], e) ELSE was[c]]

Projected(records) == [c \in Cer |-> ProjectOne(records, c)]

(* A transaction's records move exactly its CERs.                          *)
LEMMA TxEffect ==
  ASSUME NEW records \in Seq(LogRecord), NEW cers \in SUBSET Cer, IsFiniteSet(cers),
         NEW e \in Event, NEW tx, tx.cers = cers, tx.event = e
  PROVE  /\ TxRecords(tx) \in Seq(LogRecord)
         /\ Projected(records \o TxRecords(tx)) = MovedBy(Projected(records), cers, e)
<1> DEFINE n == Cardinality(cers)
           s == SetToSeq(cers)
           t == [i \in DOMAIN s |-> RecordsOf(s[i], e)]
           Upto(k) == {s[i] : i \in 1..k}
           G == {p \in (0..n) \X Seq(LogRecord) :
                   Projected(records \o p[2]) = MovedBy(Projected(records), Upto(p[1]), e)}
<1>1. /\ n \in Nat /\ s \in [1..n -> cers]
      /\ \A i, j \in 1..n : s[i] = s[j] => i = j
      /\ \A x \in cers : \E i \in 1..n : s[i] = x
  BY EachOnce
<1>2. TxRecords(tx) = ConcatFold!Fold(<< >>, t)
  BY SameFold, Zenon DEF TxRecords
<1> HIDE DEF n, s
<1>3. DOMAIN t = 1..n /\ \A i \in 1..n : t[i] = RecordsOf(s[i], e) /\ s[i] \in Cer
  BY <1>1
<1> HIDE DEF t
<1>4. <<0, << >>>> \in G
  <2>1. records \o << >> = records /\ << >> \in Seq(LogRecord) /\ 0 \in 0..n
    BY <1>1
  <2>2. Upto(0) = {}
    OBVIOUS
  <2> HIDE DEF Upto
  <2>3. MovedBy(Projected(records), {}, e) = Projected(records)
    BY Zenon DEF MovedBy, Projected
  <2>4. Projected(records \o << >>) = MovedBy(Projected(records), Upto(0), e)
    BY <2>1, <2>2, <2>3
  <2> QED
    BY <2>1, <2>4
<1>5. ASSUME NEW k \in 0..(n - 1), NEW a, <<k, a>> \in G
      PROVE  <<k + 1, Concat(a, t[k + 1])>> \in G
  <2>0. /\ a \in Seq(LogRecord)
        /\ Projected(records \o a) = MovedBy(Projected(records), Upto(k), e)
    <3> HIDE DEF Upto
    <3> QED
      BY <1>5
  <2>1. /\ k \in Nat /\ k \in 0..n /\ k + 1 \in 1..n /\ k + 1 \in 0..n
        /\ a \in Seq(LogRecord)
    BY <1>1, <2>0
  <2>2. s[k + 1] \in Cer /\ t[k + 1] = RecordsOf(s[k + 1], e)
    BY <1>3, <2>1
  <2>3. Upto(k + 1) = Upto(k) \cup {s[k + 1]} /\ s[k + 1] \notin Upto(k)
    <3>1. 1..(k + 1) = 1..k \cup {k + 1} /\ k + 1 \notin 1..k
      BY <2>1
    <3>2. \A i \in 1..k : i \in 1..n
      BY <1>1, <2>1
    <3>3. Upto(k + 1) = Upto(k) \cup {s[k + 1]}
      BY <3>1
    <3>4. \A i \in 1..k : i # k + 1 /\ s[i] # s[k + 1]
      BY <1>1, <2>1, <3>1, <3>2
    <3> QED
      BY <3>3, <3>4
  <2>4. records \o a \in Seq(LogRecord)
    BY <2>1
  <2>5. /\ RecordsOf(s[k + 1], e) \in Seq(LogRecord)
        /\ \A c \in Cer : ProjectOne((records \o a) \o RecordsOf(s[k + 1], e), c) =
              IF c = s[k + 1] THEN C!ApplyEvent(ProjectOne(records \o a, c), e)
                              ELSE ProjectOne(records \o a, c)
    BY <2>2, <2>4, RecordsOfEffect
  <2>6. (records \o a) \o t[k + 1] = records \o (a \o t[k + 1])
        /\ a \o t[k + 1] \in Seq(LogRecord)
    <3> DEFINE u == t[k + 1]
    <3>1. u \in Seq(LogRecord)
      BY <2>2, <2>5
    <3> HIDE DEF u
    <3>2. a \o u \in Seq(LogRecord)
      BY <2>1, <3>1
    <3>3. (records \o a) \o u = records \o (a \o u)
      BY <2>1, <3>1, ConcatAssociative
    <3> QED
      BY <3>2, <3>3 DEF u
  <2>7. \A c \in Cer : ProjectOne(records \o a, c) =
          IF c \in Upto(k) THEN C!ApplyEvent(ProjectOne(records, c), e)
                           ELSE ProjectOne(records, c)
    <3> HIDE DEF Upto
    <3> QED
      BY <2>0, Zenon DEF MovedBy, Projected
  <2> HIDE DEF Upto
  <2>8. Projected(records \o (a \o t[k + 1])) = MovedBy(Projected(records), Upto(k + 1), e)
    BY <2>2, <2>3, <2>5, <2>6, <2>7, Zenon DEF MovedBy, Projected
  <2> QED
    BY <2>1, <2>6, <2>8 DEF Concat
<1>6. <<n, ConcatFold!Fold(<< >>, t)>> \in G
  <2> HIDE DEF G
  <2>1. n \in Nat /\ DOMAIN t = 1..n
    BY <1>1, <1>3
  <2> QED
    BY ONLY <1>4, <1>5, <2>1, ConcatFold!FoldInduction, Zenon
<1>7. Upto(n) = cers
  BY <1>1
<1> QED
  BY <1>2, <1>6, <1>7

-----------------------------------------------------------------------------
(* The log's own invariant: what each variable holds.                      *)
FiniteCers == {S \in SUBSET Cer : IsFiniteSet(S)}

HeldTx == [cers : FiniteCers, event : Event]

LogTypeOK ==
  /\ log \in Seq(LogRecord)
  /\ pending \in [Request -> HeldTx \cup {NoTx}]
  /\ shortlist \in [Session -> FiniteCers]

(* A request that holds a finite set of CERs and a record keeps its slot.  *)
LEMMA HoldKeepsType ==
  ASSUME LogTypeOK, NEW r \in Request, NEW cers \in FiniteCers, NEW e \in Event,
         C!Hold(r, cers, e), UNCHANGED <<log, shortlist>>
  PROVE  LogTypeOK'
<1>1. [cers |-> cers, event |-> e] \in HeldTx
  BY DEF HeldTx
<1> DEFINE tx == [cers |-> cers, event |-> e]
<1>2. pending' = [pending EXCEPT ![r] = tx] /\ tx \in HeldTx
  BY <1>1 DEF C!Hold
<1> HIDE DEF tx
<1>3. pending' \in [Request -> HeldTx \cup {NoTx}]
  BY <1>2 DEF LogTypeOK
<1> QED
  BY <1>3 DEF LogTypeOK

(* What a request holds when it is about to append.                        *)
LEMMA HeldOf ==
  ASSUME LogTypeOK, NEW r \in Request, pending[r] # NoTx
  PROVE  /\ pending[r].cers \in SUBSET Cer /\ IsFiniteSet(pending[r].cers)
         /\ pending[r].event \in Event
         /\ TxRecords(pending[r]) \in Seq(LogRecord)
         /\ Projected(log \o TxRecords(pending[r])) =
              MovedBy(Projected(log), pending[r].cers, pending[r].event)
<1> DEFINE tx == pending[r]
           cers == pending[r].cers
           e == pending[r].event
<1>1. pending[r] \in HeldTx
  BY DEF LogTypeOK
<1>2. cers \in SUBSET Cer /\ IsFiniteSet(cers) /\ e \in Event
      /\ tx.cers = cers /\ tx.event = e /\ log \in Seq(LogRecord)
  BY <1>1 DEF HeldTx, FiniteCers, LogTypeOK
<1> HIDE DEF tx, cers, e
<1>3. /\ TxRecords(tx) \in Seq(LogRecord)
      /\ Projected(log \o TxRecords(tx)) = MovedBy(Projected(log), cers, e)
  BY <1>2, TxEffect
<1> QED
  BY <1>2, <1>3 DEF tx, cers, e

(* Every step keeps the log, the slots and the shortlists well formed.     *)
LEMMA LogTypeStep ==
  ASSUME LogTypeOK, [LogNext]_logVars
  PROVE  LogTypeOK'
<1>a. \A c \in Cer : {c} \in FiniteCers
  BY FS_Singleton DEF FiniteCers
<1>1. ASSUME NEW r \in Request, Read(r)
      PROVE  LogTypeOK'
  <2>0. UNCHANGED log
    BY <1>1 DEF Read
  <2>1. ASSUME NEW cers \in FiniteCers, NEW e \in Event, C!Hold(r, cers, e),
               UNCHANGED shortlist
        PROVE  LogTypeOK'
    BY <2>0, <2>1, HoldKeepsType
  <2>2. ASSUME NEW c \in Cer, NEW e \in Event, C!Hold(r, {c}, e), UNCHANGED shortlist
        PROVE  LogTypeOK'
    <3> DEFINE one == {c}
    <3>1. one \in FiniteCers /\ C!Hold(r, one, e)
      BY <2>2, <1>a
    <3> HIDE DEF one
    <3> QED
      BY <2>1, <2>2, <3>1
  <2>3. ASSUME NEW c \in Cer, C!BeginCreate(r, c) PROVE LogTypeOK'
    <3>1. C!Hold(r, {c}, C!CerCreated) /\ UNCHANGED shortlist
      BY <2>3 DEF C!BeginCreate
    <3>2. C!CerCreated \in Event
      BY DEF C!CerCreated, Event, EventType, CerStatus
    <3> HIDE DEF C!CerCreated
    <3> QED
      BY <2>2, <3>1, <3>2
  <2>4. ASSUME NEW s \in Session, C!BeginAttach(r, s) PROVE LogTypeOK'
    <3> DEFINE cers == shortlist[s]
               e == C!CerCreated
    <3>1. C!Hold(r, cers, e) /\ UNCHANGED shortlist
      BY <2>4 DEF C!BeginAttach
    <3>2. cers \in FiniteCers
      BY DEF LogTypeOK
    <3>3. e \in Event
      BY DEF C!CerCreated, Event, EventType, CerStatus
    <3> HIDE DEF cers, e
    <3> QED
      BY <2>1, <3>1, <3>2, <3>3
  <2>5. ASSUME NEW c \in Cer, C!BeginConsentWithdraw(r, c) PROVE LogTypeOK'
    <3> DEFINE e == C!ConsentWithdrawn
    <3>1. C!Hold(r, {c}, e) /\ UNCHANGED shortlist
      BY <2>5 DEF C!BeginConsentWithdraw
    <3>2. e \in Event
      BY DEF C!ConsentWithdrawn, Event, EventType, CerStatus
    <3> HIDE DEF e
    <3> QED
      BY <2>2, <3>1, <3>2
  <2>6. ASSUME NEW c \in Cer, NEW to \in CerStatus, C!BeginStatus(r, c, to)
        PROVE  LogTypeOK'
    <3> DEFINE e == C!StatusUpdated(to)
    <3>1. C!Hold(r, {c}, e) /\ UNCHANGED shortlist
      BY <2>6 DEF C!BeginStatus
    <3>2. e \in Event
      BY DEF C!StatusUpdated, Event, EventType, CerStatus
    <3> HIDE DEF e
    <3> QED
      BY <2>2, <3>1, <3>2
  <2>7. ASSUME NEW c \in Cer, C!BeginFounderIntroduction(r, c) PROVE LogTypeOK'
    <3>1. PICK type \in C!FounderIntroductionEvents :
            C!Hold(r, {c}, C!FounderIntroduction(type))
      BY <2>7 DEF C!BeginFounderIntroduction
    <3> DEFINE e == C!FounderIntroduction(type)
    <3>2. e \in Event
      BY <3>1 DEF C!FounderIntroduction, C!FounderIntroductionEvents, Event,
                  EventType, CerStatus
    <3>3. C!Hold(r, {c}, e) /\ UNCHANGED shortlist
      BY <2>7, <3>1 DEF C!BeginFounderIntroduction
    <3> HIDE DEF e
    <3> QED
      BY <2>2, <3>2, <3>3
  <2>8. ASSUME NEW p \in Partner, NEW c \in Cer, C!BeginPartnerIntroduction(r, p, c)
        PROVE  LogTypeOK'
    <3>1. PICK type \in C!PartnerIntroductionEvents :
            C!Hold(r, {c}, C!PartnerIntroduction(type, p))
      BY <2>8 DEF C!BeginPartnerIntroduction
    <3> DEFINE e == C!PartnerIntroduction(type, p)
    <3>2. e \in Event
      BY <3>1 DEF C!PartnerIntroduction, C!PartnerIntroductionEvents, Event,
                  EventType, CerStatus
    <3>3. C!Hold(r, {c}, e) /\ UNCHANGED shortlist
      BY <2>8, <3>1 DEF C!BeginPartnerIntroduction
    <3> HIDE DEF e
    <3> QED
      BY <2>2, <3>2, <3>3
  <2>9. CASE C!Abort(r)
    BY <2>0, <2>9 DEF C!Abort, LogTypeOK
  <2> QED
    BY <1>1, <2>3, <2>4, <2>5, <2>6, <2>7, <2>8, <2>9 DEF Read, CerStatus
<1>2. ASSUME NEW r \in Request, AppendTransaction(r)
      PROVE  LogTypeOK'
  <2>1. TxRecords(pending[r]) \in Seq(LogRecord) /\ log \in Seq(LogRecord)
    BY <1>2, HeldOf DEF AppendTransaction, LogTypeOK
  <2> DEFINE more == TxRecords(pending[r])
  <2>2. /\ log' = log \o more
        /\ pending' = [pending EXCEPT ![r] = NoTx] /\ UNCHANGED shortlist
    BY <1>2 DEF AppendTransaction
  <2> HIDE DEF more
  <2>3. log' \in Seq(LogRecord)
    BY <2>1, <2>2 DEF more
  <2> QED
    BY <2>2, <2>3 DEF LogTypeOK
<1>3. ASSUME NEW s \in Session, NEW c \in Cer, UNCHANGED log, C!ShortlistAdd(s, c)
      PROVE  LogTypeOK'
  <2>1. shortlist[s] \cup {c} \in FiniteCers
    BY FS_AddElement DEF LogTypeOK, FiniteCers
  <2> DEFINE more == shortlist[s] \cup {c}
  <2>2. shortlist' = [shortlist EXCEPT ![s] = more] /\ UNCHANGED pending
    BY <1>3 DEF C!ShortlistAdd
  <2> HIDE DEF more
  <2>3. shortlist' \in [Session -> FiniteCers]
    BY <2>1, <2>2 DEF LogTypeOK, more
  <2> QED
    BY <1>3, <2>2, <2>3 DEF LogTypeOK
<1>4. ASSUME NEW p \in Partner, UNCHANGED log, C!PartnerView(p)
      PROVE  LogTypeOK'
  BY <1>4 DEF C!PartnerView, LogTypeOK
<1>5. CASE UNCHANGED logVars
  BY <1>5 DEF logVars, LogTypeOK
<1> QED
  BY <1>1, <1>2, <1>3, <1>4, <1>5 DEF LogNext

(* The log's own invariant holds: what is stored are records, and what a   *)
(* request is about to append is about finitely many CERs.                 *)
LEMMA LogTypeCorrect == LogSpec => []LogTypeOK
<1>1. LogInit => LogTypeOK
  <2>1. {} \in FiniteCers
    BY FS_EmptySet DEF FiniteCers
  <2>2. << >> \in Seq(LogRecord)
    OBVIOUS
  <2> QED
    BY <2>1, <2>2 DEF LogInit, C!Init, LogTypeOK
<1>2. LogTypeOK /\ [LogNext]_logVars => LogTypeOK'
  BY LogTypeStep
<1> QED
  BY <1>1, <1>2, PTL DEF LogSpec

-----------------------------------------------------------------------------
(* The fold of the log is the machine that carries projections forward.    *)

(* Committing a transaction's records moves each projection by its event.  *)
LEMMA AppendIsAppend ==
  ASSUME LogTypeOK, NEW r \in Request, AppendTransaction(r)
  PROVE  C!AppendTransaction(r)
<1> DEFINE tx == pending[r]
<1>1. pending[r] # NoTx /\ log' = log \o TxRecords(pending[r])
  BY DEF AppendTransaction
<1>2. Projected(log') = MovedBy(Projected(log), pending[r].cers, pending[r].event)
  BY <1>1, HeldOf
<1>3. Projection = Projected(log) /\ Projection' = Projected(log')
  BY Zenon DEF Projection, Projected
<1>4. Projection' = [c \in Cer |->
                   IF c \in pending[r].cers
                     THEN C!ApplyEvent(Projection[c], pending[r].event)
                     ELSE Projection[c]]
  BY <1>2, <1>3, Zenon DEF MovedBy
<1> QED
  BY <1>1, <1>4, Zenon DEF C!AppendTransaction, AppendTransaction

(* A step of the log is a step of Cer on the projection, or a stutter.     *)
LEMMA CerLogStep ==
  ASSUME LogTypeOK, [LogNext]_logVars
  PROVE  [C!Next]_C!vars
<1>1. ASSUME NEW r \in Request, Read(r) PROVE C!Next
  BY <1>1, Zenon DEF Read, C!Next, C!Handle, CerStatus, C!CerStatus
<1>2. ASSUME NEW r \in Request, AppendTransaction(r) PROVE C!Next
  BY <1>2, AppendIsAppend, Zenon DEF C!Next, C!Handle
<1>3. ASSUME NEW s \in Session, NEW c \in Cer, C!ShortlistAdd(s, c) PROVE C!Next
  BY <1>3, Zenon DEF C!Next
<1>4. ASSUME NEW p \in Partner, C!PartnerView(p) PROVE C!Next
  BY <1>4, Zenon DEF C!Next
<1>5. CASE UNCHANGED logVars
  <2>1. UNCHANGED <<log, pending, shortlist, minted, disclosed, granted>>
    BY <1>5 DEF logVars
  <2>2. Projected(log') = Projected(log)
    BY <2>1
  <2>3. Projection' = Projection
    BY <2>2, Zenon DEF Projection, Projected
  <2> QED
    BY <2>1, <2>3 DEF C!vars
<1> QED
  BY <1>1, <1>2, <1>3, <1>4, <1>5, Zenon DEF LogNext

(* cerProjection replaying the log at every read is the machine Cer        *)
(* carries forward one record at a time, and a commit is never lost on it: *)
(* for every number of CERs, partners, requests and sessions.              *)
THEOREM LogImplementsCer == LogSpec => ImplementsCer
<1>1. LogInit => C!Init
  BY DEF LogInit
<1>2. LogTypeOK /\ [LogNext]_logVars => [C!Next]_C!vars
  BY CerLogStep
<1>3. LogTypeOK => [\A r \in Request : AppendTransaction(r)
                                         => C!AppendTransaction(r)]_logVars
  BY AppendIsAppend
<1> QED
  BY <1>1, <1>2, <1>3, LogTypeCorrect, PTL DEF LogSpec, C!Spec, ImplementsCer

-----------------------------------------------------------------------------
(* What foldIntroduction leaves of a prefix of the log, said without       *)
(* folding: an ask that nothing answered or withdrew, and a grant that     *)
(* answers one and that nothing withdrew or asked past.                    *)
IsOf(c, i, types) == log[i].cer = c /\ log[i].type \in types

AskOpen(c, k) ==
  \E i \in 1..k :
    /\ IsOf(c, i, {"introduction-requested"})
    /\ \A m \in (i + 1)..k :
         ~IsOf(c, m, {"introduction-granted", "introduction-declined",
                      "introduction-withdrawn"})

GrantOpen(c, k) ==
  \E i \in 1..k, j \in 1..k :
    /\ i < j /\ IsOf(c, i, {"introduction-requested"})
    /\ IsOf(c, j, {"introduction-granted"})
    /\ \A m \in (i + 1)..(j - 1) :
         ~IsOf(c, m, {"introduction-requested", "introduction-declined",
                      "introduction-withdrawn"})
    /\ \A m \in (j + 1)..k :
         ~IsOf(c, m, {"introduction-requested", "introduction-withdrawn"})

(* One record more, by what it is.                                         *)
LEMMA AskOpenStep ==
  ASSUME NEW c, NEW k \in Nat
  PROVE  /\ IsOf(c, k + 1, {"introduction-requested"}) => AskOpen(c, k + 1)
         /\ IsOf(c, k + 1, {"introduction-granted", "introduction-declined",
                            "introduction-withdrawn"}) => ~AskOpen(c, k + 1)
         /\ ~IsOf(c, k + 1, {"introduction-requested", "introduction-granted",
                             "introduction-declined", "introduction-withdrawn"})
              => (AskOpen(c, k + 1) <=> AskOpen(c, k))
<1>1. ASSUME IsOf(c, k + 1, {"introduction-requested"})
      PROVE  AskOpen(c, k + 1)
  <2>1. k + 1 \in 1..(k + 1) /\ (k + 1 + 1)..(k + 1) = {}
    OBVIOUS
  <2> QED
    BY <1>1, <2>1 DEF AskOpen
<1>2. ASSUME IsOf(c, k + 1, {"introduction-granted", "introduction-declined",
                             "introduction-withdrawn"}),
             AskOpen(c, k + 1)
      PROVE  FALSE
  <2>1. PICK i \in 1..(k + 1) :
          /\ IsOf(c, i, {"introduction-requested"})
          /\ \A m \in (i + 1)..(k + 1) :
               ~IsOf(c, m, {"introduction-granted", "introduction-declined",
                            "introduction-withdrawn"})
    BY <1>2 DEF AskOpen
  <2>2. i # k + 1
    BY <1>2, <2>1 DEF IsOf
  <2>3. k + 1 \in (i + 1)..(k + 1)
    BY <2>2
  <2> QED
    BY <1>2, <2>1, <2>3
<1>3. ASSUME ~IsOf(c, k + 1, {"introduction-requested", "introduction-granted",
                              "introduction-declined", "introduction-withdrawn"})
      PROVE  AskOpen(c, k + 1) <=> AskOpen(c, k)
  <2>1. 1..(k + 1) = 1..k \cup {k + 1}
    OBVIOUS
  <2>2. \A i \in 1..k : (i + 1)..(k + 1) = (i + 1)..k \cup {k + 1}
    OBVIOUS
  <2> QED
    BY <1>3, <2>1, <2>2 DEF AskOpen, IsOf
<1> QED
  BY <1>1, <1>2, <1>3

(* A grant still open at k+1 was made there, or was open at k.             *)
LEMMA GrantOpenBack ==
  ASSUME NEW c, NEW k \in Nat, GrantOpen(c, k + 1)
  PROVE  /\ ~IsOf(c, k + 1, {"introduction-requested", "introduction-withdrawn"})
         /\ GrantOpen(c, k) \/ (AskOpen(c, k) /\ IsOf(c, k + 1, {"introduction-granted"}))
<1>1. PICK i \in 1..(k + 1), j \in 1..(k + 1) :
    /\ i < j /\ IsOf(c, i, {"introduction-requested"})
    /\ IsOf(c, j, {"introduction-granted"})
    /\ \A m \in (i + 1)..(j - 1) :
         ~IsOf(c, m, {"introduction-requested", "introduction-declined",
                      "introduction-withdrawn"})
    /\ \A m \in (j + 1)..(k + 1) :
         ~IsOf(c, m, {"introduction-requested", "introduction-withdrawn"})
  BY DEF GrantOpen
<1>2. i \in 1..k
  BY <1>1
<1>3. CASE j # k + 1
  <2>1. j \in 1..k /\ k + 1 \in (j + 1)..(k + 1)
        /\ \A m \in (j + 1)..k : m \in (j + 1)..(k + 1)
    BY <1>1, <1>3
  <2>2. GrantOpen(c, k)
    BY <1>1, <1>2, <2>1 DEF GrantOpen
  <2>3. ~IsOf(c, k + 1, {"introduction-requested", "introduction-withdrawn"})
    BY <1>1, <2>1
  <2> QED
    BY <2>2, <2>3
<1>4. CASE j = k + 1
  <2>1. ~IsOf(c, k + 1, {"introduction-requested", "introduction-withdrawn"})
        /\ IsOf(c, k + 1, {"introduction-granted"})
    BY <1>1, <1>4 DEF IsOf
  <2>2. \A m \in (i + 1)..k :
          ~IsOf(c, m, {"introduction-requested", "introduction-declined",
                      "introduction-withdrawn"})
    <3>1. j - 1 = k
      BY <1>4
    <3> QED
      BY <1>1, <3>1
  <2>3. ASSUME NEW g \in (i + 1)..k, IsOf(c, g, {"introduction-granted"})
        PROVE  GrantOpen(c, k)
    <3>1. g \in 1..k /\ i < g
      BY <1>2, <2>3
    <3>2. /\ \A m \in (i + 1)..(g - 1) : m \in (i + 1)..k
          /\ \A m \in (g + 1)..k : m \in (i + 1)..k
      BY <1>2, <2>3
    <3>3. \A m \in (i + 1)..k :
            ~IsOf(c, m, {"introduction-requested", "introduction-withdrawn"})
      BY <2>2 DEF IsOf
    <3> QED
      BY <1>1, <1>2, <2>2, <2>3, <3>1, <3>2, <3>3 DEF GrantOpen
  <2>4. ASSUME \A g \in (i + 1)..k : ~IsOf(c, g, {"introduction-granted"})
        PROVE  AskOpen(c, k)
    <3>1. \A m \in (i + 1)..k :
            ~IsOf(c, m, {"introduction-granted", "introduction-declined",
                      "introduction-withdrawn"})
      BY <2>2, <2>4 DEF IsOf
    <3> QED
      BY <1>1, <1>2, <3>1 DEF AskOpen
  <2> QED
    BY <2>1, <2>3, <2>4
<1> QED
  BY <1>3, <1>4

(* And the other way round.                                                *)
LEMMA GrantOpenForth ==
  ASSUME NEW c, NEW k \in Nat,
         ~IsOf(c, k + 1, {"introduction-requested", "introduction-withdrawn"}),
         GrantOpen(c, k) \/ (AskOpen(c, k) /\ IsOf(c, k + 1, {"introduction-granted"}))
  PROVE  GrantOpen(c, k + 1)
<1>1. CASE GrantOpen(c, k)
  <2>1. PICK i \in 1..k, j \in 1..k :
    /\ i < j /\ IsOf(c, i, {"introduction-requested"})
    /\ IsOf(c, j, {"introduction-granted"})
    /\ \A m \in (i + 1)..(j - 1) :
         ~IsOf(c, m, {"introduction-requested", "introduction-declined",
                      "introduction-withdrawn"})
    /\ \A m \in (j + 1)..k :
         ~IsOf(c, m, {"introduction-requested", "introduction-withdrawn"})
    BY <1>1 DEF GrantOpen
  <2>2. i \in 1..(k + 1) /\ j \in 1..(k + 1)
        /\ (j + 1)..(k + 1) = (j + 1)..k \cup {k + 1}
    OBVIOUS
  <2>3. \A m \in (j + 1)..(k + 1) :
         ~IsOf(c, m, {"introduction-requested", "introduction-withdrawn"})
    BY <2>1, <2>2
  <2> QED
    BY <2>1, <2>2, <2>3 DEF GrantOpen
<1>2. CASE AskOpen(c, k) /\ IsOf(c, k + 1, {"introduction-granted"})
  <2> DEFINE asks == {x \in 1..k : IsOf(c, x, {"introduction-requested"})}
             i == Max(asks)
  <2>1. PICK a \in 1..k :
    /\ IsOf(c, a, {"introduction-requested"})
    /\ \A m \in (a + 1)..k :
         ~IsOf(c, m, {"introduction-granted", "introduction-declined",
                      "introduction-withdrawn"})
    BY <1>2 DEF AskOpen
  <2>2. asks \in SUBSET (1..k) /\ a \in asks
    BY <2>1
  <2>3. IsOf(c, a, {"introduction-requested"}) /\ asks # {}
    BY <2>1
  <2> HIDE DEF asks
  <2>4. i \in asks /\ \A x \in asks : i >= x
    BY <2>2, <2>3, GreatestExists
  <2> HIDE DEF i
  <2> USE DEF asks
  <2>5. i \in 1..k /\ i >= a /\ IsOf(c, i, {"introduction-requested"})
    BY <2>2, <2>4
  <2>6. \A m \in (i + 1)..k :
          m \in (a + 1)..k /\ m \notin asks /\ m \in 1..k
    BY <2>4, <2>5
  <2>7. \A m \in (i + 1)..k :
         ~IsOf(c, m, {"introduction-requested", "introduction-declined",
                      "introduction-withdrawn"})
    BY <2>1, <2>6 DEF IsOf
  <2>8. k + 1 \in 1..(k + 1) /\ i \in 1..(k + 1) /\ i < k + 1
        /\ (k + 1) - 1 = k /\ ((k + 1) + 1)..(k + 1) = {}
    BY <2>5
  <2> QED
    BY <1>2, <2>5, <2>7, <2>8 DEF GrantOpen
<1> QED
  BY <1>1, <1>2

(* foldIntroduction's two live states, record by record.                   *)
Agrees(k, intros) ==
  \A c \in Cer : /\ intros[c].state = "asked" <=> AskOpen(c, k)
                 /\ intros[c].state = "granted" <=> GrantOpen(c, k)

(* One record more keeps the agreement, whatever it is and whoever asks.   *)
LEMMA AgreesStep ==
  ASSUME log \in Seq(LogRecord), NEW k \in 0..(Len(log) - 1),
         NEW intros \in [Cer -> Introduction], Agrees(k, intros)
  PROVE  Agrees(k + 1, StepIntroductions(intros, log[k + 1]))
<1> DEFINE x == log[k + 1]
           next == StepIntroductions(intros, x)
<1>1. k \in Nat /\ x \in LogRecord
  OBVIOUS
<1>2. SUFFICES ASSUME NEW c \in Cer
      PROVE  /\ next[c].state = "asked" <=> AskOpen(c, k + 1)
             /\ next[c].state = "granted" <=> GrantOpen(c, k + 1)
  BY DEF Agrees
<1>3. next[c] = IF x.cer = c THEN StepIntroduction(intros[c], x) ELSE intros[c]
  BY <1>1, IntroductionsStay
<1>4. intros[c] \in Introduction /\ (intros[c].state = "asked" <=> AskOpen(c, k))
      /\ (intros[c].state = "granted" <=> GrantOpen(c, k))
  BY DEF Agrees
<1>5. \A types : IsOf(c, k + 1, types) <=> x.cer = c /\ x.type \in types
  BY DEF IsOf
<1>6. GrantOpen(c, k + 1) <=>
        /\ ~IsOf(c, k + 1, {"introduction-requested", "introduction-withdrawn"})
        /\ GrantOpen(c, k) \/ (AskOpen(c, k) /\ IsOf(c, k + 1, {"introduction-granted"}))
  BY <1>1, GrantOpenBack, GrantOpenForth
<1> HIDE DEF x, next
<1>7. CASE x.cer = c /\ x.type = "introduction-requested"
  <2>1. next[c].state = "asked"
    BY <1>3, <1>7 DEF StepIntroduction
  <2> QED
    BY <2>1, <1>1, <1>5, <1>6, <1>7, AskOpenStep
<1>8. CASE x.cer = c /\ x.type = "introduction-granted"
  <2>1. next[c].state = IF intros[c].state = "asked" THEN "granted" ELSE intros[c].state
    BY <1>3, <1>4, <1>8 DEF StepIntroduction, Introduction
  <2>2. ~AskOpen(c, k + 1)
    BY <1>1, <1>5, <1>8, AskOpenStep
  <2> QED
    BY <2>1, <2>2, <1>4, <1>5, <1>6, <1>8
<1>9. CASE x.cer = c /\ x.type = "introduction-declined"
  <2>1. next[c].state = IF intros[c].state = "asked" THEN "declined" ELSE intros[c].state
    BY <1>3, <1>4, <1>9 DEF StepIntroduction, Introduction
  <2>2. ~AskOpen(c, k + 1)
    BY <1>1, <1>5, <1>9, AskOpenStep
  <2> QED
    BY <2>1, <2>2, <1>4, <1>5, <1>6, <1>9
<1>10. CASE x.cer = c /\ x.type = "introduction-withdrawn"
  <2>1. next[c].state = IF intros[c].state \in {"asked", "granted"}
                          THEN "withdrawn" ELSE intros[c].state
    BY <1>3, <1>4, <1>10 DEF StepIntroduction, Introduction
  <2>2. ~AskOpen(c, k + 1)
    BY <1>1, <1>5, <1>10, AskOpenStep
  <2> QED
    BY <2>1, <2>2, <1>4, <1>5, <1>6, <1>10
<1>11. CASE \/ x.cer # c
            \/ x.type \notin {"introduction-requested", "introduction-granted",
                              "introduction-declined", "introduction-withdrawn"}
  <2>1. next[c] = intros[c]
    BY <1>3, <1>11 DEF StepIntroduction
  <2>2. AskOpen(c, k + 1) <=> AskOpen(c, k)
    BY <1>1, <1>5, <1>11, AskOpenStep
  <2> QED
    BY <2>1, <2>2, <1>4, <1>5, <1>6, <1>11
<1> QED
  BY <1>7, <1>8, <1>9, <1>10, <1>11 DEF next, x

(* The fold of the whole log agrees with the log.                          *)
LEMMA FoldAgrees ==
  ASSUME log \in Seq(LogRecord)
  PROVE  Agrees(Len(log), FoldIntroduction(log))
<1> DEFINE n == Len(log)
           G == {p \in (0..n) \X [Cer -> Introduction] : Agrees(p[1], p[2])}
<1>1. n \in Nat /\ DOMAIN log = 1..n /\ \A i \in 1..n : log[i] \in LogRecord
  OBVIOUS
<1>2. <<0, NoIntroductions>> \in G
  <2>1. NoIntroductions \in [Cer -> Introduction]
        /\ \A c \in Cer : NoIntroductions[c].state = "none"
    BY DEF NoIntroductions, EmptyIntroduction, Introduction, IntroductionState
  <2>2. \A c \in Cer : ~AskOpen(c, 0) /\ ~GrantOpen(c, 0)
    <3>1. 1..0 = {}
      OBVIOUS
    <3> QED
      BY <3>1 DEF AskOpen, GrantOpen
  <2>3. Agrees(0, NoIntroductions)
    BY <2>1, <2>2 DEF Agrees
  <2> HIDE DEF Agrees
  <2> QED
    BY <1>1, <2>1, <2>3
<1>3. ASSUME NEW k \in 0..(n - 1), NEW a, <<k, a>> \in G
      PROVE  <<k + 1, StepIntroductions(a, log[k + 1])>> \in G
  <2>1. a \in [Cer -> Introduction] /\ Agrees(k, a) /\ k + 1 \in 0..n /\ k + 1 \in 1..n
    BY <1>1, <1>3
  <2>2. Agrees(k + 1, StepIntroductions(a, log[k + 1]))
    BY <2>1, AgreesStep
  <2>3. StepIntroductions(a, log[k + 1]) \in [Cer -> Introduction]
    BY <1>1, <2>1, IntroductionsStay
  <2> QED
    BY <2>1, <2>2, <2>3
<1> HIDE DEF G, n
<1>4. <<n, IntroFold!Fold(NoIntroductions, log)>> \in G
  BY ONLY <1>1, <1>2, <1>3, IntroFold!FoldInduction, Zenon
<1> QED
  BY <1>4, SameFold DEF G, n

(* The founder's contact is shown exactly while the log holds a standing   *)
(* grant, for every log the handlers can leave: what foldIntroduction      *)
(* computes, said without folding.                                         *)
THEOREM ContactFollowsStandingGrant == LogSpec => []GrantIsStandingAnswer
<1>1. LogTypeOK => GrantIsStandingAnswer
  <2> SUFFICES ASSUME LogTypeOK, NEW c \in Cer
               PROVE  Projection[c].introduction.state = "granted"
                        <=> GrantStands(c)
    BY DEF GrantIsStandingAnswer
  <2> DEFINE n == Len(log)
  <2>1. log \in Seq(LogRecord) /\ n \in Nat /\ DOMAIN log = 1..n
    BY DEF LogTypeOK
  <2>2. Projection[c].introduction = FoldIntroduction(log)[c]
    BY DEF Projection, ProjectOne
  <2>3. FoldIntroduction(log)[c].state = "granted" <=> GrantOpen(c, n)
    BY <2>1, FoldAgrees DEF Agrees
  <2> HIDE DEF n
  <2>4. GrantOpen(c, n) <=> GrantStands(c)
    <3>1. \A i, j \in 1..n :
            /\ \A m : m \in (i + 1)..(j - 1) => m \in 1..n
            /\ \A m : m \in (j + 1)..n <=> m \in 1..n /\ m > j
      BY <2>1
    <3>2. ASSUME GrantOpen(c, n) PROVE GrantStands(c)
      BY <2>1, <3>1, <3>2 DEF GrantOpen, GrantStands, IsOf
    <3>3. ASSUME GrantStands(c) PROVE GrantOpen(c, n)
      BY <2>1, <3>1, <3>3 DEF GrantOpen, GrantStands, IsOf
    <3> QED
      BY <3>2, <3>3
  <2> QED
    BY <2>2, <2>3, <2>4
<1> QED
  BY <1>1, LogTypeCorrect, PTL
=============================================================================
