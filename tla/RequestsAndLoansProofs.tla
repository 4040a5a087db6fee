--------------------------- MODULE RequestsAndLoansProofs ---------------------------
(***************************************************************************)
(* The requests of an owner and the loan they keep.  A step of LoanBooks   *)
(* is one whole request, which stands on what the first part proves of     *)
(* RequestTransactions: whoever writes holds the owner's lock, and what a  *)
(* request commits it read under it.                                       *)
(*                                                                         *)
(* Part one: RequestTransactions, for every number of threads, deploy      *)
(* processes, users and rows, and every Target.  Part two: LoanReplay and  *)
(* LoanBooks, for every contract, set of payments, stated balances, rates  *)
(* and escrow lines: what the replay of a loan's facts computes, event by  *)
(* event, that the posted ledger reads it, and which doors leave which     *)
(* splits alone.                                                           *)
(***************************************************************************)
EXTENDS RequestTransactions, LoanBooks, SumsProofs

\* Where the handler's own data is defined: what keeps TypeOK going.
Placed ==
    \A p \in Procs :
        /\ pend[p] # {} => /\ armed[p] \in Users /\ mode[p] = "command"
                           /\ pc[p] \in {"handler", "found"}
        /\ pc[p] \in {"reconcile", "emit"} => subject[p] \in Users
        /\ pc[p] = "found" => user[p] \in Users

TypeInv == TypeOK /\ Placed

LEMMA TypeInit == Init => TypeInv
  BY UsersAssumption, OwnerAssumption, ProcAssumption, ValuesAssumption,
     TargetAssumption, BoundAssumption
  DEF Init, TypeInv, TypeOK, Placed, Procs, Kinds, Points, Unset, Nobody,
      NothingStaged, NoDelta

\* Taking a lock, locking the open transaction and beginning one keep types.
LEMMA TakeOwnerLockType ==
    ASSUME TypeInv, NEW p \in Procs, NEW o \in Users, TakeOwnerLock(p, o)
    PROVE  lock' \in [Users -> Procs \cup {NoProc}]
  BY DEF TypeInv, TypeOK, TakeOwnerLock

LEMMA LockOpenTxType ==
    ASSUME TypeInv, NEW p \in Procs, NEW o \in Users \cup {NoOwner}, LockOpenTx(p, o)
    PROVE  /\ lock' \in [Users -> Procs \cup {NoProc}]
           /\ cached' \in [Procs -> Nat \cup {Unset}]
           /\ armed' \in [Procs -> Users \cup {NoOwner}]
           /\ \A q \in Procs : armed[q] \in Users => armed'[q] \in Users
<1> USE DEF TypeInv, TypeOK, LockOpenTx
<1>1. CASE o = NoOwner
  BY <1>1
<1>2. CASE o # NoOwner
  <2>1. lock' \in [Users -> Procs \cup {NoProc}]
    BY <1>2, TakeOwnerLockType
  <2> QED BY <1>2, <2>1
<1> QED BY <1>1, <1>2

LEMMA BeginTxType ==
    ASSUME TypeInv, NEW p \in Procs, BeginTx(p)
    PROVE  /\ lock' \in [Users -> Procs \cup {NoProc}]
           /\ inTx' \in [Procs -> BOOLEAN]
           /\ txActor' \in [Procs -> Users \cup {Nobody}]
           /\ UNCHANGED <<staged, delta, bumped>>
<1>1. lock' \in [Users -> Procs \cup {NoProc}]
  <2>1. CASE mode[p] = "query" \/ armed[p] = NoOwner
    BY <2>1 DEF BeginTx, TypeInv, TypeOK
  <2>2. CASE mode[p] # "query" /\ armed[p] # NoOwner
    <3>1. armed[p] \in Users /\ TakeOwnerLock(p, armed[p])
      BY <2>2 DEF BeginTx, TypeInv, TypeOK
    <3> QED BY <3>1, TakeOwnerLockType
  <2> QED BY <2>1, <2>2
<1>2. txActor' \in [Procs -> Users \cup {Nobody}]
  BY DEF BeginTx, TypeInv, TypeOK
<1> QED BY <1>1, <1>2 DEF BeginTx, TypeInv, TypeOK

\* A transaction always reads whole, well-typed facts.
LEMMA OverlayType ==
    ASSUME TypeInv, NEW p \in Procs, NEW o \in Users
    PROVE  Overlay(p, o) \in [Rows -> Values]
<1> SUFFICES ASSUME NEW w \in Rows
             PROVE  (IF o = armed[p] /\ staged[p][w] # Unset
                     THEN staged[p][w] ELSE facts[o][w]) \in Values
  BY DEF Overlay
<1>1. staged[p][w] \in Values \cup {Unset} /\ facts[o][w] \in Values
  BY DEF TypeInv, TypeOK
<1> QED BY <1>1

\* The types of what a commit writes, and of what ends with a transaction.
DbTyped ==
    /\ facts \in [Users -> [Rows -> Values]]
    /\ posted \in [Users -> Int]
    /\ userRow \in [Users -> Nat]
    /\ tally \in [Users -> Nat]

TxTyped ==
    /\ lock \in [Users -> Procs \cup {NoProc}]
    /\ inTx \in [Procs -> BOOLEAN]
    /\ txActor \in [Procs -> Users \cup {Nobody}]
    /\ staged \in [Procs -> [Rows -> Values \cup {Unset}]]
    /\ delta \in [Procs -> [Users -> Int]]
    /\ bumped \in [Procs -> Nat \cup {Unset}]
    /\ pend \in [Procs -> SUBSET (Rows \X Values)]
    /\ cached \in [Procs -> Nat \cup {Unset}]

LEMMA InstallType == ASSUME TypeInv, NEW p \in Procs, Install(p) PROVE DbTyped'
<1>1. facts' \in [Users -> [Rows -> Values]]
  BY OverlayType DEF Install
<1>2. posted' \in [Users -> Int]
  <2>1. posted \in [Users -> Int] /\ delta[p] \in [Users -> Int]
    BY DEF TypeInv, TypeOK
  <2> QED BY <2>1 DEF Install
<1>3. userRow' \in [Users -> Nat] /\ tally' \in [Users -> Nat]
  <2>1. /\ userRow \in [Users -> Nat] /\ tally \in [Users -> Nat]
        /\ bumped[p] # Unset => bumped[p] \in Nat
    BY DEF TypeInv, TypeOK
  <2>2. \A u \in Users : tally[u] + 1 \in Nat
    BY <2>1
  <2> QED BY <2>1, <2>2 DEF Install
<1> QED BY <1>1, <1>2, <1>3 DEF DbTyped

LEMMA EndTxType == ASSUME TypeInv, NEW p \in Procs, EndTx(p) PROVE TxTyped'
  BY DEF EndTx, TypeInv, TypeOK, NothingStaged, NoDelta, Unset, Nobody, TxTyped

LEMMA TypeNext == TypeInv /\ [Next]_vars => TypeInv'
<1> SUFFICES ASSUME TypeInv, [Next]_vars PROVE TypeInv'
  OBVIOUS
<1> USE UsersAssumption, OwnerAssumption, ProcAssumption, ValuesAssumption,
        BoundAssumption DEF TypeInv, TypeOK, Placed, Kinds, Points, Unset, Nobody, db,
        request, tx, reads, recon
<1>0. Threads \subseteq Procs /\ Deployers \subseteq Procs
  BY DEF Procs
<1>1. ASSUME NEW p \in Threads, StartRequest(p) PROVE TypeInv'
  BY <1>0, <1>1 DEF StartRequest
<1>2. ASSUME NEW p \in Threads, LoadUser(p) PROVE TypeInv'
  <2>1. CASE user[p] = Nobody
    BY <1>0, <1>2, <2>1 DEF LoadUser
  <2>2. CASE user[p] # Nobody
    <3>1. user[p] \in Users /\ userRow[user[p]] \in Nat
          /\ OwnerOf[user[p]] \in Users \cup {NoOwner}
      BY <1>0, <2>2
    <3>2. cached' = [cached EXCEPT ![p] = userRow[user[p]]]
      BY <1>2, <2>2 DEF LoadUser
    <3>3. /\ txActor' = [txActor EXCEPT ![p] = IF mode[p] = "query" THEN Nobody ELSE user[p]]
          /\ actor' = [actor EXCEPT ![p] = user[p]]
          /\ pending' = [pending EXCEPT ![p] = OwnerOf[user[p]]]
      BY <1>2, <2>2 DEF LoadUser, BindActor
    <3>4. txActor' \in [Procs -> Users \cup {Nobody}]
      BY <1>0, <3>1, <3>3
    <3>5. actor' \in [Procs -> Users \cup {Nobody}]
      BY <1>0, <3>1, <3>3
    <3>6. pending' \in [Procs -> Users \cup {NoOwner}]
      BY <1>0, <3>1, <3>3
    <3>7. cached' \in [Procs -> Nat \cup {Unset}]
      BY <1>0, <3>1, <3>2
    <3>8. /\ pc' = [pc EXCEPT ![p] = "loaded"] /\ inTx' = [inTx EXCEPT ![p] = TRUE]
          /\ UNCHANGED <<db, mode, user, block, left, staged, delta, bumped,
                         pend, recon, lock, armed>>
      BY <1>2, <2>2 DEF LoadUser, BindActor
    <3> QED BY <1>0, <1>2, <2>2, <3>4, <3>5, <3>6, <3>7, <3>8 DEF LoadUser
  <2> QED BY <2>1, <2>2
<1>3. ASSUME NEW p \in Threads, Guard(p) PROVE TypeInv'
  BY <1>0, <1>3 DEF Guard
<1>4. ASSUME NEW p \in Threads, TakeRequestLock(p) PROVE TypeInv'
  <2>1. p \in Procs /\ pending[p] \in Users \cup {NoOwner} /\ LockOpenTx(p, pending[p])
    BY <1>0, <1>4 DEF TakeRequestLock
  <2> QED BY <1>4, <2>1, LockOpenTxType DEF TakeRequestLock
<1>5. ASSUME NEW p \in Threads, FindAccount(p) PROVE TypeInv'
  <2>1. p \in Procs /\ BeginTx(p)
    BY <1>0, <1>5 DEF FindAccount
  <2> QED BY <1>5, <2>1, BeginTxType DEF FindAccount
<1>6. ASSUME NEW p \in Threads, BindSignInOwner(p) PROVE TypeInv'
  <2>1. p \in Procs /\ OwnerOf[user[p]] \in Users \cup {NoOwner}
        /\ LockOpenTx(p, OwnerOf[user[p]])
    BY <1>0, <1>6 DEF BindSignInOwner
  <2> QED BY <1>6, <2>1, LockOpenTxType DEF BindSignInOwner
<1>7. ASSUME NEW p \in Threads, BeginStatement(p) PROVE TypeInv'
  <2>1. p \in Procs /\ BeginTx(p)
    BY <1>0, <1>7 DEF BeginStatement
  <2> QED BY <1>7, <2>1, BeginTxType DEF BeginStatement
<1>8. ASSUME NEW p \in Threads, Stage(p) PROVE TypeInv'
  BY <1>0, <1>8 DEF Stage
<1>9. ASSUME NEW p \in Threads, Flush(p) PROVE TypeInv'
  BY <1>0, <1>9 DEF Flush
<1>10. ASSUME NEW p \in Threads, BumpUser(p) PROVE TypeInv'
  <2> DEFINE read == IF cached[p] = Unset THEN userRow[user[p]] ELSE cached[p]
  <2>1. read \in Nat
    BY <1>0, <1>10 DEF BumpUser
  <2>2. /\ bumped' = [bumped EXCEPT ![p] = read + 1]
        /\ cached' = [cached EXCEPT ![p] = read + 1]
    BY <1>10 DEF BumpUser
  <2> HIDE DEF read
  <2>3. bumped' \in [Procs -> Nat \cup {Unset}] /\ cached' \in [Procs -> Nat \cup {Unset}]
    BY <1>0, <2>1, <2>2
  <2> QED BY <1>0, <1>10, <2>3 DEF BumpUser
<1>11. ASSUME NEW p \in Threads, Commit(p) PROVE TypeInv'
  <2>1. p \in Procs /\ Install(p) /\ EndTx(p)
    BY <1>0, <1>11 DEF Commit
  <2>2. TxTyped' /\ DbTyped'
    BY <2>1, InstallType, EndTxType
  <2> QED BY <1>0, <1>11, <2>2 DEF Commit, TxTyped, DbTyped, EndTx
<1>12. ASSUME NEW p \in Threads, ReadFacts(p) PROVE TypeInv'
  BY <1>0, <1>12 DEF ReadFacts
<1>13. ASSUME NEW p \in Threads, ReadPosted(p) PROVE TypeInv'
  BY <1>0, <1>13 DEF ReadPosted
<1>14. ASSUME NEW p \in Threads, EnterBlock(p) PROVE TypeInv'
  <2>1. p \in Procs /\ EndTx(p)
    BY <1>0, <1>14 DEF EnterBlock
  <2>2. TxTyped'
    BY <2>1, EndTxType
  <2> QED BY <1>0, <1>14, <2>2 DEF EnterBlock, TxTyped, EndTx
<1>15. ASSUME NEW p \in Threads, Teardown(p) PROVE TypeInv'
  <2>1. p \in Procs /\ EndTx(p)
    BY <1>0, <1>15 DEF Teardown
  <2>2. TxTyped'
    BY <2>1, EndTxType
  <2> QED BY <1>0, <1>15, <2>2 DEF Teardown, TxTyped, EndTx
<1>16. ASSUME NEW p \in Procs, ReadTarget(p) PROVE TypeInv'
  <2>1. subject[p] \in Users
    BY <1>16 DEF ReadTarget
  <2>2. Target(Overlay(p, subject[p])) \in Int
    BY <2>1, OverlayType, TargetAssumption
  <2> QED BY <1>16, <2>2 DEF ReadTarget
<1>17. ASSUME NEW p \in Procs, EmitDelta(p) PROVE TypeInv'
  <2> DEFINE d == delta[p][subject[p]]
  <2>1. subject[p] \in Users
    BY <1>17 DEF EmitDelta
  <2>2. d \in Int /\ goal[p] \in Int /\ posted[subject[p]] \in Int
    <3>1. delta[p] \in [Users -> Int]
      BY <1>17
    <3> QED BY <2>1, <3>1
  <2>3. d + (goal[p] - (posted[subject[p]] + d)) \in Int
    BY <2>2
  <2>4. delta' = [delta EXCEPT ![p][subject[p]] = d + (goal[p] - (posted[subject[p]] + d))]
    BY <1>17 DEF EmitDelta
  <2> HIDE DEF d
  <2>5. delta' \in [Procs -> [Users -> Int]]
    BY <2>1, <2>3, <2>4
  <2> QED BY <1>17, <2>5 DEF EmitDelta
<1>18. ASSUME NEW p \in Deployers, StartDeploy(p) PROVE TypeInv'
  BY <1>0, <1>18 DEF StartDeploy
<1>19. ASSUME NEW p \in Deployers, LockNextUser(p) PROVE TypeInv'
  <2>1. p \in Procs
    BY <1>0
  <2>2. lock' \in [Users -> Procs \cup {NoProc}]
    BY <1>19, <2>1, TakeOwnerLockType DEF LockNextUser
  <2>3. PICK o \in Users :
           IF todo[p] \ {o} = {}
           THEN /\ todo' = [todo EXCEPT ![p] = Users]
                /\ pc' = [pc EXCEPT ![p] = "deploy"]
           ELSE /\ todo' = [todo EXCEPT ![p] = todo[p] \ {o}]
                /\ UNCHANGED pc
    BY <1>19 DEF LockNextUser
  <2>4. todo' \in [Procs -> SUBSET Users]
    <3>1. todo \in [Procs -> SUBSET Users] /\ todo[p] \ {o} \in SUBSET Users
      BY <2>1
    <3>2. PICK new \in SUBSET Users : todo' = [todo EXCEPT ![p] = new]
      <4>1. CASE todo[p] \ {o} = {}
        BY <2>3, <4>1
      <4>2. CASE todo[p] \ {o} # {}
        BY <2>3, <3>1, <4>2
      <4> QED BY <4>1, <4>2
    <3> QED BY <2>1, <3>1, <3>2
  <2>5. pc' = pc \/ pc' = [pc EXCEPT ![p] = "deploy"]
    BY <2>3
  <2> QED BY <1>19, <2>1, <2>2, <2>4, <2>5 DEF LockNextUser
<1>20. ASSUME NEW p \in Deployers, ReconcileNext(p) PROVE TypeInv'
  BY <1>0, <1>20 DEF ReconcileNext
<1>21. ASSUME NEW p \in Deployers, CommitDeploy(p) PROVE TypeInv'
  <2>1. p \in Procs /\ Install(p) /\ EndTx(p)
    BY <1>0, <1>21 DEF CommitDeploy
  <2>2. TxTyped' /\ DbTyped'
    BY <2>1, InstallType, EndTxType
  <2> QED BY <1>0, <1>21, <2>2 DEF CommitDeploy, TxTyped, DbTyped, EndTx
<1>22. CASE UNCHANGED vars
  BY <1>22 DEF vars
<1> QED
  BY <1>1, <1>2, <1>3, <1>4, <1>5, <1>6, <1>7, <1>8, <1>9, <1>10, <1>11,
     <1>12, <1>13, <1>14, <1>15, <1>16, <1>17, <1>18, <1>19, <1>20, <1>21,
     <1>22 DEF Next, Progress, Respond, Raise

\* Every reachable state is well typed.
THEOREM TypeCorrect == Spec => []TypeOK
<1>1. TypeInv => TypeOK
  BY DEF TypeInv
<1> QED BY <1>1, TypeInit, TypeNext, PTL DEF Spec

(***************************************************************************)
(* The ledger matches the facts.  The argument: a transaction that writes  *)
(* holds its owner's lock from before its first read of the owner's rows   *)
(* to its end, so between its reads and its commit nobody else changes     *)
(* them, and the delta it appends is the one that reaches the target.      *)
(***************************************************************************)

\* A request's transaction, wherever it stands.
ThreadInv(p) ==
    /\ pc[p] \notin {"locking", "deploy"}
    /\ pc[p] \in {"idle", "started"} => armed[p] = NoOwner
    /\ inTx[p] /\ mode[p] = "command" /\ armed[p] \in Users => lock[armed[p]] = p
    /\ staged[p] # NothingStaged \/ delta[p] # NoDelta =>
          /\ inTx[p] /\ mode[p] = "command" /\ armed[p] \in Users
          /\ pc[p] \in {"handler", "reconcile", "emit"}
    /\ \A o \in Users : o # armed[p] => delta[p][o] = 0
    /\ pc[p] \in {"reconcile", "emit"} =>
          /\ inTx[p] /\ mode[p] = "command" /\ armed[p] \in Users
          /\ subject[p] = armed[p]
    /\ pc[p] = "emit" => goal[p] = Target(Overlay(p, armed[p]))
    /\ /\ pc[p] \notin {"reconcile", "emit"}
       /\ inTx[p] /\ mode[p] = "command" /\ armed[p] \in Users
       => posted[armed[p]] + delta[p][armed[p]] = Target(Overlay(p, armed[p]))

\* A deploy reconcile, wherever it stands.
DeployInv(p) ==
    /\ pc[p] \in {"idle", "locking", "deploy", "reconcile", "emit"}
    /\ armed[p] = NoOwner /\ bumped[p] = Unset
    /\ staged[p] = NothingStaged /\ delta[p] = NoDelta
    /\ pc[p] = "locking" => \A o \in Users \ todo[p] : lock[o] = p
    /\ pc[p] \in {"deploy", "reconcile", "emit"} => \A o \in Users : lock[o] = p
    /\ pc[p] = "emit" => goal[p] = Target(facts[subject[p]])

ProcInv(p) == /\ p \in Threads => ThreadInv(p)
              /\ p \in Deployers => DeployInv(p)

LedgerInv == /\ TypeInv
             /\ \A p \in Procs : ProcInv(p)
             /\ LedgerMatchesFacts

\* A step of p leaves q, and the owners q has locked, alone.
Spares(q) ==
    /\ pc'[q] = pc[q] /\ mode'[q] = mode[q] /\ armed'[q] = armed[q]
    /\ inTx'[q] = inTx[q] /\ staged'[q] = staged[q] /\ delta'[q] = delta[q]
    /\ bumped'[q] = bumped[q] /\ goal'[q] = goal[q]
    /\ subject'[q] = subject[q] /\ todo'[q] = todo[q]
    /\ \A o \in Users : lock[o] = q =>
          lock'[o] = q /\ facts'[o] = facts[o] /\ posted'[o] = posted[o]

\* What spares a process keeps its part of the invariant.
LEMMA Frame ==
    ASSUME TypeInv, NEW q \in Procs, ProcInv(q), Spares(q)
    PROVE  ProcInv(q)'
<1>1. ASSUME q \in Threads PROVE ThreadInv(q)'
  <2>1. ThreadInv(q)
    BY <1>1 DEF ProcInv
  <2>2. ASSUME inTx[q], mode[q] = "command", armed[q] \in Users
        PROVE  /\ lock'[armed[q]] = q
               /\ posted'[armed[q]] = posted[armed[q]]
               /\ Overlay(q, armed[q])' = Overlay(q, armed[q])
    BY <2>1, <2>2 DEF Spares, ThreadInv, Overlay
  <2> QED BY <2>1, <2>2 DEF Spares, ThreadInv
<1>2. ASSUME q \in Deployers PROVE DeployInv(q)'
  <2>1. DeployInv(q)
    BY <1>2 DEF ProcInv
  <2>2. pc[q] = "emit" => subject[q] \in Users
    BY DEF TypeInv, Placed
  <2> QED BY <2>1, <2>2 DEF Spares, DeployInv
<1> QED BY <1>1, <1>2 DEF ProcInv

\* A step of p that commits nothing keeps the invariant if it keeps p's part.
LEMMA QuietStep ==
    ASSUME LedgerInv, TypeInv', UNCHANGED <<facts, posted>>,
           NEW p \in Procs, ProcInv(p)',
           \A q \in Procs \ {p} : Spares(q)
    PROVE  LedgerInv'
  BY Frame DEF LedgerInv, LedgerMatchesFacts

LEMMA LedgerInit == Init => LedgerInv
<1> SUFFICES ASSUME Init PROVE LedgerInv
  OBVIOUS
<1>1. TypeInv
  BY TypeInit
<1>2. ASSUME NEW p \in Procs PROVE ProcInv(p)
  BY ProcAssumption, OwnerAssumption
  DEF Init, ProcInv, ThreadInv, DeployInv, NoDelta, Procs
<1>3. LedgerMatchesFacts
  BY DEF Init, LedgerMatchesFacts
<1> QED BY <1>1, <1>2, <1>3 DEF LedgerInv

\* A step after which p has written nothing leaves p in order, if p is locked.
LEMMA CleanThread ==
    ASSUME TypeInv', NEW p \in Procs,
           staged'[p] = NothingStaged, delta'[p] = NoDelta,
           pc'[p] \notin {"reconcile", "emit", "locking", "deploy"},
           pc'[p] \in {"idle", "started"} => armed'[p] = NoOwner,
           inTx'[p] /\ mode'[p] = "command" /\ armed'[p] \in Users
               => lock'[armed'[p]] = p,
           LedgerMatchesFacts'
    PROVE  ThreadInv(p)'
<1>1. \A o \in Users : delta'[p][o] = 0
  BY DEF NoDelta
<1>2. ASSUME NEW o \in Users PROVE Overlay(p, o)' = facts'[o]
  <2>1. Overlay(p, o)' = [w \in Rows |-> facts'[o][w]]
    BY DEF Overlay, NothingStaged
  <2> QED BY <2>1 DEF TypeInv, TypeOK
<1>3. ASSUME NEW o \in Users PROVE posted'[o] + delta'[p][o] = Target(Overlay(p, o)')
  <2>1. posted'[o] = Target(facts'[o]) /\ posted'[o] \in Int
    BY DEF LedgerMatchesFacts, TypeInv, TypeOK
  <2> QED BY <1>1, <1>2, <2>1
<1> QED BY <1>1, <1>3 DEF ThreadInv

\* Taking a lock, ending a transaction and beginning one take no lock from
\* another process, and leave the taker with the lock it asked for.
LocksKept(p) ==
    \A q \in Procs \ {p} : \A o \in Users : lock[o] = q => lock'[o] = q

LEMMA TakeOwnerLockKeeps ==
    ASSUME TypeInv, NEW p \in Procs, NEW o \in Users, TakeOwnerLock(p, o)
    PROVE  LocksKept(p) /\ lock'[o] = p
                        /\ \A u \in Users : lock[u] = p => lock'[u] = p
  BY ProcAssumption DEF TypeInv, TypeOK, TakeOwnerLock, LockFree, LocksKept

LEMMA EndTxKeeps ==
    ASSUME TypeInv, NEW p \in Procs, EndTx(p)
    PROVE  /\ LocksKept(p)
           /\ \A q \in Procs \ {p} : /\ inTx'[q] = inTx[q] /\ staged'[q] = staged[q]
                                     /\ delta'[q] = delta[q] /\ bumped'[q] = bumped[q]
           /\ inTx'[p] = FALSE /\ staged'[p] = NothingStaged
           /\ delta'[p] = NoDelta /\ bumped'[p] = Unset
  BY ProcAssumption DEF TypeInv, TypeOK, EndTx, LocksKept

LEMMA BeginTxKeeps ==
    ASSUME TypeInv, NEW p \in Procs, BeginTx(p)
    PROVE  /\ LocksKept(p)
           /\ mode[p] = "command" /\ armed[p] \in Users => lock'[armed[p]] = p
           /\ \A q \in Procs \ {p} : inTx'[q] = inTx[q]
           /\ ~inTx[p] /\ inTx'[p] = TRUE
           /\ UNCHANGED <<staged, delta, bumped>>
<1>0. armed[p] \in Users \cup {NoOwner} /\ inTx \in [Procs -> BOOLEAN] /\ NoOwner \notin Users
  BY OwnerAssumption DEF TypeInv, TypeOK
<1>1. CASE mode[p] = "query" \/ armed[p] = NoOwner
  BY <1>0, <1>1 DEF BeginTx, LocksKept
<1>2. CASE mode[p] # "query" /\ armed[p] # NoOwner
  <2>1. armed[p] \in Users /\ TakeOwnerLock(p, armed[p])
    BY <1>0, <1>2 DEF BeginTx
  <2>2. LocksKept(p) /\ lock'[armed[p]] = p
    BY <2>1, TakeOwnerLockKeeps
  <2> QED BY <1>0, <2>2 DEF BeginTx
<1> QED BY <1>1, <1>2

LEMMA LockOpenTxKeeps ==
    ASSUME TypeInv, NEW p \in Procs, NEW o \in Users \cup {NoOwner}, LockOpenTx(p, o)
    PROVE  /\ LocksKept(p)
           /\ \A q \in Procs \ {p} : armed'[q] = armed[q]
           /\ \/ armed' = armed /\ UNCHANGED lock
              \/ /\ o \in Users /\ armed'[p] = o
                 /\ mode[p] = "command" /\ inTx[p] => lock'[o] = p
<1>0. armed \in [Procs -> Users \cup {NoOwner}]
  BY DEF TypeInv, TypeOK
<1>1. CASE o = NoOwner
  BY <1>1 DEF LockOpenTx, LocksKept
<1>2. CASE o # NoOwner /\ mode[p] = "command" /\ inTx[p]
  <2>1. o \in Users /\ TakeOwnerLock(p, o) /\ armed' = [armed EXCEPT ![p] = o]
    BY <1>2 DEF LockOpenTx
  <2> QED BY <1>0, <2>1, TakeOwnerLockKeeps
<1>3. CASE o # NoOwner /\ ~(mode[p] = "command" /\ inTx[p])
  <2>1. o \in Users /\ UNCHANGED lock /\ armed' = [armed EXCEPT ![p] = o]
    BY <1>3 DEF LockOpenTx
  <2> QED BY <1>0, <1>3, <2>1 DEF LocksKept
<1> QED BY <1>1, <1>2, <1>3

\* The steps of a request that commit nothing.
LEMMA RequestSteps ==
    ASSUME LedgerInv, TypeInv', NEW p \in Threads,
           \/ StartRequest(p) \/ LoadUser(p) \/ Guard(p) \/ TakeRequestLock(p)
           \/ FindAccount(p) \/ BindSignInOwner(p) \/ BeginStatement(p)
           \/ Stage(p) \/ Flush(p) \/ BumpUser(p) \/ ReadFacts(p)
           \/ ReadPosted(p) \/ EnterBlock(p) \/ Teardown(p)
    PROVE  LedgerInv'
<1>1. p \in Procs /\ p \notin Deployers /\ TypeInv /\ ThreadInv(p)
      /\ armed[p] \in Users \cup {NoOwner} /\ NoOwner \notin Users
      /\ (armed[p] \in Users => posted[armed[p]] = Target(facts[armed[p]]))
      /\ delta[p] \in [Users -> Int] /\ posted \in [Users -> Int]
      /\ staged[p] \in [Rows -> Values \cup {Unset}]
      /\ facts \in [Users -> [Rows -> Values]]
  BY ProcAssumption, OwnerAssumption
  DEF LedgerInv, ProcInv, Procs, LedgerMatchesFacts, TypeInv, TypeOK
<1>2. ASSUME NEW o \in Users, staged[p] = NothingStaged PROVE Overlay(p, o) = facts[o]
  <2>1. \A w \in Rows : staged[p][w] = Unset
    BY <1>2 DEF NothingStaged
  <2>2. Overlay(p, o) = [w \in Rows |-> facts[o][w]]
    BY <2>1 DEF Overlay
  <2> QED BY <2>2, <1>1
<1>3. ProcInv(p)' <=> ThreadInv(p)'
  BY <1>1 DEF ProcInv
<1>4. /\ pc \in [Procs -> Points] /\ mode \in [Procs -> Kinds]
      /\ user \in [Procs -> Users \cup {Nobody}]
      /\ pending \in [Procs -> Users \cup {NoOwner}]
      /\ armed \in [Procs -> Users \cup {NoOwner}]
      /\ inTx \in [Procs -> BOOLEAN]
      /\ staged \in [Procs -> [Rows -> Values \cup {Unset}]]
      /\ delta \in [Procs -> [Users -> Int]]
      /\ bumped \in [Procs -> Nat \cup {Unset}]
      /\ goal \in [Procs -> Int]
      /\ subject \in [Procs -> Users \cup {NoOwner}]
      /\ todo \in [Procs -> SUBSET Users]
  BY <1>1 DEF TypeInv, TypeOK
<1>5. \A o \in Users : Target(facts[o]) = posted[o]
  BY DEF LedgerInv, LedgerMatchesFacts
<1>6. delta[p] = NoDelta => \A o \in Users : delta[p][o] = 0
  BY DEF NoDelta
<1> USE <1>1, <1>4 DEF db, request, tx, reads, recon
<1>11. CASE StartRequest(p)
  <2>1. \A q \in Procs \ {p} : Spares(q)
    BY <1>11 DEF StartRequest, Spares
  <2>2. ThreadInv(p)'
    BY <1>11 DEF StartRequest, ThreadInv, Overlay
  <2> QED BY <1>3, <1>11, <2>1, <2>2, QuietStep DEF StartRequest
<1>12. CASE LoadUser(p)
  <2>1. \A q \in Procs \ {p} : Spares(q)
    BY <1>12 DEF LoadUser, BindActor, Spares
  <2>2. ThreadInv(p)'
    BY <1>12 DEF LoadUser, BindActor, ThreadInv, Overlay
  <2> QED BY <1>3, <1>12, <2>1, <2>2, QuietStep DEF LoadUser
<1>13. CASE Guard(p)
  <2>1. \A q \in Procs \ {p} : Spares(q)
    BY <1>13 DEF Guard, Spares
  <2>2. ThreadInv(p)'
    BY <1>13 DEF Guard, ThreadInv, Overlay
  <2> QED BY <1>3, <1>13, <2>1, <2>2, QuietStep DEF Guard
<1>14. CASE TakeRequestLock(p)
  <2>0. pending[p] \in Users \cup {NoOwner} /\ LockOpenTx(p, pending[p])
    BY <1>14 DEF TakeRequestLock
  <2>1. \A q \in Procs \ {p} : Spares(q)
    BY <1>14, <2>0, LockOpenTxKeeps DEF TakeRequestLock, Spares, LocksKept
  <2>2. staged[p] = NothingStaged /\ delta[p] = NoDelta
    BY <1>14 DEF TakeRequestLock, ThreadInv
  <2>3. /\ staged'[p] = NothingStaged /\ delta'[p] = NoDelta
        /\ pc'[p] = "handler" /\ inTx' = inTx /\ mode' = mode
        /\ LedgerMatchesFacts'
    BY <1>5, <1>14, <2>2 DEF TakeRequestLock, LedgerMatchesFacts
  <2>4. inTx[p] /\ mode[p] = "command" /\ armed'[p] \in Users => lock'[armed'[p]] = p
    BY ZenonT(60), <2>0, LockOpenTxKeeps DEF ThreadInv
  <2>5. ThreadInv(p)'
    BY <2>3, <2>4, CleanThread
  <2> QED BY <1>3, <1>14, <2>1, <2>5, QuietStep DEF TakeRequestLock
<1>15. CASE FindAccount(p)
  <2>0. BeginTx(p)
    BY <1>15 DEF FindAccount
  <2>1. \A q \in Procs \ {p} : Spares(q)
    BY ZenonT(60), <1>15, <2>0, BeginTxKeeps DEF FindAccount, Spares, LocksKept
  <2>2. staged[p] = NothingStaged /\ delta[p] = NoDelta
    BY <2>0, BeginTxKeeps DEF ThreadInv
  <2>3. /\ staged'[p] = NothingStaged /\ delta'[p] = NoDelta
        /\ pc'[p] = "found" /\ mode' = mode /\ armed' = armed
        /\ LedgerMatchesFacts'
    BY <1>5, <1>15, <2>0, <2>2, BeginTxKeeps DEF FindAccount, LedgerMatchesFacts
  <2>4. mode[p] = "command" /\ armed[p] \in Users => lock'[armed[p]] = p
    BY <2>0, BeginTxKeeps
  <2>5. ThreadInv(p)'
    BY <2>3, <2>4, CleanThread
  <2> QED BY <1>3, <1>15, <2>1, <2>5, QuietStep DEF FindAccount
<1>16. CASE BindSignInOwner(p)
  <2>0. OwnerOf[user[p]] \in Users \cup {NoOwner} /\ LockOpenTx(p, OwnerOf[user[p]])
    BY <1>16, OwnerAssumption DEF BindSignInOwner, TypeInv, Placed
  <2>1. \A q \in Procs \ {p} : Spares(q)
    BY <1>16, <2>0, LockOpenTxKeeps DEF BindSignInOwner, Spares, LocksKept
  <2>2. staged[p] = NothingStaged /\ delta[p] = NoDelta
    BY <1>16 DEF BindSignInOwner, ThreadInv
  <2>3. /\ staged'[p] = NothingStaged /\ delta'[p] = NoDelta
        /\ pc'[p] = "handler" /\ inTx' = inTx /\ mode' = mode
        /\ LedgerMatchesFacts'
    BY <1>5, <1>16, <2>2 DEF BindSignInOwner, LedgerMatchesFacts
  <2>4. inTx[p] /\ mode[p] = "command" /\ armed'[p] \in Users => lock'[armed'[p]] = p
    BY <2>0, LockOpenTxKeeps DEF ThreadInv
  <2>5. ThreadInv(p)'
    BY <2>3, <2>4, CleanThread
  <2> QED BY <1>3, <1>16, <2>1, <2>5, QuietStep DEF BindSignInOwner
<1>17. CASE BeginStatement(p)
  <2>0. BeginTx(p)
    BY <1>17 DEF BeginStatement
  <2>1. \A q \in Procs \ {p} : Spares(q)
    BY <1>17, <2>0, BeginTxKeeps DEF BeginStatement, Spares, LocksKept
  <2>2. staged[p] = NothingStaged /\ delta[p] = NoDelta
    BY <2>0, BeginTxKeeps DEF ThreadInv
  <2>3. /\ staged'[p] = NothingStaged /\ delta'[p] = NoDelta
        /\ pc'[p] = "handler" /\ mode' = mode /\ armed' = armed
        /\ LedgerMatchesFacts'
    BY <1>5, <1>17, <2>0, <2>2, BeginTxKeeps DEF BeginStatement, LedgerMatchesFacts
  <2>4. mode[p] = "command" /\ armed[p] \in Users => lock'[armed[p]] = p
    BY <2>0, BeginTxKeeps
  <2>5. ThreadInv(p)'
    BY <2>3, <2>4, CleanThread
  <2> QED BY <1>3, <1>17, <2>1, <2>5, QuietStep DEF BeginStatement
<1>18. CASE Stage(p)
  <2>1. \A q \in Procs \ {p} : Spares(q)
    BY <1>18 DEF Stage, Spares
  <2>2. ThreadInv(p)'
    BY <1>18 DEF Stage, ThreadInv, Overlay
  <2> QED BY <1>3, <1>18, <2>1, <2>2, QuietStep DEF Stage
<1>19. CASE Flush(p)
  <2>1. \A q \in Procs \ {p} : Spares(q)
    BY <1>19 DEF Flush, Spares
  <2>2. ThreadInv(p)'
    <3>1. armed[p] \in Users /\ mode[p] = "command"
      BY <1>19 DEF Flush, TypeInv, Placed
    <3>2. /\ pc'[p] = "reconcile" /\ subject'[p] = armed[p] /\ inTx[p]
          /\ UNCHANGED <<mode, armed, inTx, delta, lock>>
      BY <1>19 DEF Flush
    <3>3. /\ lock[armed[p]] = p
          /\ \A o \in Users : o # armed[p] => delta[p][o] = 0
      BY <3>1, <3>2 DEF ThreadInv
    <3> QED BY <3>1, <3>2, <3>3 DEF ThreadInv
  <2> QED BY <1>3, <1>19, <2>1, <2>2, QuietStep DEF Flush
<1>20. CASE BumpUser(p)
  <2>1. \A q \in Procs \ {p} : Spares(q)
    BY <1>20 DEF BumpUser, Spares
  <2>2. ThreadInv(p)'
    BY <1>20 DEF BumpUser, ThreadInv, Overlay
  <2> QED BY <1>3, <1>20, <2>1, <2>2, QuietStep DEF BumpUser
<1>21. CASE ReadFacts(p)
  <2>1. \A q \in Procs \ {p} : Spares(q)
    BY <1>21 DEF ReadFacts, Spares
  <2>2. ThreadInv(p)'
    BY <1>21 DEF ReadFacts, ThreadInv, Overlay
  <2> QED BY <1>3, <1>21, <2>1, <2>2, QuietStep DEF ReadFacts
<1>22. CASE ReadPosted(p)
  <2>1. \A q \in Procs \ {p} : Spares(q)
    BY <1>22 DEF ReadPosted, Spares
  <2>2. ThreadInv(p)'
    BY <1>22 DEF ReadPosted, ThreadInv, Overlay
  <2> QED BY <1>3, <1>22, <2>1, <2>2, QuietStep DEF ReadPosted
<1>23. CASE EnterBlock(p)
  <2>0. EndTx(p)
    BY <1>23 DEF EnterBlock
  <2>1. \A q \in Procs \ {p} : Spares(q)
    BY ZenonT(60), <1>23, <2>0, EndTxKeeps DEF EnterBlock, Spares, LocksKept
  <2>2. ThreadInv(p)'
    <3>1. /\ staged'[p] = NothingStaged /\ delta'[p] = NoDelta /\ inTx'[p] = FALSE
          /\ pc'[p] = "handler"
          /\ LedgerMatchesFacts'
      BY <1>5, <1>23, <2>0, EndTxKeeps DEF EnterBlock, LedgerMatchesFacts
    <3> QED BY <3>1, CleanThread
  <2> QED BY <1>3, <1>23, <2>1, <2>2, QuietStep DEF EnterBlock
<1>24. CASE Teardown(p)
  <2>0. EndTx(p)
    BY <1>24 DEF Teardown
  <2>1. \A q \in Procs \ {p} : Spares(q)
    BY ZenonT(60), <1>24, <2>0, EndTxKeeps DEF Teardown, Spares, LocksKept
  <2>2. ThreadInv(p)'
    <3>1. /\ staged'[p] = NothingStaged /\ delta'[p] = NoDelta /\ inTx'[p] = FALSE
          /\ pc'[p] = "idle" /\ armed'[p] = NoOwner
          /\ LedgerMatchesFacts'
      BY <1>5, <1>24, <2>0, EndTxKeeps DEF Teardown, LedgerMatchesFacts
    <3> QED BY <3>1, CleanThread
  <2> QED BY <1>3, <1>24, <2>1, <2>2, QuietStep DEF Teardown
<1> QED
  BY <1>11, <1>12, <1>13, <1>14, <1>15, <1>16, <1>17, <1>18, <1>19, <1>20,
     <1>21, <1>22, <1>23, <1>24

\* A request's reconcile reaches the target its reads named; a deploy's finds
\* nothing to add.
LEMMA ReconcileSteps ==
    ASSUME LedgerInv, TypeInv', NEW p \in Procs, ReadTarget(p) \/ EmitDelta(p)
    PROVE  LedgerInv'
<1>1. /\ TypeInv /\ ProcInv(p) /\ subject[p] \in Users
      /\ p \in Threads => p \notin Deployers /\ ThreadInv(p)
      /\ p \in Deployers => p \notin Threads /\ DeployInv(p)
      /\ p \in Threads \/ p \in Deployers
  BY ProcAssumption DEF LedgerInv, ProcInv, Procs, TypeInv, Placed, ReadTarget, EmitDelta
<1>2. /\ pc \in [Procs -> Points] /\ goal \in [Procs -> Int]
      /\ delta \in [Procs -> [Users -> Int]] /\ posted \in [Users -> Int]
      /\ facts \in [Users -> [Rows -> Values]]
  BY <1>1 DEF TypeInv, TypeOK
<1>3. \A o \in Users : Target(facts[o]) = posted[o]
  BY DEF LedgerInv, LedgerMatchesFacts
<1>4. \A q \in Procs \ {p} : Spares(q)
  BY <1>2 DEF ReadTarget, EmitDelta, Spares, db, tx, request, recon
<1>5. ASSUME staged[p] = NothingStaged PROVE Overlay(p, subject[p]) = facts[subject[p]]
  <2>1. Overlay(p, subject[p]) = [w \in Rows |-> facts[subject[p]][w]]
    BY <1>5 DEF Overlay, NothingStaged
  <2> QED BY <2>1, <1>1, <1>2
<1>6. CASE ReadTarget(p)
  <2>1. /\ pc'[p] = "emit" /\ pc[p] = "reconcile"
        /\ goal'[p] = Target(Overlay(p, subject[p]))
        /\ UNCHANGED <<facts, posted, lock, mode, armed, inTx, staged, delta,
                       bumped, subject>>
    BY <1>2, <1>6 DEF ReadTarget, db, tx, request
  <2>2. ASSUME p \in Threads PROVE ThreadInv(p)'
    BY <1>1, <2>1, <2>2 DEF ThreadInv, Overlay
  <2>3. ASSUME p \in Deployers PROVE DeployInv(p)'
    BY <1>1, <1>5, <2>1, <2>3 DEF DeployInv
  <2> QED BY <1>4, <2>1, <2>2, <2>3, QuietStep DEF ProcInv
<1>7. CASE EmitDelta(p)
  <2> DEFINE o == subject[p]
             d == delta[p][o]
  <2>1. d \in Int /\ goal[p] \in Int /\ posted[o] \in Int /\ delta[p] \in [Users -> Int]
    BY <1>1, <1>2
  <2>2. /\ delta' = [delta EXCEPT ![p][o] = d + (goal[p] - (posted[o] + d))]
        /\ UNCHANGED <<facts, posted, lock, mode, armed, inTx, staged, bumped,
                       goal, subject>>
    BY <1>7 DEF EmitDelta, db, request, recon
  <2>3. /\ delta'[p][o] = goal[p] - posted[o]
        /\ \A u \in Users \ {o} : delta'[p][u] = delta[p][u]
    BY <1>1, <1>2, <2>1, <2>2
  <2>4. pc[p] = "emit" /\ pc'[p] = IF p \in Deployers THEN "deploy" ELSE "handler"
    BY <1>2, <1>7 DEF EmitDelta
  <2>5. ASSUME p \in Threads PROVE ThreadInv(p)'
    <3>1. o = armed[p] /\ goal[p] = Target(Overlay(p, armed[p]))
      BY <1>1, <2>4, <2>5 DEF ThreadInv
    <3>2. posted[o] + delta'[p][o] = Target(Overlay(p, armed[p]))
      BY <2>1, <2>3, <3>1
    <3>3. Overlay(p, armed[p])' = Overlay(p, armed[p])
      BY <2>2 DEF Overlay
    <3> QED BY <1>1, <2>2, <2>3, <2>4, <2>5, <3>1, <3>2, <3>3 DEF ThreadInv
  <2>6. ASSUME p \in Deployers PROVE DeployInv(p)'
    <3>1. goal[p] = posted[o] /\ delta[p] = NoDelta
      BY <1>1, <1>3, <2>4, <2>6 DEF DeployInv
    <3>2. d = 0 /\ delta'[p][o] = 0
      BY <1>1, <2>1, <2>3, <3>1 DEF NoDelta
    <3>3. delta'[p] = NoDelta
      <4>1. delta'[p] \in [Users -> Int]
        BY <1>1, <1>2, <2>1, <2>2
      <4>2. \A u \in Users : delta'[p][u] = 0
        BY <2>3, <3>1, <3>2 DEF NoDelta
      <4> QED BY <4>1, <4>2 DEF NoDelta
    <3> QED BY <1>1, <2>2, <2>4, <2>6, <3>3 DEF DeployInv
  <2> QED BY <1>4, <2>2, <2>5, <2>6, QuietStep DEF ProcInv
<1> QED BY <1>6, <1>7

\* A deploy holds every owner's lock before it reads anything.
LEMMA DeploySteps ==
    ASSUME LedgerInv, TypeInv', NEW p \in Deployers,
           StartDeploy(p) \/ LockNextUser(p) \/ ReconcileNext(p)
    PROVE  LedgerInv'
<1>1. p \in Procs /\ p \notin Threads /\ TypeInv /\ DeployInv(p)
  BY ProcAssumption DEF LedgerInv, ProcInv, Procs
<1>2. /\ pc \in [Procs -> Points] /\ todo \in [Procs -> SUBSET Users]
      /\ subject \in [Procs -> Users \cup {NoOwner}] /\ inTx \in [Procs -> BOOLEAN]
  BY <1>1 DEF TypeInv, TypeOK
<1>3. ProcInv(p)' <=> DeployInv(p)'
  BY <1>1 DEF ProcInv
<1> USE <1>1, <1>2 DEF db, request, tx, reads, recon
<1>4. CASE StartDeploy(p)
  <2>1. \A q \in Procs \ {p} : Spares(q)
    BY <1>4 DEF StartDeploy, Spares
  <2>2. DeployInv(p)'
    BY <1>4 DEF StartDeploy, DeployInv
  <2> QED BY <1>3, <1>4, <2>1, <2>2, QuietStep DEF StartDeploy
<1>5. CASE LockNextUser(p)
  <2>1. PICK o \in Users :
           /\ NextToLock(p, o) /\ TakeOwnerLock(p, o)
           /\ IF todo[p] \ {o} = {}
              THEN todo' = [todo EXCEPT ![p] = Users] /\ pc' = [pc EXCEPT ![p] = "deploy"]
              ELSE todo' = [todo EXCEPT ![p] = @ \ {o}] /\ UNCHANGED pc
    BY <1>5 DEF LockNextUser
  <2>2. /\ LocksKept(p) /\ lock'[o] = p
        /\ \A u \in Users : lock[u] = p => lock'[u] = p
    BY <2>1, TakeOwnerLockKeeps
  <2>3. \A q \in Procs \ {p} : Spares(q)
    BY <1>5, <2>1, <2>2 DEF LockNextUser, Spares, LocksKept
  <2>4. pc[p] = "locking" /\ \A u \in Users \ (todo[p] \ {o}) : lock'[u] = p
    BY <1>5, <2>2 DEF LockNextUser, DeployInv
  <2>5. DeployInv(p)'
    <3>1. UNCHANGED <<armed, bumped, staged, delta>>
      BY <1>5 DEF LockNextUser
    <3>2. CASE todo[p] \ {o} = {}
      BY <2>1, <2>4, <3>1, <3>2 DEF DeployInv
    <3>3. CASE todo[p] \ {o} # {}
      BY <2>1, <2>4, <3>1, <3>3 DEF DeployInv
    <3> QED BY <3>2, <3>3
  <2> QED BY <1>3, <1>5, <2>3, <2>5, QuietStep DEF LockNextUser
<1>6. CASE ReconcileNext(p)
  <2>1. \A q \in Procs \ {p} : Spares(q)
    BY <1>6 DEF ReconcileNext, Spares
  <2>2. DeployInv(p)'
    BY <1>6 DEF ReconcileNext, DeployInv
  <2> QED BY <1>3, <1>6, <2>1, <2>2, QuietStep DEF ReconcileNext
<1> QED BY <1>4, <1>5, <1>6

\* A commit changes only what its transaction holds the lock of, and leaves
\* that owner's ledger at the target of the facts it installs.
LEMMA CommitSteps ==
    ASSUME LedgerInv, TypeInv', NEW p \in Procs,
           \/ p \in Threads /\ Commit(p)
           \/ p \in Deployers /\ CommitDeploy(p)
    PROVE  LedgerInv'
<1>1. /\ TypeInv /\ Install(p) /\ EndTx(p) /\ ProcInv(p)
      /\ p \in Threads => p \notin Deployers
  BY ProcAssumption DEF LedgerInv, Procs, Commit, CommitDeploy
<1>2. /\ armed[p] \in Users \cup {NoOwner} /\ NoOwner \notin Users
      /\ delta[p] \in [Users -> Int] /\ posted \in [Users -> Int]
      /\ facts \in [Users -> [Rows -> Values]]
      /\ pc \in [Procs -> Points] /\ mode \in [Procs -> Kinds]
      /\ goal \in [Procs -> Int] /\ subject \in [Procs -> Users \cup {NoOwner}]
  BY <1>1, OwnerAssumption DEF TypeInv, TypeOK
<1>3. \A o \in Users : posted[o] = Target(facts[o])
  BY DEF LedgerInv, LedgerMatchesFacts
<1>4. ASSUME NEW o \in Users, o # armed[p]
      PROVE  facts'[o] = facts[o] /\ posted'[o] = posted[o]
  <2>1. delta[p][o] = 0
    BY <1>1, <1>4 DEF ProcInv, ThreadInv, DeployInv, NoDelta, Procs
  <2>2. Overlay(p, o) = [w \in Rows |-> facts[o][w]]
    BY <1>4 DEF Overlay
  <2>3. facts'[o] = Overlay(p, o) /\ posted'[o] = posted[o] + delta[p][o]
    BY <1>1 DEF Install
  <2> QED BY <1>2, <2>1, <2>2, <2>3
<1>5. ASSUME armed[p] \in Users
      PROVE  lock[armed[p]] = p /\ posted'[armed[p]] = Target(facts'[armed[p]])
  <2>1. /\ p \in Threads /\ Commit(p) /\ ThreadInv(p)
        /\ inTx[p] /\ mode[p] = "command" /\ pc[p] = "handler"
    BY <1>1, <1>2, <1>5 DEF ProcInv, DeployInv, Procs, Commit
  <2>2. /\ lock[armed[p]] = p
        /\ posted[armed[p]] + delta[p][armed[p]] = Target(Overlay(p, armed[p]))
    BY <1>5, <2>1 DEF ThreadInv
  <2> QED BY <1>1, <1>5, <2>2 DEF Install
<1>6. LedgerMatchesFacts'
  BY <1>3, <1>4, <1>5 DEF LedgerMatchesFacts
<1>7. ASSUME NEW q \in Procs \ {p} PROVE Spares(q)
  <2>1. \A o \in Users : lock[o] = q =>
           lock'[o] = q /\ facts'[o] = facts[o] /\ posted'[o] = posted[o]
    BY <1>1, <1>2, <1>4, <1>5, EndTxKeeps DEF LocksKept
  <2>2. /\ pc'[q] = pc[q] /\ mode'[q] = mode[q] /\ armed'[q] = armed[q]
        /\ goal'[q] = goal[q] /\ subject'[q] = subject[q] /\ todo'[q] = todo[q]
    BY <1>2 DEF Commit, CommitDeploy, request, recon
  <2> QED BY <1>1, <2>1, <2>2, EndTxKeeps DEF Spares
<1>8. ProcInv(p)'
  <2>1. /\ inTx'[p] = FALSE /\ staged'[p] = NothingStaged
        /\ delta'[p] = NoDelta /\ bumped'[p] = Unset
    BY <1>1, EndTxKeeps
  <2>2. CASE p \in Threads
    <3>1. pc'[p] = "handler"
      BY <1>1, <2>2, ProcAssumption DEF Commit
    <3>2. ThreadInv(p)'
      BY <1>6, <2>1, <3>1, CleanThread
    <3> QED BY <1>1, <2>2, <3>2 DEF ProcInv
  <2>3. CASE p \in Deployers
    <3>1. pc'[p] = "idle" /\ armed'[p] = armed[p] /\ p \notin Threads
      BY <1>1, <1>2, <2>3, ProcAssumption DEF CommitDeploy, request
    <3>2. DeployInv(p)'
      BY <1>1, <2>1, <2>3, <3>1 DEF ProcInv, DeployInv
    <3> QED BY <3>1, <3>2 DEF ProcInv
  <2> QED BY <2>2, <2>3 DEF Procs
<1> QED BY <1>1, <1>6, <1>7, <1>8, Frame DEF LedgerInv

LEMMA LedgerNext == LedgerInv /\ [Next]_vars => LedgerInv'
<1> SUFFICES ASSUME LedgerInv, [Next]_vars PROVE LedgerInv'
  OBVIOUS
<1>1. TypeInv'
  BY TypeNext DEF LedgerInv
<1>2. CASE UNCHANGED vars
  <2>1. \A q \in Procs : Spares(q)
    BY <1>2 DEF vars, db, request, tx, recon, Spares
  <2> QED BY <1>1, <1>2, <2>1, Frame
          DEF LedgerInv, LedgerMatchesFacts, vars, db
<1>3. ASSUME NEW p \in Procs, Progress(p) PROVE LedgerInv'
  BY <1>1, <1>3, RequestSteps, ReconcileSteps, DeploySteps, CommitSteps
  DEF Progress, Respond
<1>4. ASSUME NEW p \in Threads, StartRequest(p) \/ Raise(p) PROVE LedgerInv'
  BY <1>1, <1>4, RequestSteps DEF Raise
<1>5. ASSUME NEW p \in Deployers, StartDeploy(p) PROVE LedgerInv'
  BY <1>1, <1>5, DeploySteps
<1> QED BY <1>2, <1>3, <1>4, <1>5 DEF Next

\* In every committed state each owner's ledger nets to what the owner's facts
\* demand: no interleaving of requests and deploys loses or repeats a delta.
THEOREM LedgerCorrect == Spec => []LedgerMatchesFacts
<1>1. LedgerInv => LedgerMatchesFacts
  BY DEF LedgerInv
<1> QED BY <1>1, LedgerInit, LedgerNext, PTL DEF Spec

\* Facts and ledger of an owner change only in the commit of the transaction
\* that held the owner's lock.
THEOREM HolderWrites == Spec => OnlyTheHolderWrites
<1> DEFINE Held == \A o \in Users :
              facts'[o] # facts[o] \/ posted'[o] # posted[o]
                  => lock[o] # NoProc /\ lock'[o] = NoProc
<1>1. LedgerInv /\ [Next]_vars => [Held]_vars
  <2> SUFFICES ASSUME LedgerInv, Next PROVE Held
    BY DEF vars
  <2>1. ASSUME NEW p \in Procs,
               \/ p \in Threads /\ Commit(p)
               \/ p \in Deployers /\ CommitDeploy(p)
        PROVE  Held
    <3>1. Install(p) /\ EndTx(p) /\ ProcInv(p) /\ TypeInv
      BY <2>1 DEF LedgerInv, Commit, CommitDeploy
    <3>2. ASSUME NEW o \in Users, o # armed[p]
          PROVE  facts'[o] = facts[o] /\ posted'[o] = posted[o]
      <4>1. /\ delta[p][o] = 0 /\ posted[o] \in Int
            /\ facts[o] \in [Rows -> Values]
        BY <3>1, <3>2 DEF ProcInv, ThreadInv, DeployInv, NoDelta, Procs, TypeInv, TypeOK
      <4>2. Overlay(p, o) = [w \in Rows |-> facts[o][w]]
        BY <3>2 DEF Overlay
      <4> QED BY <3>1, <4>1, <4>2 DEF Install
    <3>3. ASSUME armed[p] \in Users
          PROVE  lock[armed[p]] = p /\ lock'[armed[p]] = NoProc
      BY <2>1, <3>1, <3>3, OwnerAssumption
      DEF ProcInv, ThreadInv, DeployInv, Commit, EndTx
    <3> QED BY <3>2, <3>3, ProcAssumption
  <2>2. ASSUME NEW p \in Procs, Progress(p) PROVE Held
    BY <2>1, <2>2
    DEF Progress, LoadUser, Guard, TakeRequestLock, FindAccount,
        BindSignInOwner, BeginStatement, Stage, Flush, BumpUser, ReadFacts,
        ReadPosted, EnterBlock, Respond, Teardown, ReadTarget, EmitDelta,
        LockNextUser, ReconcileNext, db
  <2> QED BY <2>2 DEF Next, StartRequest, Raise, Teardown, StartDeploy, db
<1> QED BY <1>1, LedgerInit, LedgerNext, PTL DEF Spec, OnlyTheHolderWrites

(***************************************************************************)
(* What binds a request to its actor, its owner's lock, its snapshot and   *)
(* its user row.                                                           *)
(***************************************************************************)

\* Where a request's handler has the owner armed, and where not yet.
AtWork == {"handler", "reconcile", "emit"}
BeforeWork == {"idle", "started", "loaded", "admitted", "refused", "found"}

\* Who may hold a lock: a request's open command transaction that of the armed
\* owner and no other; a deploy those below every id it has still to lock.
HoldingInv(p) ==
    /\ p \in Threads =>
          /\ pc[p] \in BeforeWork => armed[p] = NoOwner
          /\ \A o \in Users : lock[o] = p =>
                inTx[p] /\ mode[p] = "command" /\ armed[p] = o
    /\ p \in Deployers =>
          /\ pc[p] = "idle" => \A o \in Users : lock[o] # p
          /\ pc[p] = "locking" =>
                \A o \in Users, u \in todo[p] : lock[o] = p => o < u

\* Whom a request acts for, from the session cookie to the open transaction.
ActorInv(p) ==
    /\ pc[p] # "idle" => mode[p] \in {"query", "command"}
    /\ pc[p] \in {"idle", "started"} =>
          ~inTx[p] /\ actor[p] = Nobody /\ pending[p] = NoOwner
    /\ user[p] = Nobody =>
          /\ ~inTx[p] /\ actor[p] = Nobody
          /\ armed[p] = NoOwner /\ pending[p] = NoOwner
    /\ user[p] # Nobody =>
          /\ pc[p] \in {"loaded", "admitted", "refused"} =>
                inTx[p] /\ pending[p] = OwnerOf[user[p]]
          /\ pc[p] \in AtWork => armed[p] = OwnerOf[user[p]]
    /\ pc[p] = "found" => inTx[p] /\ mode[p] = "command"
    /\ inTx[p] /\ mode[p] = "command" /\ actor[p] # Nobody => txActor[p] = actor[p]
    /\ bumped[p] # Unset =>
          inTx[p] /\ mode[p] = "command" /\ user[p] # Nobody /\ pc[p] \in AtWork

\* The user row a request may rewrite is read under the lock of its owner.
CounterInv(p) ==
    armed[p] # NoOwner =>
        /\ pc[p] \in AtWork /\ mode[p] = "command" /\ bumped[p] = Unset
              => cached[p] = Unset
        /\ bumped[p] # Unset => bumped[p] = userRow[user[p]] + 1

\* What a query has read comes from the one snapshot it opened on.
Consistent(s) == \A o \in Users : s.posted[o] = Target(s.facts[o])

\* The snapshots a transaction may open on.
Snapshots == [facts : [Users -> [Rows -> Values]], posted : [Users -> Int]]

RenderInv(p) ==
    /\ inTx[p] /\ mode[p] = "query" => snap[p] \in Snapshots /\ Consistent(snap[p])
    /\ seenFacts[p] # {} \/ seenPosted[p] # {} =>
          /\ inTx[p] /\ mode[p] = "query" /\ pc[p] = "handler" /\ armed[p] \in Users
          /\ \A f \in seenFacts[p] : f = snap[p].facts[armed[p]]
          /\ \A n \in seenPosted[p] : n = snap[p].posted[armed[p]]

OwnInv(p) == /\ HoldingInv(p)
             /\ p \in Threads => ActorInv(p) /\ CounterInv(p) /\ RenderInv(p)

ReadTyped == /\ snap \in [Procs -> {NoSnapshot} \cup Snapshots]
             /\ seenFacts \in [Procs -> SUBSET [Rows -> Values]]
             /\ seenPosted \in [Procs -> SUBSET Int]

BindingInv == /\ LedgerInv
              /\ ReadTyped
              /\ \A p \in Procs : OwnInv(p)
              /\ NoLostUserUpdate

LEMMA BindingInit == Init => BindingInv
<1> SUFFICES ASSUME Init PROVE BindingInv
  OBVIOUS
<1>1. LedgerInv
  BY LedgerInit
<1>2. ReadTyped
  BY DEF Init, ReadTyped
<1>3. ASSUME NEW p \in Procs PROVE OwnInv(p)
  BY ProcAssumption, OwnerAssumption
  DEF Init, OwnInv, HoldingInv, ActorInv, CounterInv, RenderInv, Procs
<1>4. NoLostUserUpdate
  BY DEF Init, NoLostUserUpdate
<1> QED BY <1>1, <1>2, <1>3, <1>4 DEF BindingInv

\* The variables of a process are functions of the processes.
Typed ==
    /\ lock \in [Users -> Procs \cup {NoProc}]
    /\ pc \in [Procs -> Points] /\ mode \in [Procs -> Kinds]
    /\ user \in [Procs -> Users \cup {Nobody}]
    /\ actor \in [Procs -> Users \cup {Nobody}]
    /\ pending \in [Procs -> Users \cup {NoOwner}]
    /\ armed \in [Procs -> Users \cup {NoOwner}]
    /\ inTx \in [Procs -> BOOLEAN]
    /\ txActor \in [Procs -> Users \cup {Nobody}]
    /\ bumped \in [Procs -> Nat \cup {Unset}]
    /\ cached \in [Procs -> Nat \cup {Unset}]
    /\ todo \in [Procs -> SUBSET Users]
    /\ ReadTyped

LEMMA BindingTyped == ASSUME BindingInv PROVE Typed
  BY DEF BindingInv, LedgerInv, TypeInv, TypeOK, Typed

\* A step leaves q alone: neither its variables, nor who holds its locks, nor
\* the user row it is rewriting under one.
LeavesAlone(q) ==
    /\ pc'[q] = pc[q] /\ mode'[q] = mode[q] /\ user'[q] = user[q]
    /\ actor'[q] = actor[q] /\ pending'[q] = pending[q] /\ armed'[q] = armed[q]
    /\ inTx'[q] = inTx[q] /\ txActor'[q] = txActor[q] /\ snap'[q] = snap[q]
    /\ bumped'[q] = bumped[q] /\ cached'[q] = cached[q] /\ todo'[q] = todo[q]
    /\ seenFacts'[q] = seenFacts[q] /\ seenPosted'[q] = seenPosted[q]
    /\ \A o \in Users : lock'[o] = q <=> lock[o] = q
    /\ q \in Threads /\ bumped[q] # Unset /\ armed[q] # NoOwner
          => userRow'[user[q]] = userRow[user[q]]

LEMMA OwnFrame ==
    ASSUME NEW q \in Procs, OwnInv(q), LeavesAlone(q)
    PROVE  OwnInv(q)'
<1>1. HoldingInv(q)'
  BY DEF OwnInv, HoldingInv, LeavesAlone
<1>2. ASSUME q \in Threads PROVE ActorInv(q)'
  BY <1>2 DEF OwnInv, ActorInv, LeavesAlone
<1>3. ASSUME q \in Threads PROVE CounterInv(q)'
  BY <1>3 DEF OwnInv, CounterInv, LeavesAlone
<1>4. ASSUME q \in Threads PROVE RenderInv(q)'
  BY <1>4 DEF OwnInv, RenderInv, LeavesAlone, Consistent
<1> QED BY <1>1, <1>2, <1>3, <1>4 DEF OwnInv

\* A step of p that commits nothing keeps the invariant if it keeps p's part.
LEMMA QuietBinding ==
    ASSUME BindingInv, LedgerInv', NEW p \in Procs, UNCHANGED <<userRow, tally>>,
           ReadTyped', OwnInv(p)', \A q \in Procs \ {p} : LeavesAlone(q)
    PROVE  BindingInv'
  BY OwnFrame DEF BindingInv, NoLostUserUpdate

\* The other processes' view of a transaction that begins, is locked or ends.
LEMMA BeginTxFrame ==
    ASSUME Typed, NEW p \in Procs, BeginTx(p), NEW q \in Procs, q # p
    PROVE  /\ inTx'[q] = inTx[q] /\ txActor'[q] = txActor[q]
           /\ snap'[q] = snap[q]
           /\ \A o \in Users : lock'[o] = q <=> lock[o] = q
<1>1. lock' = lock \/ \E o \in Users : /\ lock[o] \in {NoProc, p}
                                       /\ lock' = [lock EXCEPT ![o] = p]
  BY DEF BeginTx, Typed, TakeOwnerLock, LockFree
<1>2. \A o \in Users : lock'[o] = q <=> lock[o] = q
  BY <1>1, ProcAssumption DEF Typed
<1>3. inTx'[q] = inTx[q] /\ txActor'[q] = txActor[q]
  BY DEF BeginTx, Typed
<1>4. snap'[q] = snap[q]
  BY DEF BeginTx, Typed, ReadTyped
<1> QED BY <1>2, <1>3, <1>4

LEMMA BeginTxOwn ==
    ASSUME Typed, NEW p \in Procs, BeginTx(p)
    PROVE  /\ ~inTx[p] /\ inTx'[p] = TRUE
           /\ mode[p] # "query" => txActor'[p] = actor[p] /\ snap'[p] = snap[p]
           /\ mode[p] = "query" => snap'[p] = Snapshot
           /\ \A o \in Users : lock'[o] = p /\ lock[o] # p
                 => mode[p] # "query" /\ o = armed[p]
           /\ bumped' = bumped
<1>1. CASE mode[p] = "query"
  BY <1>1 DEF BeginTx, Typed, ReadTyped
<1>2. CASE mode[p] # "query" /\ armed[p] = NoOwner
  BY <1>2 DEF BeginTx, Typed, ReadTyped
<1>3. CASE mode[p] # "query" /\ armed[p] # NoOwner
  <2>1. armed[p] \in Users /\ lock' = [lock EXCEPT ![armed[p]] = p]
    BY <1>3 DEF BeginTx, Typed, TakeOwnerLock, LockFree
  <2> QED BY <1>3, <2>1 DEF BeginTx, Typed, ReadTyped
<1> QED BY <1>1, <1>2, <1>3

LEMMA LockOpenTxFrame ==
    ASSUME Typed, NEW p \in Procs, NEW u \in Users \cup {NoOwner}, LockOpenTx(p, u)
    PROVE  /\ \A q \in Procs \ {p} :
                 /\ cached'[q] = cached[q] /\ armed'[q] = armed[q]
                 /\ \A o \in Users : lock'[o] = q <=> lock[o] = q
           /\ armed'[p] = IF u = NoOwner THEN armed[p] ELSE u
           /\ \A o \in Users : lock'[o] = p /\ lock[o] # p
                 => inTx[p] /\ mode[p] = "command" /\ o = u
           /\ u # NoOwner /\ inTx[p] /\ mode[p] = "command" => cached'[p] = Unset
<1>1. CASE u = NoOwner
  BY <1>1 DEF LockOpenTx, Typed
<1>2. CASE u # NoOwner /\ mode[p] = "command" /\ inTx[p]
  <2>1. lock[u] \in {NoProc, p} /\ lock' = [lock EXCEPT ![u] = p]
    BY <1>2 DEF LockOpenTx, TakeOwnerLock, LockFree
  <2> QED BY <1>2, <2>1, ProcAssumption, OwnerAssumption DEF LockOpenTx, Typed
<1>3. CASE u # NoOwner /\ ~(mode[p] = "command" /\ inTx[p])
  BY <1>3 DEF LockOpenTx, Typed
<1> QED BY <1>1, <1>2, <1>3

\* What another process sees of the end of p's transaction, and p itself.
LEMMA EndTxFrame ==
    ASSUME Typed, NEW p \in Procs, EndTx(p), NEW q \in Procs, q # p
    PROVE  /\ inTx'[q] = inTx[q] /\ txActor'[q] = txActor[q]
           /\ snap'[q] = snap[q] /\ bumped'[q] = bumped[q]
           /\ cached'[q] = cached[q]
           /\ seenFacts'[q] = seenFacts[q] /\ seenPosted'[q] = seenPosted[q]
           /\ \A o \in Users : lock'[o] = q <=> lock[o] = q
<1>1. q # NoProc
  BY ProcAssumption
<1> QED BY <1>1 DEF EndTx, Typed, ReadTyped

LEMMA EndTxOwn ==
    ASSUME Typed, NEW p \in Procs, EndTx(p)
    PROVE  /\ inTx'[p] = FALSE /\ bumped'[p] = Unset /\ cached'[p] = Unset
           /\ seenFacts'[p] = {} /\ seenPosted'[p] = {}
           /\ \A o \in Users : lock'[o] # p
           /\ ReadTyped'
<1>1. p # NoProc
  BY ProcAssumption
<1>2. ReadTyped'
  BY DEF EndTx, Typed, ReadTyped
<1> QED BY <1>1, <1>2 DEF EndTx, Typed, ReadTyped

\* A request from its first statement to its handler.
LEMMA DispatchSteps ==
    ASSUME BindingInv, LedgerInv', NEW p \in Threads,
           \/ StartRequest(p) \/ LoadUser(p) \/ Guard(p) \/ TakeRequestLock(p)
           \/ FindAccount(p) \/ BindSignInOwner(p)
    PROVE  BindingInv'
<1>1. /\ p \in Procs /\ p \notin Deployers /\ Typed
      /\ OwnInv(p) /\ HoldingInv(p) /\ ActorInv(p) /\ CounterInv(p) /\ RenderInv(p)
      /\ facts \in [Users -> [Rows -> Values]] /\ posted \in [Users -> Int]
      /\ Consistent(Snapshot)
  BY BindingTyped, ProcAssumption
  DEF BindingInv, OwnInv, Procs, LedgerInv, TypeInv, TypeOK, LedgerMatchesFacts,
      Consistent, Snapshot
<1>2. NoOwner \notin Users /\ Nobody \notin Users
      /\ \A u \in Users : OwnerOf[u] \in Users \cup {NoOwner}
  BY OwnerAssumption, UsersAssumption DEF Nobody
<1>3. OwnInv(p)' <=> HoldingInv(p)' /\ ActorInv(p)' /\ CounterInv(p)' /\ RenderInv(p)'
  BY <1>1 DEF OwnInv
<1>4. Snapshot \in Snapshots
  BY <1>1 DEF Snapshot, Snapshots
<1> USE <1>1, <1>2 DEF db, request, tx, reads, recon
<1>11. CASE StartRequest(p)
  <2>1. \A q \in Procs \ {p} : LeavesAlone(q)
    BY <1>11 DEF StartRequest, LeavesAlone, Typed
  <2>2. ReadTyped'
    BY <1>11 DEF StartRequest, Typed, ReadTyped
  <2>3. HoldingInv(p)'
    BY <1>11 DEF StartRequest, Typed, HoldingInv, ActorInv, BeforeWork
  <2>4. ActorInv(p)'
    BY <1>11 DEF StartRequest, Typed, HoldingInv, ActorInv, BeforeWork, AtWork
  <2>5. CounterInv(p)'
    BY <1>11 DEF StartRequest, Typed, HoldingInv, ActorInv, CounterInv, BeforeWork, AtWork
  <2>6. RenderInv(p)'
    BY <1>11 DEF StartRequest, Typed, ActorInv, RenderInv, Consistent
  <2> QED BY <1>3, <1>11, <2>1, <2>2, <2>3, <2>4, <2>5, <2>6, QuietBinding DEF StartRequest
<1>12. CASE LoadUser(p)
  <2>0. CASE user[p] = Nobody
    <3>1. \A q \in Procs \ {p} : LeavesAlone(q)
      BY <1>12, <2>0 DEF LoadUser, LeavesAlone, Typed
    <3>2. ReadTyped'
      BY <1>12, <2>0 DEF LoadUser, Typed, ReadTyped
    <3>3. HoldingInv(p)'
      BY <1>12, <2>0 DEF LoadUser, Typed, HoldingInv, BeforeWork
    <3>4. ActorInv(p)'
      BY <1>12, <2>0 DEF LoadUser, Typed, HoldingInv, ActorInv, AtWork
    <3>5. CounterInv(p)'
      BY <1>12, <2>0 DEF LoadUser, Typed, HoldingInv, ActorInv, CounterInv, BeforeWork, AtWork
    <3>6. RenderInv(p)'
      BY <1>12, <2>0 DEF LoadUser, Typed, RenderInv, Consistent
    <3> QED BY <1>3, <1>12, <3>1, <3>2, <3>3, <3>4, <3>5, <3>6, QuietBinding DEF LoadUser
  <2>1. CASE user[p] # Nobody
    <3>0. /\ inTx' = [inTx EXCEPT ![p] = TRUE]
          /\ snap' = [snap EXCEPT ![p] = IF mode[p] = "query" THEN Snapshot ELSE NoSnapshot]
          /\ cached' = [cached EXCEPT ![p] = userRow[user[p]]]
          /\ txActor' = [txActor EXCEPT ![p] = IF mode[p] = "query" THEN Nobody ELSE user[p]]
          /\ actor' = [actor EXCEPT ![p] = user[p]]
          /\ pending' = [pending EXCEPT ![p] = OwnerOf[user[p]]]
          /\ pc' = [pc EXCEPT ![p] = "loaded"] /\ pc[p] = "started"
          /\ UNCHANGED <<db, lock, armed, mode, user, block, left, staged, delta,
                         bumped, pend, recon, reads>>
      BY <1>12, <2>1 DEF LoadUser, BindActor
    <3>1. \A q \in Procs \ {p} : LeavesAlone(q)
      BY <3>0 DEF LeavesAlone, Typed
    <3>2. ReadTyped'
      BY <1>4, <3>0 DEF Typed, ReadTyped
    <3>3. HoldingInv(p)'
      BY <3>0 DEF Typed, HoldingInv, BeforeWork
    <3>4. ActorInv(p)'
      BY <2>1, <3>0 DEF Typed, HoldingInv, ActorInv, AtWork
    <3>5. CounterInv(p)'
      BY <3>0 DEF Typed, HoldingInv, CounterInv, BeforeWork, AtWork
    <3>6. RenderInv(p)'
      BY <1>4, <3>0 DEF Typed, RenderInv, Consistent, ReadTyped
    <3> QED BY <1>3, <3>0, <3>1, <3>2, <3>3, <3>4, <3>5, <3>6, QuietBinding
  <2> QED BY <2>0, <2>1
<1>13. CASE Guard(p)
  <2>1. \A q \in Procs \ {p} : LeavesAlone(q)
    BY <1>13 DEF Guard, LeavesAlone, Typed
  <2>2. ReadTyped'
    BY <1>13 DEF Guard, Typed, ReadTyped
  <2>3. HoldingInv(p)'
    BY <1>13 DEF Guard, Typed, HoldingInv, BeforeWork
  <2>4. ActorInv(p)'
    BY <1>13 DEF Guard, Typed, ActorInv, AtWork
  <2>5. CounterInv(p)'
    BY <1>13 DEF Guard, Typed, HoldingInv, CounterInv, BeforeWork
  <2>6. RenderInv(p)'
    BY <1>13 DEF Guard, Typed, RenderInv, Consistent
  <2> QED BY <1>3, <1>13, <2>1, <2>2, <2>3, <2>4, <2>5, <2>6, QuietBinding DEF Guard
<1>14. CASE TakeRequestLock(p)
  <2>0. /\ pending[p] \in Users \cup {NoOwner} /\ LockOpenTx(p, pending[p])
        /\ pc[p] = "admitted" /\ pc' = [pc EXCEPT ![p] = "handler"]
        /\ pending' = [pending EXCEPT ![p] = NoOwner]
        /\ UNCHANGED <<db, mode, user, actor, block, left, tx, pend, recon, reads>>
    BY <1>14 DEF TakeRequestLock, Typed
  <2>1. \A q \in Procs \ {p} : LeavesAlone(q)
    BY <2>0, LockOpenTxFrame DEF LeavesAlone, Typed
  <2>2. ReadTyped'
    BY <2>0 DEF Typed, ReadTyped
  <2>3. HoldingInv(p)'
    BY <2>0, LockOpenTxFrame DEF Typed, HoldingInv, BeforeWork
  <2>4. ActorInv(p)'
    BY <2>0, LockOpenTxFrame DEF Typed, HoldingInv, ActorInv, AtWork, BeforeWork
  <2>5. CounterInv(p)'
    BY <2>0, LockOpenTxFrame DEF Typed, HoldingInv, ActorInv, CounterInv, AtWork, BeforeWork
  <2>6. RenderInv(p)'
    BY <2>0 DEF Typed, RenderInv, Consistent
  <2> QED BY <1>3, <2>0, <2>1, <2>2, <2>3, <2>4, <2>5, <2>6, QuietBinding
<1>15. CASE FindAccount(p)
  <2>0. /\ BeginTx(p) /\ mode[p] = "command" /\ user[p] = Nobody
        /\ pc[p] = "handler" /\ pc' = [pc EXCEPT ![p] = "found"]
        /\ UNCHANGED <<db, mode, actor, pending, armed, block, left, pend, recon, reads>>
    BY <1>15 DEF FindAccount
  <2>7. PICK u \in Users : /\ user' = [user EXCEPT ![p] = u]
                           /\ cached' = [cached EXCEPT ![p] = userRow[u]]
    BY <1>15 DEF FindAccount
  <2>8. /\ \A q \in Procs \ {p} :
              /\ inTx'[q] = inTx[q] /\ txActor'[q] = txActor[q] /\ snap'[q] = snap[q]
              /\ \A o \in Users : lock'[o] = q <=> lock[o] = q
    BY <2>0, BeginTxFrame
  <2>10. /\ ~inTx[p] /\ inTx'[p] = TRUE /\ bumped' = bumped
         /\ \A o \in Users : lock'[o] = p /\ lock[o] # p => o = armed[p]
    BY <2>0, BeginTxOwn
  <2>9. armed[p] = NoOwner /\ actor[p] = Nobody /\ pending[p] = NoOwner
        /\ bumped[p] = Unset
    BY <2>0 DEF ActorInv
  <2>1. \A q \in Procs \ {p} : LeavesAlone(q)
    BY <2>0, <2>7, <2>8, <2>10 DEF LeavesAlone, Typed
  <2>2. ReadTyped'
    BY <1>4, <2>0 DEF Typed, ReadTyped, BeginTx
  <2>3. HoldingInv(p)'
    BY <2>0, <2>8, <2>9, <2>10 DEF Typed, HoldingInv, BeforeWork
  <2>4. ActorInv(p)'
    BY <2>0, <2>7, <2>8, <2>9, <2>10 DEF Typed, ActorInv, AtWork
  <2>5. CounterInv(p)'
    BY <2>0, <2>7 DEF Typed, ActorInv, CounterInv
  <2>6. RenderInv(p)'
    BY <2>0, <2>7 DEF Typed, RenderInv, Consistent
  <2> QED BY <1>3, <2>0, <2>1, <2>2, <2>3, <2>4, <2>5, <2>6, QuietBinding
<1>16. CASE BindSignInOwner(p)
  <2>0. /\ OwnerOf[user[p]] \in Users \cup {NoOwner} /\ LockOpenTx(p, OwnerOf[user[p]])
        /\ pc[p] = "found" /\ pc' = [pc EXCEPT ![p] = "handler"]
        /\ inTx[p] /\ mode[p] = "command" /\ user[p] \in Users
        /\ UNCHANGED <<db, mode, user, actor, pending, block, left, tx, pend, recon, reads>>
    BY <1>16 DEF BindSignInOwner, Typed, ActorInv
  <2>1. \A q \in Procs \ {p} : LeavesAlone(q)
    BY <2>0, LockOpenTxFrame DEF LeavesAlone, Typed
  <2>2. ReadTyped'
    BY <2>0 DEF Typed, ReadTyped
  <2>3. HoldingInv(p)'
    BY <2>0, LockOpenTxFrame DEF Typed, HoldingInv, BeforeWork
  <2>4. ActorInv(p)'
    BY <2>0, LockOpenTxFrame DEF Typed, HoldingInv, ActorInv, AtWork, BeforeWork
  <2>5. CounterInv(p)'
    BY <2>0, LockOpenTxFrame DEF Typed, HoldingInv, ActorInv, CounterInv, AtWork, BeforeWork
  <2>6. RenderInv(p)'
    BY <2>0 DEF Typed, RenderInv, Consistent
  <2> QED BY <1>3, <2>0, <2>1, <2>2, <2>3, <2>4, <2>5, <2>6, QuietBinding
<1> QED BY <1>11, <1>12, <1>13, <1>14, <1>15, <1>16

\* A request's handler: its statements, its reads, its blocks and its end.
LEMMA HandlerSteps ==
    ASSUME BindingInv, LedgerInv', NEW p \in Threads,
           \/ BeginStatement(p) \/ Stage(p) \/ Flush(p) \/ BumpUser(p)
           \/ ReadFacts(p) \/ ReadPosted(p) \/ EnterBlock(p) \/ Teardown(p)
    PROVE  BindingInv'
<1>1. /\ p \in Procs /\ p \notin Deployers /\ Typed
      /\ OwnInv(p) /\ HoldingInv(p) /\ ActorInv(p) /\ CounterInv(p) /\ RenderInv(p)
      /\ facts \in [Users -> [Rows -> Values]] /\ posted \in [Users -> Int]
      /\ userRow \in [Users -> Nat] /\ Consistent(Snapshot)
  BY BindingTyped, ProcAssumption
  DEF BindingInv, OwnInv, Procs, LedgerInv, TypeInv, TypeOK, LedgerMatchesFacts,
      Consistent, Snapshot
<1>2. NoOwner \notin Users /\ Nobody \notin Users
      /\ \A u \in Users : OwnerOf[u] \in Users \cup {NoOwner}
  BY OwnerAssumption, UsersAssumption DEF Nobody
<1>3. OwnInv(p)' <=> HoldingInv(p)' /\ ActorInv(p)' /\ CounterInv(p)' /\ RenderInv(p)'
  BY <1>1 DEF OwnInv
<1>4. Snapshot \in Snapshots
  BY <1>1 DEF Snapshot, Snapshots
<1> USE <1>1, <1>2 DEF db, request, tx, reads, recon
<1>11. CASE BeginStatement(p)
  <2>0. /\ BeginTx(p) /\ pc[p] = "handler" /\ user[p] # Nobody
        /\ UNCHANGED <<db, pc, mode, request, block, left, pend, cached, recon, reads>>
    BY <1>11 DEF BeginStatement
  <2>8. /\ \A q \in Procs \ {p} :
              /\ inTx'[q] = inTx[q] /\ txActor'[q] = txActor[q] /\ snap'[q] = snap[q]
              /\ \A o \in Users : lock'[o] = q <=> lock[o] = q
    BY <2>0, BeginTxFrame
  <2>10. /\ ~inTx[p] /\ inTx'[p] = TRUE /\ bumped' = bumped
         /\ mode[p] # "query" => txActor'[p] = actor[p]
         /\ mode[p] = "query" => snap'[p] = Snapshot
         /\ \A o \in Users : lock'[o] = p /\ lock[o] # p
               => mode[p] # "query" /\ o = armed[p]
    BY <2>0, BeginTxOwn
  <2>9. mode[p] \in {"query", "command"}
    BY <2>0 DEF ActorInv
  <2>1. \A q \in Procs \ {p} : LeavesAlone(q)
    BY <2>0, <2>8, <2>10 DEF LeavesAlone, Typed
  <2>2. ReadTyped'
    BY <1>4, <2>0 DEF Typed, ReadTyped, BeginTx
  <2>3. HoldingInv(p)'
    BY <2>0, <2>8, <2>9, <2>10 DEF Typed, HoldingInv, BeforeWork
  <2>4. ActorInv(p)'
    BY <2>0, <2>8, <2>9, <2>10 DEF Typed, ActorInv, AtWork
  <2>5. CounterInv(p)'
    BY <2>0, <2>8, <2>10 DEF Typed, CounterInv
  <2>6. RenderInv(p)'
    BY <1>4, <2>0, <2>8, <2>10 DEF Typed, RenderInv, Consistent
  <2> QED BY <1>3, <2>0, <2>1, <2>2, <2>3, <2>4, <2>5, <2>6, QuietBinding
<1>12. CASE Stage(p)
  <2>1. \A q \in Procs \ {p} : LeavesAlone(q)
    BY <1>12 DEF Stage, LeavesAlone, Typed
  <2>2. ReadTyped'
    BY <1>12 DEF Stage, Typed, ReadTyped
  <2>3. HoldingInv(p)'
    BY <1>12 DEF Stage, Typed, HoldingInv, BeforeWork
  <2>4. ActorInv(p)'
    BY <1>12 DEF Stage, Typed, ActorInv, AtWork
  <2>5. CounterInv(p)'
    BY <1>12 DEF Stage, Typed, CounterInv, AtWork
  <2>6. RenderInv(p)'
    BY <1>12 DEF Stage, Typed, RenderInv, Consistent
  <2> QED BY <1>3, <1>12, <2>1, <2>2, <2>3, <2>4, <2>5, <2>6, QuietBinding DEF Stage
<1>13. CASE Flush(p)
  <2>1. \A q \in Procs \ {p} : LeavesAlone(q)
    BY <1>13 DEF Flush, LeavesAlone, Typed
  <2>2. ReadTyped'
    BY <1>13 DEF Flush, Typed, ReadTyped
  <2>3. HoldingInv(p)'
    BY <1>13 DEF Flush, Typed, HoldingInv, BeforeWork
  <2>4. ActorInv(p)'
    BY <1>13 DEF Flush, Typed, ActorInv, AtWork
  <2>5. CounterInv(p)'
    BY <1>13 DEF Flush, Typed, CounterInv, AtWork
  <2>6. RenderInv(p)'
    <3>1. mode[p] = "command"
      BY <1>13 DEF Flush, BindingInv, LedgerInv, TypeInv, Placed
    <3> QED BY <1>13, <3>1 DEF Flush, Typed, RenderInv, Consistent
  <2> QED BY <1>3, <1>13, <2>1, <2>2, <2>3, <2>4, <2>5, <2>6, QuietBinding DEF Flush
<1>14. CASE BumpUser(p)
  <2> DEFINE read == IF cached[p] = Unset THEN userRow[user[p]] ELSE cached[p]
  <2>0. /\ pc[p] = "handler" /\ mode[p] = "command" /\ user[p] # Nobody /\ inTx[p]
        /\ bumped[p] = Unset
        /\ bumped' = [bumped EXCEPT ![p] = read + 1]
        /\ cached' = [cached EXCEPT ![p] = read + 1]
        /\ UNCHANGED <<db, lock, pc, mode, request, block, inTx, txActor,
                       snap, staged, delta, pend, recon, reads>>
    BY <1>14 DEF BumpUser
  <2>7. armed[p] # NoOwner => read = userRow[user[p]]
    BY <2>0 DEF CounterInv, AtWork
  <2>8. read \in Nat
    BY <2>0 DEF Typed
  <2> HIDE DEF read
  <2>1. \A q \in Procs \ {p} : LeavesAlone(q)
    BY <2>0 DEF LeavesAlone, Typed
  <2>2. ReadTyped'
    BY <2>0 DEF Typed, ReadTyped
  <2>3. HoldingInv(p)'
    BY <2>0 DEF Typed, HoldingInv
  <2>4. ActorInv(p)'
    BY <2>0 DEF Typed, ActorInv, AtWork
  <2>5. CounterInv(p)'
    BY <2>0, <2>7, <2>8 DEF Typed, CounterInv, AtWork, Unset
  <2>6. RenderInv(p)'
    BY <2>0 DEF Typed, RenderInv, Consistent
  <2> QED BY <1>3, <2>0, <2>1, <2>2, <2>3, <2>4, <2>5, <2>6, QuietBinding
<1>15. CASE ReadFacts(p)
  <2>0. /\ pc[p] = "handler" /\ mode[p] = "query" /\ inTx[p] /\ armed[p] \in Users
        /\ snap[p] \in Snapshots
    BY <1>15 DEF ReadFacts, Typed, RenderInv
  <2>1. \A q \in Procs \ {p} : LeavesAlone(q)
    BY <1>15 DEF ReadFacts, LeavesAlone, Typed, ReadTyped
  <2>2. ReadTyped'
    BY <1>15, <2>0 DEF ReadFacts, Typed, ReadTyped, Snapshots
  <2>3. HoldingInv(p)'
    BY <1>15 DEF ReadFacts, Typed, HoldingInv, BeforeWork
  <2>4. ActorInv(p)'
    BY <1>15 DEF ReadFacts, Typed, ActorInv, AtWork
  <2>5. CounterInv(p)'
    BY <1>15 DEF ReadFacts, Typed, CounterInv, AtWork
  <2>6. RenderInv(p)'
    BY <1>15, <2>0 DEF ReadFacts, Typed, ReadTyped, RenderInv, Consistent
  <2> QED BY <1>3, <1>15, <2>1, <2>2, <2>3, <2>4, <2>5, <2>6, QuietBinding DEF ReadFacts
<1>16. CASE ReadPosted(p)
  <2>0. /\ pc[p] = "handler" /\ mode[p] = "query" /\ inTx[p] /\ armed[p] \in Users
        /\ snap[p] \in Snapshots
    BY <1>16 DEF ReadPosted, Typed, RenderInv
  <2>1. \A q \in Procs \ {p} : LeavesAlone(q)
    BY <1>16 DEF ReadPosted, LeavesAlone, Typed, ReadTyped
  <2>2. ReadTyped'
    BY <1>16, <2>0 DEF ReadPosted, Typed, ReadTyped, Snapshots
  <2>3. HoldingInv(p)'
    BY <1>16 DEF ReadPosted, Typed, HoldingInv, BeforeWork
  <2>4. ActorInv(p)'
    BY <1>16 DEF ReadPosted, Typed, ActorInv, AtWork
  <2>5. CounterInv(p)'
    BY <1>16 DEF ReadPosted, Typed, CounterInv, AtWork
  <2>6. RenderInv(p)'
    BY <1>16, <2>0 DEF ReadPosted, Typed, ReadTyped, RenderInv, Consistent
  <2> QED BY <1>3, <1>16, <2>1, <2>2, <2>3, <2>4, <2>5, <2>6, QuietBinding DEF ReadPosted
<1>17. CASE EnterBlock(p)
  <2>0. /\ EndTx(p) /\ pc[p] = "handler" /\ user[p] # Nobody
        /\ mode' = [mode EXCEPT ![p] = "command"]
        /\ UNCHANGED <<db, pc, request, recon>>
    BY <1>17 DEF EnterBlock
  <2>1. \A q \in Procs \ {p} : LeavesAlone(q)
    <3> SUFFICES ASSUME NEW q \in Procs, q # p PROVE LeavesAlone(q)
      OBVIOUS
    <3>1. /\ inTx'[q] = inTx[q] /\ txActor'[q] = txActor[q] /\ snap'[q] = snap[q]
          /\ bumped'[q] = bumped[q] /\ cached'[q] = cached[q]
          /\ seenFacts'[q] = seenFacts[q] /\ seenPosted'[q] = seenPosted[q]
          /\ \A o \in Users : lock'[o] = q <=> lock[o] = q
      BY <2>0, EndTxFrame
    <3> QED BY <2>0, <3>1 DEF LeavesAlone, Typed
  <2>2. ReadTyped' /\ inTx'[p] = FALSE /\ bumped'[p] = Unset /\ cached'[p] = Unset
        /\ seenFacts'[p] = {} /\ seenPosted'[p] = {} /\ \A o \in Users : lock'[o] # p
    BY <2>0, EndTxOwn
  <2>3. HoldingInv(p)'
    BY <2>0, <2>2 DEF Typed, HoldingInv, BeforeWork
  <2>4. ActorInv(p)'
    BY <2>0, <2>2 DEF Typed, ActorInv, AtWork
  <2>5. CounterInv(p)'
    BY <2>0, <2>2 DEF CounterInv
  <2>6. RenderInv(p)'
    BY <2>2 DEF RenderInv
  <2> QED BY <1>3, <2>0, <2>1, <2>2, <2>3, <2>4, <2>5, <2>6, QuietBinding
<1>18. CASE Teardown(p)
  <2>0. /\ EndTx(p) /\ pc' = [pc EXCEPT ![p] = "idle"]
        /\ mode' = [mode EXCEPT ![p] = "none"]
        /\ user' = [user EXCEPT ![p] = Nobody]
        /\ actor' = [actor EXCEPT ![p] = Nobody]
        /\ pending' = [pending EXCEPT ![p] = NoOwner]
        /\ armed' = [armed EXCEPT ![p] = NoOwner]
        /\ UNCHANGED <<db, todo>>
    BY <1>18 DEF Teardown
  <2>1. \A q \in Procs \ {p} : LeavesAlone(q)
    <3> SUFFICES ASSUME NEW q \in Procs, q # p PROVE LeavesAlone(q)
      OBVIOUS
    <3>1. /\ inTx'[q] = inTx[q] /\ txActor'[q] = txActor[q] /\ snap'[q] = snap[q]
          /\ bumped'[q] = bumped[q] /\ cached'[q] = cached[q]
          /\ seenFacts'[q] = seenFacts[q] /\ seenPosted'[q] = seenPosted[q]
          /\ \A o \in Users : lock'[o] = q <=> lock[o] = q
      BY <2>0, EndTxFrame
    <3> QED BY <2>0, <3>1 DEF LeavesAlone, Typed
  <2>2. ReadTyped' /\ inTx'[p] = FALSE /\ bumped'[p] = Unset
        /\ seenFacts'[p] = {} /\ seenPosted'[p] = {} /\ \A o \in Users : lock'[o] # p
    BY <2>0, EndTxOwn
  <2>3. HoldingInv(p)'
    BY <2>0, <2>2 DEF Typed, HoldingInv, BeforeWork
  <2>4. ActorInv(p)'
    BY <2>0, <2>2 DEF Typed, ActorInv, AtWork
  <2>5. CounterInv(p)'
    BY <2>0, <2>2 DEF Typed, CounterInv
  <2>6. RenderInv(p)'
    BY <2>2 DEF RenderInv
  <2> QED BY <1>3, <2>0, <2>1, <2>2, <2>3, <2>4, <2>5, <2>6, QuietBinding
<1> QED BY <1>11, <1>12, <1>13, <1>14, <1>15, <1>16, <1>17, <1>18

\* The reads and the delta of a reconcile, and the steps of a deploy.
LEMMA ReconcileBinding ==
    ASSUME BindingInv, LedgerInv', NEW p \in Procs, ReadTarget(p) \/ EmitDelta(p)
    PROVE  BindingInv'
<1>1. /\ Typed /\ OwnInv(p) /\ (p \in Threads \/ p \in Deployers)
      /\ p \in Threads => p \notin Deployers
  BY BindingTyped, ProcAssumption DEF BindingInv, Procs
<1> USE <1>1 DEF db, request, tx, reads, recon
<1>2. UNCHANGED <<userRow, tally, lock, mode, user, actor, pending, armed, inTx,
                  txActor, snap, bumped, cached, todo, seenFacts, seenPosted>>
  BY DEF ReadTarget, EmitDelta
<1>3. /\ \A q \in Procs \ {p} : pc'[q] = pc[q]
      /\ pc[p] \in {"reconcile", "emit"}
      /\ p \in Threads => pc'[p] \in {"emit", "handler"}
      /\ p \in Deployers => pc'[p] \in {"emit", "deploy"}
  BY DEF ReadTarget, EmitDelta, Typed
<1>4. \A q \in Procs \ {p} : LeavesAlone(q)
  BY <1>2, <1>3 DEF LeavesAlone
<1>5. HoldingInv(p)'
  BY <1>2, <1>3 DEF OwnInv, HoldingInv, BeforeWork
<1>6. ASSUME p \in Threads PROVE ActorInv(p)' /\ CounterInv(p)' /\ RenderInv(p)'
  <2>1. ActorInv(p)'
    BY <1>2, <1>3, <1>6 DEF OwnInv, ActorInv, AtWork
  <2>2. CounterInv(p)'
    BY <1>2, <1>3, <1>6 DEF OwnInv, CounterInv, AtWork
  <2>3. RenderInv(p)'
    BY <1>2, <1>3, <1>6 DEF OwnInv, RenderInv, Consistent
  <2> QED BY <2>1, <2>2, <2>3
<1>7. ReadTyped'
  BY <1>2 DEF Typed, ReadTyped
<1> QED BY <1>2, <1>4, <1>5, <1>6, <1>7, QuietBinding DEF OwnInv

LEMMA DeployBinding ==
    ASSUME BindingInv, LedgerInv', NEW p \in Deployers,
           StartDeploy(p) \/ LockNextUser(p) \/ ReconcileNext(p)
    PROVE  BindingInv'
<1>1. /\ Typed /\ HoldingInv(p) /\ p \in Procs /\ p \notin Threads
      /\ OwnInv(p)' <=> HoldingInv(p)'
  BY BindingTyped, ProcAssumption DEF BindingInv, OwnInv, Procs
<1> USE <1>1 DEF db, request, tx, reads, recon
<1>2. CASE StartDeploy(p)
  <2>1. \A q \in Procs \ {p} : LeavesAlone(q)
    BY <1>2 DEF StartDeploy, LeavesAlone, Typed
  <2>2. HoldingInv(p)'
    BY <1>2 DEF StartDeploy, HoldingInv, Typed
  <2>3. ReadTyped'
    BY <1>2 DEF StartDeploy, Typed, ReadTyped
  <2> QED BY <1>2, <2>1, <2>2, <2>3, QuietBinding DEF StartDeploy
<1>3. CASE LockNextUser(p)
  <2>1. PICK o \in Users :
           /\ NextToLock(p, o) /\ TakeOwnerLock(p, o)
           /\ IF todo[p] \ {o} = {}
              THEN todo' = [todo EXCEPT ![p] = Users] /\ pc' = [pc EXCEPT ![p] = "deploy"]
              ELSE todo' = [todo EXCEPT ![p] = @ \ {o}] /\ UNCHANGED pc
    BY <1>3 DEF LockNextUser
  <2>2. /\ pc[p] = "locking"
        /\ UNCHANGED <<db, mode, request, block, left, tx, pend, cached, goal,
                       subject, reads>>
    BY <1>3 DEF LockNextUser
  <2>3. lock[o] \in {NoProc, p} /\ lock' = [lock EXCEPT ![o] = p]
    BY <2>1 DEF TakeOwnerLock, LockFree
  <2>4. \A q \in Procs \ {p} : todo'[q] = todo[q] /\ pc'[q] = pc[q]
    BY <2>1 DEF Typed
  <2>5. \A q \in Procs \ {p} : LeavesAlone(q)
    BY <2>2, <2>3, <2>4, ProcAssumption DEF LeavesAlone, Typed
  <2>6. HoldingInv(p)'
    <3>1. CASE todo[p] \ {o} = {}
      BY <2>1, <3>1 DEF HoldingInv, Typed
    <3>2. CASE todo[p] \ {o} # {}
      <4>1. todo'[p] = todo[p] \ {o} /\ pc' = pc
        BY <2>1, <3>2 DEF Typed
      <4>2. \A u \in todo[p] \ {o} : u \in Nat /\ o \in Nat /\ o <= u /\ o # u
        BY <2>1, UsersAssumption DEF NextToLock, Typed
      <4>3. \A u \in todo[p] \ {o} : o < u
        BY <4>2
      <4> QED BY <2>2, <2>3, <4>1, <4>3 DEF HoldingInv, Typed
    <3> QED BY <3>1, <3>2
  <2>7. ReadTyped'
    BY <2>2 DEF Typed, ReadTyped
  <2> QED BY <2>2, <2>5, <2>6, <2>7, QuietBinding
<1>4. CASE ReconcileNext(p)
  <2>1. \A q \in Procs \ {p} : LeavesAlone(q)
    BY <1>4 DEF ReconcileNext, LeavesAlone, Typed
  <2>2. HoldingInv(p)'
    BY <1>4 DEF ReconcileNext, HoldingInv, Typed
  <2>3. ReadTyped'
    BY <1>4 DEF ReconcileNext, Typed, ReadTyped
  <2> QED BY <1>4, <2>1, <2>2, <2>3, QuietBinding DEF ReconcileNext
<1> QED BY <1>2, <1>3, <1>4

\* Two requests that rewrite user rows under the locks of their owners rewrite
\* different ones.
LEMMA RewritersDiffer ==
    ASSUME BindingInv, NEW p \in Threads, NEW q \in Threads, p # q,
           bumped[p] # Unset, bumped[q] # Unset, armed[q] # NoOwner
    PROVE  user[p] # user[q]
<1>1. /\ p \in Procs /\ q \in Procs /\ armed[q] \in Users
      /\ ActorInv(p) /\ ActorInv(q) /\ ThreadInv(p) /\ ThreadInv(q)
  BY DEF BindingInv, LedgerInv, ProcInv, OwnInv, Procs, TypeInv, TypeOK
<1>2. /\ inTx[p] /\ mode[p] = "command" /\ armed[p] = OwnerOf[user[p]]
      /\ inTx[q] /\ mode[q] = "command" /\ armed[q] = OwnerOf[user[q]]
  BY <1>1 DEF ActorInv
<1>3. lock[armed[q]] = q
  BY <1>1, <1>2 DEF ThreadInv
<1>4. armed[p] = armed[q] => lock[armed[q]] = p
  BY <1>1, <1>2 DEF ThreadInv
<1> QED BY <1>2, <1>3, <1>4

\* A commit rewrites the row of its own user, once, from what it was.
LEMMA CommitBinding ==
    ASSUME BindingInv, LedgerInv', NEW p \in Procs,
           \/ p \in Threads /\ Commit(p)
           \/ p \in Deployers /\ CommitDeploy(p)
    PROVE  BindingInv'
<1>1. /\ Typed /\ OwnInv(p) /\ HoldingInv(p) /\ Install(p) /\ EndTx(p)
      /\ p \in Threads => p \notin Deployers
      /\ userRow \in [Users -> Nat] /\ tally \in [Users -> Nat]
  BY BindingTyped, ProcAssumption
  DEF BindingInv, OwnInv, Commit, CommitDeploy, LedgerInv, TypeInv, TypeOK
<1>2. p \in Deployers => bumped[p] = Unset
  BY DEF BindingInv, LedgerInv, ProcInv, DeployInv
<1>3. ASSUME NEW q \in Procs, q # p PROVE LeavesAlone(q)
  <2>1. /\ inTx'[q] = inTx[q] /\ txActor'[q] = txActor[q] /\ snap'[q] = snap[q]
        /\ bumped'[q] = bumped[q] /\ cached'[q] = cached[q]
        /\ seenFacts'[q] = seenFacts[q] /\ seenPosted'[q] = seenPosted[q]
        /\ \A o \in Users : lock'[o] = q <=> lock[o] = q
    BY <1>1, <1>3, EndTxFrame
  <2>2. /\ pc'[q] = pc[q] /\ mode'[q] = mode[q] /\ user'[q] = user[q]
        /\ actor'[q] = actor[q] /\ pending'[q] = pending[q]
        /\ armed'[q] = armed[q] /\ todo'[q] = todo[q]
    BY <1>1, <1>3 DEF Commit, CommitDeploy, Typed, request, recon
  <2>3. ASSUME q \in Threads, bumped[q] # Unset, armed[q] # NoOwner
        PROVE  userRow'[user[q]] = userRow[user[q]]
    <3>1. CASE bumped[p] = Unset
      BY <1>1, <3>1 DEF Install
    <3>2. CASE bumped[p] # Unset
      <4>1. p \in Threads /\ user[p] # user[q]
        BY <1>2, <1>3, <2>3, <3>2, RewritersDiffer DEF Procs
      <4>2. user[q] \in Users
        BY <1>1, <2>3 DEF BindingInv, OwnInv, ActorInv, Typed
      <4> QED BY <1>1, <3>2, <4>1, <4>2 DEF Install
    <3> QED BY <3>1, <3>2
  <2> QED BY <2>1, <2>2, <2>3 DEF LeavesAlone
<1>4. /\ ReadTyped' /\ inTx'[p] = FALSE /\ bumped'[p] = Unset /\ cached'[p] = Unset
      /\ seenFacts'[p] = {} /\ seenPosted'[p] = {} /\ \A o \in Users : lock'[o] # p
  BY <1>1, EndTxOwn
<1>5. ASSUME p \in Threads PROVE OwnInv(p)'
  <2>1. /\ Commit(p) /\ ActorInv(p) /\ CounterInv(p)
    BY <1>1, <1>5 DEF OwnInv
  <2>2. /\ pc[p] = "handler" /\ pc' = pc /\ mode[p] = "command" /\ inTx[p]
        /\ user' = user /\ actor' = actor /\ pending' = pending /\ armed' = armed
        /\ mode' = [mode EXCEPT ![p] = IF block[p] THEN "query" ELSE "command"]
    BY <2>1 DEF Commit, request
  <2>3. HoldingInv(p)'
    BY <1>1, <1>4, <1>5, <2>2 DEF HoldingInv, BeforeWork
  <2>4. mode'[p] \in {"query", "command"}
    BY <1>1, <2>2 DEF Typed
  <2>5. ActorInv(p)'
    BY <1>4, <2>1, <2>2, <2>4 DEF ActorInv, AtWork
  <2>6. CounterInv(p)' /\ RenderInv(p)'
    BY <1>4 DEF CounterInv, RenderInv
  <2> QED BY <1>1, <1>5, <2>3, <2>5, <2>6 DEF OwnInv, HoldingInv
<1>6. ASSUME p \in Deployers PROVE OwnInv(p)'
  <2>1. pc'[p] = "idle" /\ p \notin Threads
    BY <1>1, <1>6 DEF CommitDeploy, Typed
  <2> QED BY <1>4, <2>1 DEF OwnInv, HoldingInv
<1>7. NoLostUserUpdate'
  <2>1. CASE bumped[p] = Unset
    BY <1>1, <2>1 DEF Install, BindingInv, NoLostUserUpdate
  <2>2. CASE bumped[p] # Unset
    <3>1. /\ p \in Threads /\ ActorInv(p) /\ CounterInv(p) /\ user[p] \in Users
          /\ OwnerOf[user[p]] # NoOwner => bumped[p] = userRow[user[p]] + 1
      BY <1>1, <1>2, <2>2 DEF OwnInv, ActorInv, CounterInv, Typed, Procs
    <3>2. /\ userRow' = [userRow EXCEPT ![user[p]] = bumped[p]]
          /\ tally' = [tally EXCEPT ![user[p]] = tally[user[p]] + 1]
      BY <1>1, <2>2 DEF Install
    <3> QED BY <1>1, <3>1, <3>2 DEF BindingInv, NoLostUserUpdate
  <2> QED BY <2>1, <2>2
<1> QED BY <1>3, <1>4, <1>5, <1>6, <1>7, OwnFrame DEF BindingInv, Procs

LEMMA BindingNext == BindingInv /\ [Next]_vars => BindingInv'
<1> SUFFICES ASSUME BindingInv, [Next]_vars PROVE BindingInv'
  OBVIOUS
<1>1. LedgerInv'
  BY LedgerNext DEF BindingInv
<1>2. CASE UNCHANGED vars
  <2>1. \A q \in Procs : LeavesAlone(q)
    BY <1>2 DEF vars, db, request, tx, recon, reads, LeavesAlone
  <2>2. ReadTyped' /\ NoLostUserUpdate'
    BY <1>2 DEF BindingInv, ReadTyped, NoLostUserUpdate, vars, db, tx, reads
  <2> QED BY <1>1, <2>1, <2>2, OwnFrame DEF BindingInv
<1>3. ASSUME NEW p \in Procs, Progress(p) PROVE BindingInv'
  BY <1>1, <1>3, DispatchSteps, HandlerSteps, ReconcileBinding, DeployBinding,
     CommitBinding DEF Progress, Respond
<1>4. ASSUME NEW p \in Threads, StartRequest(p) \/ Raise(p) PROVE BindingInv'
  BY <1>1, <1>4, DispatchSteps, HandlerSteps DEF Raise
<1>5. ASSUME NEW p \in Deployers, StartDeploy(p) PROVE BindingInv'
  BY <1>1, <1>5, DeployBinding
<1> QED BY <1>2, <1>3, <1>4, <1>5 DEF Next

\* Every lock, row and user row a request touches is one it is bound to: only a
\* command let in by every hook holds a lock, and its writes name its actor.
THEOREM RequestsBound == Spec => []RequestsActAsBound
<1>1. BindingInv => RequestsActAsBound
  <2> SUFFICES ASSUME BindingInv PROVE RequestsActAsBound
    OBVIOUS
  <2>1. TypeOK
    BY DEF BindingInv, LedgerInv, TypeInv
  <2>2. ReadersAndRefusedHoldNoLock
    BY OwnerAssumption
    DEF ReadersAndRefusedHoldNoLock, BindingInv, OwnInv, HoldingInv, BeforeWork, Procs, TypeOK
  <2>3. WritesCarryTheirActor
    BY DEF WritesCarryTheirActor, BindingInv, LedgerInv, ProcInv, ThreadInv,
           OwnInv, ActorInv, Procs
  <2> QED BY <2>1, <2>2, <2>3 DEF RequestsActAsBound
<1> QED BY <1>1, BindingInit, BindingNext, PTL DEF Spec

\* A render's facts and ledger fit together, however many commits fall between
\* the statements that read them: all come from the query's one snapshot.
THEOREM RendersConsistent == Spec => []RenderIsConsistent
<1>1. BindingInv => RenderIsConsistent
  BY DEF BindingInv, OwnInv, RenderInv, Consistent, RenderIsConsistent, Procs
<1> QED BY <1>1, BindingInit, BindingNext, PTL DEF Spec

\* No update of a user row is lost for a user with an owner to lock.
THEOREM UserUpdatesKept == Spec => []NoLostUserUpdate
<1>1. BindingInv => NoLostUserUpdate
  BY DEF BindingInv
<1> QED BY <1>1, BindingInit, BindingNext, PTL DEF Spec

(***************************************************************************)
(* No wait cycle.  A request waits only for a lock, and only before it     *)
(* holds any; so whoever is waited for in a circle is a deploy, and the    *)
(* users one deploy still has to lock are fewer than those of the deploy   *)
(* that waits for it, since both take the locks in ascending order.        *)
(***************************************************************************)

\* A row lock is never waited for: who may write the row holds the owner's lock.
LEMMA RowsNeverAwaited ==
    ASSUME BindingInv, NEW p \in Procs, NEW q \in Procs, q # p,
           pc[p] = "handler", inTx[p], NEW e \in pend[p]
    PROVE  ~HoldsRow(q, armed[p], e[1])
<1> SUFFICES ASSUME HoldsRow(q, armed[p], e[1]) PROVE FALSE
  OBVIOUS
<1>1. /\ TypeInv /\ ProcInv(p) /\ ProcInv(q) /\ e[1] \in Rows
      /\ armed[p] \in Users /\ mode[p] = "command"
  BY DEF BindingInv, LedgerInv, TypeInv, TypeOK, Placed
<1>2. lock[armed[p]] = p
  BY <1>1 DEF ProcInv, ThreadInv, DeployInv, Procs
<1>3. staged[q] # NothingStaged /\ armed[q] = armed[p]
  BY <1>1 DEF HoldsRow, NothingStaged
<1>4. lock[armed[q]] = q
  BY <1>1, <1>3 DEF ProcInv, ThreadInv, DeployInv, Procs
<1> QED BY <1>2, <1>3, <1>4

\* A request that waits for a lock holds none.
LEMMA WaitersHoldNone ==
    ASSUME BindingInv, NEW p \in Threads, Wanted(p) # {}, NEW o \in Users
    PROVE  lock[o] # p
<1>1. p \in Procs /\ HoldingInv(p) /\ ThreadInv(p)
  BY DEF BindingInv, LedgerInv, ProcInv, OwnInv, Procs
<1>2. \/ pc[p] \in {"admitted", "found", "locking"}
      \/ pc[p] = "handler" /\ ~inTx[p]
  BY DEF Wanted
<1> QED BY <1>1, <1>2, OwnerAssumption DEF HoldingInv, ThreadInv, BeforeWork

\* A deploy that waits has begun to lock, and waits for the least id left.
LEMMA DeployWaits ==
    ASSUME BindingInv, NEW p \in Deployers, Wanted(p) # {}
    PROVE  pc[p] = "locking" /\ \A o \in Wanted(p) : o \in Users /\ NextToLock(p, o)
<1>1. pc[p] \in {"idle", "locking", "deploy", "reconcile", "emit"}
  BY DEF BindingInv, LedgerInv, ProcInv, DeployInv, Procs
<1> QED BY <1>1 DEF Wanted

\* The deploy that is waited for has strictly fewer users left to lock.
LEMMA AwaitedIsAhead ==
    ASSUME BindingInv, NEW d \in Deployers, NEW e \in Deployers, e # d,
           NEW o \in Wanted(d), lock[o] = e, pc[e] = "locking"
    PROVE  todo[e] \subseteq todo[d] /\ todo[e] # todo[d]
<1>1. /\ d \in Procs /\ e \in Procs /\ HoldingInv(d) /\ HoldingInv(e)
      /\ DeployInv(d) /\ todo[e] \subseteq Users /\ todo[d] \subseteq Users
  BY DEF BindingInv, LedgerInv, ProcInv, OwnInv, Procs, TypeInv, TypeOK
<1>2. pc[d] = "locking" /\ o \in Users /\ o \in todo[d] /\ \A u \in todo[d] : o <= u
  BY DeployWaits DEF NextToLock
<1>3. \A u \in todo[e] : o < u
  BY <1>1, <1>2 DEF HoldingInv
<1>4. o \notin todo[e]
  BY <1>2, <1>3, UsersAssumption
<1>5. ASSUME NEW u \in todo[e], u \notin todo[d] PROVE FALSE
  <2>1. lock[u] = d
    BY <1>1, <1>2, <1>5 DEF DeployInv
  <2>2. u < o
    BY <1>1, <1>2, <2>1 DEF HoldingInv
  <2>3. u \in Nat /\ o \in Nat /\ o < u
    BY <1>1, <1>2, <1>3, UsersAssumption
  <2> QED BY <2>2, <2>3
<1> QED BY <1>2, <1>4, <1>5

\* Transactions never wait in a circle, whatever locks and row locks they hold.
THEOREM NobodyWaitsInACircle == Spec => []NoWaitCycle
<1>1. BindingInv => NoWaitCycle
  <2> SUFFICES ASSUME BindingInv, NEW S \in SUBSET Procs, S # {},
                      \A p \in S : \E q \in S : q # p /\ WaitsFor(p, q)
               PROVE  FALSE
    BY DEF NoWaitCycle
  <2>1. \A p \in S : \E q \in S : q # p /\ \E o \in Wanted(p) : lock[o] = q
    BY RowsNeverAwaited DEF WaitsFor
  <2>2. ASSUME NEW p \in S
        PROVE  \E q \in S \cap Deployers : q # p /\ \E o \in Wanted(p) : lock[o] = q
    <3>1. PICK q \in S, o \in Wanted(p) : q # p /\ lock[o] = q
      BY <2>1
    <3>2. Wanted(q) # {}
      BY <2>1
    <3>3. o \in Users
      BY OwnerAssumption DEF Wanted, BindingInv, LedgerInv, TypeInv, TypeOK, Placed
    <3>4. q \notin Threads
      BY <3>1, <3>2, <3>3, WaitersHoldNone
    <3> QED BY <3>1, <3>4 DEF Procs
  <2> DEFINE D == S \cap Deployers
             Left == {todo[d] : d \in D}
             Subs == FiniteSubsetsOf(Users)
  <2>3. D # {}
    BY <2>2
  <2>4. \A d \in D : \E e \in D : todo[e] \subseteq todo[d] /\ todo[e] # todo[d]
    <3> SUFFICES ASSUME NEW d \in D
                 PROVE  \E e \in D : todo[e] \subseteq todo[d] /\ todo[e] # todo[d]
      OBVIOUS
    <3>1. PICK e \in D, o \in Wanted(d) : e # d /\ lock[o] = e
      BY <2>2
    <3>2. Wanted(e) # {}
      BY <2>1
    <3>3. pc[e] = "locking"
      BY <3>2, DeployWaits
    <3> QED BY <3>1, <3>3, AwaitedIsAhead
  <2>5. Left # {} /\ Left \subseteq Subs
    <3>1. \A d \in D : todo[d] \in SUBSET Users
      BY DEF BindingInv, LedgerInv, TypeInv, TypeOK, Procs
    <3>2. \A T \in SUBSET Users : T \in Subs
      BY UsersAssumption, FS_Subset DEF FiniteSubsetsOf
    <3> QED BY <2>3, <3>1, <3>2
  <2>6. IsWellFoundedOn(StrictSubsetOrdering(Users), Subs)
    BY UsersAssumption, FS_StrictSubsetOrderingWellFounded
  <2>7. PICK T \in Left : \A U \in Left : <<U, T>> \notin StrictSubsetOrdering(Users)
    <3> HIDE DEF Left, Subs
    <3> QED BY <2>5, <2>6, WFMin
  <2>8. PICK d \in D : T = todo[d]
    OBVIOUS
  <2>9. PICK e \in D : todo[e] \subseteq todo[d] /\ todo[e] # todo[d]
    BY <2>4
  <2>10. todo[d] \subseteq Users
    BY DEF BindingInv, LedgerInv, TypeInv, TypeOK, Procs
  <2>11. <<todo[e], todo[d]>> \in StrictSubsetOrdering(Users)
    BY <2>9, <2>10 DEF StrictSubsetOrdering
  <2> QED BY <2>7, <2>8, <2>11
<1> QED BY <1>1, BindingInit, BindingNext, PTL DEF Spec
----------------------------------------------------------------------------
(* Part two: the loan.                                                     *)

(***************************************************************************)
(* The order of events.  An event stands in the place that the events      *)
(* before it leave, so two orders agree up to an event when they have the  *)
(* same events before it.                                                  *)
(***************************************************************************)
EventType ==
    [kind : {"charge", "payment", "planned", "reset"}, at : Int, on : Int, who : Int, figure : Int]

\* Any two events are told apart by their day, their kind or their number.
Orderly(events) ==
    /\ IsFiniteSet(events) /\ events \subseteq EventType
    /\ \A e, f \in events : e # f => Before(e, f) \/ Before(f, e)

Below(events, e) == {f \in events : Before(f, e)}
Place(events, e) == Cardinality(Below(events, e)) + 1

\* Before is a strict order.
LEMMA BeforeStrict ==
    ASSUME NEW e \in EventType, NEW f \in EventType, NEW g \in EventType
    PROVE  /\ ~Before(e, e)
           /\ Before(e, f) => ~Before(f, e)
           /\ Before(e, f) /\ Before(f, g) => Before(e, g)
<1>1. \A h \in EventType : KindOrder(h.kind) \in Int /\ h.at \in Int /\ h.on \in Int /\ h.who \in Int
  BY DEF EventType, KindOrder
<1> QED
  BY <1>1 DEF Before

\* A part of an orderly set is orderly.
LEMMA PartOrderly ==
    ASSUME NEW E, Orderly(E), NEW S \in SUBSET E
    PROVE  Orderly(S)
BY FS_Subset DEF Orderly

\* Events have a first.
LEMMA FirstExists ==
    ASSUME NEW E, Orderly(E), E # {}
    PROVE  \E e \in E : \A f \in E \ {e} : Before(e, f)
<1> DEFINE P == {s \in SUBSET E : s # {} => \E e \in s : \A f \in s \ {e} : Before(e, f)}
<1>1. {} \in P
  OBVIOUS
<1>2. ASSUME NEW s \in SUBSET E, NEW x \in E \ s, s \in P
      PROVE  s \cup {x} \in P
  <2>1. CASE s = {}
    BY <2>1
  <2>2. CASE s # {}
    <3>1. PICK e \in s : \A f \in s \ {e} : Before(e, f)
      BY <1>2, <2>2
    <3>2. Before(e, x) \/ Before(x, e)
      BY DEF Orderly
    <3>3. CASE Before(e, x)
      BY <3>1, <3>3
    <3>4. CASE Before(x, e)
      <4>1. \A f \in (s \cup {x}) \ {x} : Before(x, f)
        BY <3>1, <3>4, BeforeStrict DEF Orderly
      <4> QED
        BY <4>1
    <3> QED
      BY <3>2, <3>3, <3>4
  <2> QED
    BY <2>1, <2>2
<1>3. E \in P
  <2> HIDE DEF P
  <2> QED BY <1>1, <1>2, ElementInduction DEF Orderly
<1> QED
  BY <1>3

\* Places are counted from 1 and rise with the order.
LEMMA PlaceFacts ==
    ASSUME NEW E, Orderly(E), NEW e \in E
    PROVE  /\ Place(E, e) \in 1..Cardinality(E)
           /\ Cardinality(E) \in Nat
           /\ \A f \in E : Before(e, f) <=> Place(E, e) < Place(E, f)
<1>1. \A f \in E : IsFiniteSet(Below(E, f)) /\ Cardinality(Below(E, f)) \in Nat
  BY FS_Subset, FS_CardinalityType DEF Below, Orderly
<1>2. Cardinality(E) \in Nat
  BY FS_CardinalityType DEF Orderly
<1>3. ASSUME NEW f \in E, NEW g \in E, Before(f, g)
      PROVE  Cardinality(Below(E, f)) < Cardinality(Below(E, g))
  <2>1. Below(E, f) \subseteq Below(E, g) \ {f} /\ f \in Below(E, g)
    BY <1>3, BeforeStrict DEF Below, Orderly
  <2>2. Cardinality(Below(E, g) \ {f}) = Cardinality(Below(E, g)) - 1 /\ IsFiniteSet(Below(E, g) \ {f})
    BY <1>1, <2>1, FS_RemoveElement, FS_Subset
  <2>3. Cardinality(Below(E, f)) <= Cardinality(Below(E, g) \ {f})
    BY <2>1, <2>2, FS_Subset
  <2> QED
    BY <1>1, <2>2, <2>3
<1>4. Cardinality(Below(E, e)) < Cardinality(E)
  <2>1. Below(E, e) \subseteq E \ {e}
    BY BeforeStrict DEF Below, Orderly
  <2>2. Cardinality(E \ {e}) = Cardinality(E) - 1 /\ IsFiniteSet(E \ {e})
    BY FS_RemoveElement, FS_Subset DEF Orderly
  <2>3. Cardinality(Below(E, e)) <= Cardinality(E \ {e})
    BY <2>1, <2>2, FS_Subset
  <2> QED
    BY <1>1, <1>2, <2>2, <2>3
<1>5. \A f \in E : Before(e, f) <=> Place(E, e) < Place(E, f)
  <2>1. SUFFICES ASSUME NEW f \in E PROVE Before(e, f) <=> Place(E, e) < Place(E, f)
    OBVIOUS
  <2>2. e = f \/ Before(e, f) \/ Before(f, e)
    BY DEF Orderly
  <2>3. Before(e, f) => Cardinality(Below(E, e)) < Cardinality(Below(E, f))
    BY <1>3
  <2>4. Before(f, e) => Cardinality(Below(E, f)) < Cardinality(Below(E, e))
    BY <1>3
  <2>5. e = f => ~Before(e, f)
    BY BeforeStrict DEF Orderly
  <2> QED
    BY <1>1, <2>2, <2>3, <2>4, <2>5 DEF Place
<1> QED
  BY <1>1, <1>2, <1>4, <1>5 DEF Place

\* The event first taken from events is before the rest, in the first place; the
\* rest move up one.
First(events) == CHOOSE e \in events : \A f \in events \ {e} : Before(e, f)

\* What is first, and what taking it away does to the places.
LEMMA FirstFacts ==
    ASSUME NEW E, Orderly(E), E # {}
    PROVE  /\ First(E) \in E
           /\ E \ {First(E)} \in SUBSET E /\ E \ {First(E)} # E
           /\ Cardinality(E \ {First(E)}) = Cardinality(E) - 1
           /\ Place(E, First(E)) = 1
           /\ \A e \in E \ {First(E)} : Place(E, e) = Place(E \ {First(E)}, e) + 1
<1> DEFINE first == First(E)
           rest == E \ {first}
<1>1. first \in E /\ \A f \in rest : Before(first, f)
  BY FirstExists DEF First
<1> HIDE DEF first
<1>2. Cardinality(rest) = Cardinality(E) - 1
  BY <1>1, FS_RemoveElement DEF Orderly
<1>3. Below(E, first) = {}
  <2>1. \A f \in E : ~Before(f, first)
    BY <1>1, BeforeStrict DEF Orderly
  <2> QED
    BY <2>1 DEF Below
<1>4. Place(E, first) = 1
  BY <1>3, FS_EmptySet DEF Place
<1>5. ASSUME NEW e \in rest
      PROVE  Place(E, e) = Place(rest, e) + 1
  <2>1. Below(E, e) = Below(rest, e) \cup {first} /\ first \notin Below(rest, e)
    BY <1>1 DEF Below
  <2>2. IsFiniteSet(Below(rest, e)) /\ Cardinality(Below(rest, e)) \in Nat
    <3>1. Below(rest, e) \in SUBSET E
      BY DEF Below
    <3> QED
      BY <3>1, FS_Subset, FS_CardinalityType DEF Orderly
  <2>3. Cardinality(Below(E, e)) = Cardinality(Below(rest, e)) + 1
    BY <2>1, <2>2, FS_AddElement
  <2> QED
    BY <2>3 DEF Place
<1> QED
  BY <1>1, <1>2, <1>4, <1>5 DEF first

\* Every place is taken.
LEMMA EveryPlaceTaken ==
    ASSUME NEW E, Orderly(E)
    PROVE  \A i \in 1..Cardinality(E) : \E e \in E : Place(E, e) = i
<1> DEFINE P == {s \in SUBSET E : \A i \in 1..Cardinality(s) : \E e \in s : Place(s, e) = i}
<1>1. ASSUME NEW s \in SUBSET E, \A u \in SUBSET s : u # s => u \in P
      PROVE  s \in P
  <2>1. Orderly(s) /\ Cardinality(s) \in Nat
    BY PartOrderly, FS_CardinalityType DEF Orderly
  <2>2. SUFFICES ASSUME NEW i \in 1..Cardinality(s) PROVE \E e \in s : Place(s, e) = i
    OBVIOUS
  <2>3. s # {}
    BY FS_EmptySet
  <2> DEFINE rest == s \ {First(s)}
  <2>4. /\ First(s) \in s /\ Place(s, First(s)) = 1
        /\ Cardinality(rest) = Cardinality(s) - 1
        /\ \A e \in rest : Place(s, e) = Place(rest, e) + 1
    BY <2>1, <2>3, FirstFacts
  <2>5. rest \in P
    <3>1. rest \in SUBSET s /\ rest # s
      BY <2>4
    <3> QED
      BY <1>1, <3>1
  <2>6. CASE i = 1
    BY <2>4, <2>6
  <2>7. CASE i # 1
    <3>1. i - 1 \in 1..Cardinality(rest)
      BY <2>1, <2>4, <2>7
    <3>2. PICK e \in rest : Place(rest, e) = i - 1
      BY <2>5, <3>1
    <3>3. Place(s, e) = i
      BY <2>4, <3>2
    <3> QED
      BY <3>2, <3>3
  <2> QED
    BY <2>6, <2>7
<1>2. \A s \in SUBSET E : s \in P
  <2> HIDE DEF P
  <2> QED BY <1>1, SubsetInduction DEF Orderly
<1> QED
  BY <1>2

\* The events in their places.
InPlace(events) == [i \in 1..Cardinality(events) |-> CHOOSE e \in events : Place(events, e) = i]

\* Each place of the order holds the event whose place it is.
LEMMA InPlaceFacts ==
    ASSUME NEW E, Orderly(E)
    PROVE  /\ Len(InPlace(E)) = Cardinality(E) /\ Len(InPlace(E)) \in Nat
           /\ DOMAIN InPlace(E) = 1..Cardinality(E)
           /\ \A i \in 1..Cardinality(E) : InPlace(E)[i] \in E /\ Place(E, InPlace(E)[i]) = i
           /\ \A e \in E : Place(E, e) \in 1..Cardinality(E) /\ InPlace(E)[Place(E, e)] = e
<1> DEFINE n == Cardinality(E)
           o == InPlace(E)
<1>1. n \in Nat
  BY FS_CardinalityType DEF Orderly
<1>2. ASSUME NEW i \in 1..n
      PROVE  o[i] \in E /\ Place(E, o[i]) = i
  <2>1. o[i] = CHOOSE e \in E : Place(E, e) = i
    BY DEF InPlace
  <2> QED
    BY <2>1, EveryPlaceTaken
<1>3. o = [i \in 1..n |-> o[i]] /\ o \in Seq(E) /\ Len(o) = n
  <2>1. o \in [1..n -> E]
    BY <1>2 DEF InPlace
  <2> HIDE DEF o, n
  <2> QED
    BY <1>1, <2>1
<1>4. ASSUME NEW e \in E
      PROVE  Place(E, e) \in 1..n /\ o[Place(E, e)] = e
  <2> DEFINE f == o[Place(E, e)]
  <2>1. Place(E, e) \in 1..n
    BY PlaceFacts
  <2>2. f \in E /\ Place(E, f) = Place(E, e)
    BY <1>2, <2>1
  <2>3. ~Before(e, f) /\ ~Before(f, e)
    BY <2>1, <2>2, PlaceFacts
  <2>4. f = e
    BY <2>2, <2>3 DEF Orderly
  <2> QED
    BY <2>1, <2>4
<1> QED
  BY <1>1, <1>2, <1>3, <1>4 DEF InPlace

\* No events, no places; else the first, then the rest in theirs.
LEMMA InPlaceUnfolds ==
    ASSUME NEW E, Orderly(E)
    PROVE  InPlace(E) = IF E = {} THEN <<>> ELSE <<First(E)>> \o InPlace(E \ {First(E)})
<1>1. CASE E = {}
  <2>1. Cardinality(E) = 0
    BY <1>1, FS_EmptySet
  <2> QED
    BY <1>1, <2>1, InPlaceFacts
<1>2. CASE E # {}
  <2> DEFINE rest == E \ {First(E)}
             n == Cardinality(E)
             o == InPlace(E)
             tail == InPlace(rest)
             both == <<First(E)>> \o tail
  <2>1. /\ First(E) \in E /\ rest \in SUBSET E
        /\ Cardinality(rest) = n - 1 /\ Place(E, First(E)) = 1
        /\ \A e \in rest : Place(E, e) = Place(rest, e) + 1
    BY <1>2, FirstFacts
  <2>2. Orderly(rest)
    BY PartOrderly
  <2>3. /\ n \in Nat /\ n >= 1 /\ Len(o) = n /\ DOMAIN o = 1..n /\ Len(tail) = n - 1
        /\ DOMAIN tail = 1..(n - 1)
        /\ \A e \in E : Place(E, e) \in 1..n /\ o[Place(E, e)] = e
        /\ \A i \in 1..(n - 1) : tail[i] \in rest /\ Place(rest, tail[i]) = i
    <3>1. /\ n \in Nat /\ Len(o) = n /\ DOMAIN o = 1..n
          /\ \A e \in E : Place(E, e) \in 1..n /\ o[Place(E, e)] = e
      BY InPlaceFacts, FS_CardinalityType DEF Orderly
    <3>2. /\ Len(tail) = n - 1 /\ DOMAIN tail = 1..(n - 1)
          /\ \A i \in 1..(n - 1) : tail[i] \in rest /\ Place(rest, tail[i]) = i
      BY <2>1, <2>2, InPlaceFacts
    <3>3. n >= 1
      BY <2>1, <3>1
    <3> HIDE DEF n, o, tail, rest
    <3> QED
      BY <3>1, <3>2, <3>3
  <2>4. tail \in Seq(E)
    <3>1. tail = [i \in 1..(n - 1) |-> tail[i]]
      <4>1. Cardinality(rest) = n - 1
        BY <2>1
      <4>2. tail = [i \in 1..Cardinality(rest) |-> tail[i]]
        BY DEF InPlace
      <4> HIDE DEF tail, n, rest
      <4> QED
        BY <4>1, <4>2
    <3>2. \A i \in 1..(n - 1) : tail[i] \in E
      BY <2>3
    <3> HIDE DEF tail, n
    <3> QED
      BY <2>3, <3>1, <3>2
  <2>5. Len(both) = n /\ \A i \in 1..n : both[i] = o[i]
    <3>1. Len(both) = n /\ both[1] = First(E) /\ \A i \in 2..n : both[i] = tail[i - 1]
      <4> HIDE DEF tail, n
      <4> QED BY <2>1, <2>3, <2>4
    <3>2. both[1] = o[1]
      BY <2>1, <2>3, <3>1
    <3>3. ASSUME NEW i \in 2..n PROVE both[i] = o[i]
      <4>1. i - 1 \in 1..(n - 1)
        BY <2>3
      <4>2. tail[i - 1] \in rest /\ Place(E, tail[i - 1]) = i
        <5>1. tail[i - 1] \in rest /\ Place(rest, tail[i - 1]) = i - 1
          BY <2>3, <4>1
        <5>2. Place(E, tail[i - 1]) = (i - 1) + 1
          BY <2>1, <5>1
        <5> QED
          BY <2>3, <5>1, <5>2
      <4>3. o[i] = tail[i - 1]
        BY <2>3, <4>2
      <4> QED
        BY <3>1, <4>3
    <3> HIDE DEF both, o
    <3> QED
      BY <2>3, <3>1, <3>2, <3>3
  <2>6. both \in Seq(E)
    <3> HIDE DEF tail
    <3> QED BY <2>1, <2>4
  <2>7. o = [i \in 1..n |-> o[i]]
    BY DEF InPlace
  <2>8. both = o
    <3> HIDE DEF both, o, n
    <3> QED BY <2>3, <2>5, <2>6, <2>7
  <2> QED
    BY <1>2, <2>8
<1> QED
  BY <1>1, <1>2

(***************************************************************************)
(* The recursion that orders events.                                       *)
(***************************************************************************)
OrderTable(table, events) ==
    table = [rest \in SUBSET events |->
               IF rest = {} THEN <<>> ELSE <<First(rest)>> \o table[rest \ {First(rest)}]]

\* The recursion reads the events in their places.
LEMMA OrderedIsInPlace ==
    ASSUME NEW s, NEW day, Orderly(Events(s, day))
    PROVE  Ordered(s, day) = InPlace(Events(s, day))
<1> DEFINE E == Events(s, day)
           table == CHOOSE t : OrderTable(t, E)
           inPlace == [rest \in SUBSET E |-> InPlace(rest)]
<1>1. Ordered(s, day) = table[E]
  BY DEF Ordered, OrderTable, First
<1>2. OrderTable(inPlace, E)
  <2>1. ASSUME NEW rest \in SUBSET E
        PROVE  InPlace(rest) = IF rest = {} THEN <<>>
                               ELSE <<First(rest)>> \o inPlace[rest \ {First(rest)}]
    <3>1. Orderly(rest)
      BY PartOrderly
    <3>2. inPlace[rest \ {First(rest)}] = InPlace(rest \ {First(rest)})
      OBVIOUS
    <3> QED
      BY <3>1, <3>2, InPlaceUnfolds
  <2>2. inPlace = [rest \in SUBSET E |-> IF rest = {} THEN <<>>
                                         ELSE <<First(rest)>> \o inPlace[rest \ {First(rest)}]]
    <3> HIDE DEF E
    <3> QED BY <2>1
  <2> QED
    BY <2>2 DEF OrderTable
<1>3. OrderTable(table, E)
  BY <1>2
<1> DEFINE P == {rest \in SUBSET E : table[rest] = InPlace(rest)}
<1>4. ASSUME NEW rest \in SUBSET E, \A u \in SUBSET rest : u # rest => u \in P
      PROVE  rest \in P
  <2>1. Orderly(rest)
    BY PartOrderly
  <2>2. table[rest] = IF rest = {} THEN <<>> ELSE <<First(rest)>> \o table[rest \ {First(rest)}]
    <3> HIDE DEF table, E
    <3> QED BY <1>3 DEF OrderTable
  <2>3. rest # {} => table[rest \ {First(rest)}] = InPlace(rest \ {First(rest)})
    BY <1>4, <2>1, FirstFacts
  <2> QED
    BY <2>1, <2>2, <2>3, InPlaceUnfolds
<1>5. \A rest \in SUBSET E : rest \in P
  <2> HIDE DEF P, E
  <2> QED BY <1>4, SubsetInduction DEF Orderly, E
<1> QED
  BY <1>1, <1>5

(***************************************************************************)
(* Installments.                                                           *)
(***************************************************************************)

\* The quotient of a division.
LEMMA Quotient ==
    ASSUME NEW a \in Int, NEW b \in Nat \ {0}
    PROVE  /\ a \div b \in Int
           /\ (a \div b) * b <= a /\ a < (a \div b) * b + b
OBVIOUS

\* A quotient of a natural number is one.
LEMMA QuotientNat ==
    ASSUME NEW a \in Nat, NEW b \in Nat \ {0}
    PROVE  a \div b \in Nat
<1> DEFINE q == a \div b
<1>1. q \in Int /\ a < q * b + b
  BY Quotient
<1> HIDE DEF q
<1>2. ASSUME q < 0 PROVE FALSE
  <2>1. q + 1 <= 0 /\ b \in Int /\ b > 0
    BY <1>1, <1>2
  <2>2. (q + 1) * b <= 0
    BY <1>1, <2>1
  <2>3. (q + 1) * b = q * b + b
    BY <1>1, <2>1
  <2> QED
    BY <1>1, <2>2, <2>3
<1> QED
  BY <1>1, <1>2 DEF q

\* A later day is in no earlier month.
LEMMA MonthsRise ==
    ASSUME NEW a \in Nat, NEW c \in Nat, a <= c
    PROVE  MonthOf(a) <= MonthOf(c) /\ MonthOf(a) \in Nat /\ MonthOf(c) \in Nat
<1>1. MonthLength \in Nat \ {0}
  BY LoanAssumption
<1>2. MonthOf(a) \in Nat /\ MonthOf(c) \in Nat
  BY <1>1, QuotientNat DEF MonthOf
<1> DEFINE x == MonthOf(a)
           y == MonthOf(c)
<1>3. x * MonthLength <= a /\ c < y * MonthLength + MonthLength
  BY <1>1, Quotient DEF MonthOf
<1> HIDE DEF x, y
<1>4. ASSUME y < x PROVE FALSE
  <2>1. x \in Nat /\ y \in Nat /\ y + 1 <= x
    BY <1>2, <1>4 DEF x, y
  <2>2. (y + 1) * MonthLength <= x * MonthLength
    BY <1>1, <2>1
  <2>3. (y + 1) * MonthLength = y * MonthLength + MonthLength
    BY <1>1, <2>1
  <2>4. y * MonthLength \in Int /\ x * MonthLength \in Int /\ MonthLength \in Int
    BY <1>1, <2>1
  <2> QED
    BY <1>3, <2>2, <2>3, <2>4
<1> QED
  BY <1>2, <1>4 DEF x, y

\* Installments fall after the origination, and those through an earlier day are
\* those up to it.
LEMMA InstallmentFacts ==
    ASSUME NEW day \in 0..(MonthLength - 1), NEW through \in Nat
    PROVE  /\ Installments(day, through) \subseteq (Origination + 1)..through
           /\ IsFiniteSet(Installments(day, through))
           /\ \A c \in Installments(day, through) : c \in Nat /\ Origination < c /\ c <= through
           /\ \A upTo \in 0..through :
                Installments(day, upTo) = {c \in Installments(day, through) : c <= upTo}
<1>1. MonthLength \in Nat \ {0} /\ Origination \in Nat
  BY LoanAssumption
<1> DEFINE first == MonthOf(Origination) + 1
<1>2. first \in Nat /\ Origination < first * MonthLength
  <2> DEFINE q == MonthOf(Origination)
  <2>1. q \in Nat /\ Origination < q * MonthLength + MonthLength
    BY <1>1, Quotient, QuotientNat DEF MonthOf
  <2> HIDE DEF q
  <2>2. (q + 1) * MonthLength = q * MonthLength + MonthLength
    BY <1>1, <2>1
  <2> QED
    BY <2>1, <2>2 DEF q
<1>3. ASSUME NEW m \in Nat, m >= first
      PROVE  m * MonthLength + day \in Nat /\ Origination < m * MonthLength + day
  <2>1. first * MonthLength <= m * MonthLength /\ m * MonthLength \in Nat /\ first * MonthLength \in Nat
    <3> HIDE DEF first
    <3> QED BY <1>1, <1>2, <1>3
  <2> HIDE DEF first
  <2> QED
    BY <1>1, <1>2, <2>1
<1>4. \A t \in Nat : MonthOf(t) \in Nat
  BY <1>1, QuotientNat DEF MonthOf
<1>5. ASSUME NEW t \in Nat
      PROVE  Installments(day, t) =
               {m * MonthLength + day : m \in first..MonthOf(t)} \cap 0..t
  BY DEF Installments
<1>6. Installments(day, through) \subseteq (Origination + 1)..through
  <2>1. SUFFICES ASSUME NEW c \in Installments(day, through) PROVE c \in (Origination + 1)..through
    OBVIOUS
  <2>2. PICK m \in first..MonthOf(through) : c = m * MonthLength + day
    BY <1>5
  <2>3. m \in Nat /\ m >= first /\ c \in 0..through
    BY <1>2, <1>4, <1>5
  <2> HIDE DEF first
  <2>4. c \in Nat /\ Origination < c
    BY <1>3, <2>2, <2>3
  <2> QED
    BY <1>1, <2>3, <2>4
<1>7. IsFiniteSet(Installments(day, through))
  BY <1>1, <1>6, SpanFinite
<1>8. ASSUME NEW upTo \in 0..through
      PROVE  Installments(day, upTo) = {c \in Installments(day, through) : c <= upTo}
  <2>0. upTo \in Nat /\ upTo <= through /\ MonthOf(upTo) <= MonthOf(through)
    BY MonthsRise
  <2>1. ASSUME NEW c \in Installments(day, upTo)
        PROVE  c \in Installments(day, through) /\ c <= upTo
    <3>1. PICK m \in first..MonthOf(upTo) : c = m * MonthLength + day
      BY <1>5, <2>0
    <3>2. m \in first..MonthOf(through) /\ c \in 0..through /\ c <= upTo
      BY <1>2, <1>4, <1>5, <2>0
    <3> HIDE DEF first
    <3> QED
      BY <1>5, <3>1, <3>2
  <2>2. ASSUME NEW c \in Installments(day, through), c <= upTo
        PROVE  c \in Installments(day, upTo)
    <3>1. PICK m \in first..MonthOf(through) : c = m * MonthLength + day
      BY <1>5
    <3>2. m \in Nat /\ c \in Nat /\ c \in 0..upTo
      BY <1>2, <1>5, <2>0, <2>2
    <3>3. m <= MonthOf(upTo)
      <4> DEFINE q == MonthOf(upTo)
      <4>1. q \in Nat /\ upTo < q * MonthLength + MonthLength
        BY <1>1, <2>0, Quotient, QuotientNat DEF MonthOf
      <4> HIDE DEF q, first
      <4>2. ASSUME q < m PROVE FALSE
        <5>1. (q + 1) * MonthLength <= m * MonthLength
          BY <1>1, <3>2, <4>1, <4>2
        <5>2. (q + 1) * MonthLength = q * MonthLength + MonthLength
          BY <1>1, <4>1
        <5>3. m * MonthLength \in Nat /\ q * MonthLength \in Nat
          BY <1>1, <3>2, <4>1
        <5> QED
          BY <1>1, <2>0, <2>2, <3>1, <3>2, <4>1, <5>1, <5>2, <5>3
      <4> QED
        BY <3>2, <4>1, <4>2 DEF q
    <3>4. m \in first..MonthOf(upTo)
      BY <1>2, <1>4, <2>0, <3>2, <3>3
    <3> HIDE DEF first
    <3> QED
      BY <1>5, <2>0, <3>1, <3>2, <3>4
  <2> QED
    BY <2>1, <2>2
<1>9. \A c \in Installments(day, through) : c \in Nat /\ Origination < c /\ c <= through
  BY <1>1, <1>6
<1> QED
  BY <1>6, <1>7, <1>8, <1>9

(***************************************************************************)
(* Streams of events.                                                      *)
(***************************************************************************)
Opening == [who |-> 0, on |-> Origination, balance |-> Principal, source |-> "opening"]

\* A stream the loaders return: each kind numbered, the opening the first
\* statement, and no two planned payments of one number on one day.
Sound(s) ==
    /\ IsFiniteSet(s.payments) /\ IsFiniteSet(s.resets) /\ IsFiniteSet(s.planned)
    /\ s.payments \subseteq [who : Nat, on : Days, cash : Nat, seen : Days]
    /\ s.resets \subseteq [who : Nat, on : Days, balance : Nat,
                           source : {"opening", "trueup", "start"}]
    /\ s.planned \subseteq [who : Nat, on : Nat, cash : Nat, seen : Nat]
    /\ \A p, q \in s.payments : p.who = q.who => p = q
    /\ \A r, q \in s.resets : r.who = q.who => r = q
    /\ \A p, q \in s.planned : p.who = q.who /\ p.on = q.on => p = q
    /\ Opening \in s.resets
    /\ \A r \in s.resets : Origination <= r.on /\ (r.source = "opening" => r = Opening)

PaymentDaysInMonth == 0..(MonthLength - 1)

\* What a stream records is typed.
LEMMA SoundTypes ==
    ASSUME NEW s, Sound(s)
    PROVE  /\ \A p \in s.payments : p.who \in Nat /\ p.on \in Days /\ p.cash \in Nat /\ p.seen \in Days
           /\ \A r \in s.resets : /\ r.who \in Nat /\ r.on \in Days /\ r.balance \in Nat
                                   /\ r.source \in {"opening", "trueup", "start"}
           /\ \A p \in s.planned : p.who \in Nat /\ p.on \in Nat /\ p.cash \in Nat
           /\ IsFiniteSet(s.payments) /\ IsFiniteSet(s.resets) /\ IsFiniteSet(s.planned)
           /\ \A d \in Days : d \in Nat
<1>1. /\ s.payments \subseteq [who : Nat, on : Days, cash : Nat, seen : Days]
      /\ s.resets \subseteq [who : Nat, on : Days, balance : Nat,
                             source : {"opening", "trueup", "start"}]
      /\ s.planned \subseteq [who : Nat, on : Nat, cash : Nat, seen : Nat]
  BY DEF Sound
<1>2. \A p \in s.payments : p.who \in Nat /\ p.on \in Days /\ p.cash \in Nat /\ p.seen \in Days
  BY <1>1
<1>3. \A r \in s.resets : /\ r.who \in Nat /\ r.on \in Days /\ r.balance \in Nat
                           /\ r.source \in {"opening", "trueup", "start"}
  BY <1>1
<1>4. \A p \in s.planned : p.who \in Nat /\ p.on \in Nat /\ p.cash \in Nat
  BY <1>1
<1>5. \A d \in Days : d \in Nat
  BY LoanAssumption DEF Days
<1> QED
  BY <1>2, <1>3, <1>4, <1>5 DEF Sound

\* A stream has a last recorded day, before its boundary.
LEMMA RecordedFacts ==
    ASSUME NEW s, Sound(s)
    PROVE  /\ RecordedDays(s) \subseteq Days /\ IsFiniteSet(RecordedDays(s))
           /\ Origination \in RecordedDays(s)
           /\ Max(RecordedDays(s)) \in Days
           /\ Boundary(s) \in Nat
           /\ \A d \in RecordedDays(s) : d <= Max(RecordedDays(s)) /\ d < Boundary(s)
<1> DEFINE recorded == s.payments \cup s.resets
<1>1. IsFiniteSet(recorded)
  BY FS_Union DEF Sound
<1>2. RecordedDays(s) = {e.on : e \in recorded}
  BY DEF RecordedDays
<1>3. IsFiniteSet(RecordedDays(s))
  <2> DEFINE day == [e \in recorded |-> e.on]
  <2>1. RecordedDays(s) = {day[e] : e \in recorded}
    BY <1>2
  <2> HIDE DEF recorded, day
  <2> QED
    BY <1>1, <2>1, ImageFinite
<1>4. RecordedDays(s) \subseteq Days
  <2>1. \A e \in recorded : e.on \in Days
    BY DEF Sound
  <2> QED
    BY <1>2, <2>1
<1>5. Origination \in RecordedDays(s)
  <2>1. Opening \in recorded /\ Opening.on = Origination
    BY DEF Sound, Opening
  <2> QED
    BY <1>2, <2>1
<1>6. Days \subseteq Nat /\ Days \subseteq Int
  BY LoanAssumption DEF Days
<1>7. Max(RecordedDays(s)) \in RecordedDays(s) /\ \A d \in RecordedDays(s) : d <= Max(RecordedDays(s))
  BY <1>2, <1>3, <1>4, <1>5, <1>6, MaxFacts
<1>8. Max(RecordedDays(s)) \in Days /\ Max(RecordedDays(s)) \in Nat
  BY <1>4, <1>6, <1>7
<1>9. Boundary(s) \in Nat /\ \A d \in RecordedDays(s) : d < Boundary(s)
  <2>1. \A d \in RecordedDays(s) : d \in Int /\ d <= Max(RecordedDays(s))
    BY <1>4, <1>6, <1>7
  <2> QED
    BY <1>8, <2>1 DEF Boundary
<1> QED
  BY <1>3, <1>4, <1>5, <1>7, <1>8, <1>9

\* The charges of a stream, and those up to a recorded day.
LEMMA ChargeFacts ==
    ASSUME NEW s, Sound(s), NEW day \in PaymentDaysInMonth
    PROVE  /\ IsFiniteSet(Charges(s, day))
           /\ \A c \in Charges(s, day) : c \in Nat /\ Origination < c
           /\ s.planned = {} => Charges(s, day) = Installments(day, Max(RecordedDays(s)))
           /\ \A through \in 0..Max(RecordedDays(s)) :
                Installments(day, through) = {c \in Charges(s, day) : c <= through}
<1> DEFINE ahead == {e.on : e \in s.planned}
           all == RecordedDays(s) \cup ahead
<1>1. IsFiniteSet(ahead) /\ ahead \subseteq Nat
  <2> DEFINE plannedOn == [e \in s.planned |-> e.on]
  <2>1. ahead = {plannedOn[e] : e \in s.planned} /\ IsFiniteSet(s.planned)
    BY DEF Sound
  <2>2. IsFiniteSet({plannedOn[e] : e \in s.planned})
    <3> HIDE DEF plannedOn
    <3> QED BY <2>1, ImageFinite
  <2>3. \A e \in s.planned : e.on \in Nat
    BY SoundTypes
  <2>4. IsFiniteSet(ahead)
    BY <2>1, <2>2, Zenon
  <2> QED
    BY <2>3, <2>4
<1>2. IsFiniteSet(all) /\ all \subseteq Int /\ all \subseteq Nat /\ all # {}
  <2>1. IsFiniteSet(all)
    BY <1>1, RecordedFacts, FS_Union
  <2>2. RecordedDays(s) \subseteq Nat /\ RecordedDays(s) # {}
    BY RecordedFacts, LoanAssumption DEF Days
  <2> QED
    BY <1>1, <2>1, <2>2
<1>3. Max(all) \in Nat /\ \A d \in all : d <= Max(all)
  <2> HIDE DEF all
  <2> QED BY <1>2, MaxFacts
<1>4. Max(RecordedDays(s)) \in all /\ Max(RecordedDays(s)) \in Nat
  BY RecordedFacts, <1>2, MaxFacts
<1>5. Charges(s, day) = Installments(day, Max(all))
  BY DEF Charges
<1>6. s.planned = {} => all = RecordedDays(s)
  OBVIOUS
<1>7. \A through \in 0..Max(RecordedDays(s)) : through \in 0..Max(all)
  <2> HIDE DEF all
  <2> QED BY <1>3, <1>4
<1> HIDE DEF all
<1> QED
  BY <1>3, <1>5, <1>6, <1>7, InstallmentFacts DEF PaymentDaysInMonth

\* The events of each kind.
ChargeEvents(s, day) == {Event("charge", c, c, 0, 0) : c \in Charges(s, day)}
PaymentEvents(s) == {Event("payment", e.on, e.on, e.who, e.cash) : e \in s.payments}
ResetEvents(s) == {Event("reset", e.on, e.on, e.who, e.balance) : e \in s.resets}
PlannedEvents(s) == {Event("planned", PushedTo(s, e.on), e.on, e.who, e.cash) : e \in s.planned}

\* Each event of a stream is of one kind, and says what it was made from.
LEMMA EventsByKind ==
    ASSUME NEW s, Sound(s), NEW day \in PaymentDaysInMonth
    PROVE  /\ Events(s, day) = ChargeEvents(s, day) \cup PaymentEvents(s) \cup ResetEvents(s)
                                 \cup PlannedEvents(s)
           /\ \A e \in ChargeEvents(s, day) :
                e \in EventType /\ e.kind = "charge" /\ e.at = e.on /\ e.on \in Charges(s, day)
                /\ e.who = 0 /\ e.figure = 0
           /\ \A e \in PaymentEvents(s) :
                /\ e \in EventType /\ e.kind = "payment" /\ e.at = e.on
                /\ \E p \in s.payments : e.who = p.who /\ e.on = p.on /\ e.figure = p.cash
           /\ \A e \in ResetEvents(s) :
                /\ e \in EventType /\ e.kind = "reset" /\ e.at = e.on
                /\ \E r \in s.resets : e.who = r.who /\ e.on = r.on /\ e.figure = r.balance
           /\ \A e \in PlannedEvents(s) :
                /\ e \in EventType /\ e.kind = "planned" /\ e.at >= Boundary(s)
                /\ \E p \in s.planned : e.who = p.who /\ e.on = p.on /\ e.figure = p.cash
                                        /\ e.at = PushedTo(s, p.on)
<1>0. \A d \in Days : d \in Int
  BY LoanAssumption DEF Days
<1>t. /\ \A c \in Charges(s, day) : c \in Int
      /\ \A p \in s.payments : p.who \in Int /\ p.on \in Int /\ p.cash \in Int
      /\ \A r \in s.resets : r.who \in Int /\ r.on \in Int /\ r.balance \in Int
  <2>1. \A c \in Charges(s, day) : c \in Int
    BY ChargeFacts
  <2> QED
    <3>1. ASSUME NEW p \in s.payments PROVE p.who \in Int /\ p.on \in Int /\ p.cash \in Int
      <4>1. p.who \in Nat /\ p.on \in Days /\ p.cash \in Nat
        BY SoundTypes
      <4> QED
        BY <1>0, <4>1
    <3>2. ASSUME NEW r \in s.resets PROVE r.who \in Int /\ r.on \in Int /\ r.balance \in Int
      <4>1. r.who \in Nat /\ r.on \in Days /\ r.balance \in Nat
        BY SoundTypes
      <4> QED
        BY <1>0, <4>1
    <3> QED
      BY <2>1, <3>1, <3>2
<1>1. \A c \in Charges(s, day) : Event("charge", c, c, 0, 0) \in EventType
  BY <1>t DEF Event, EventType
<1>2. \A p \in s.payments : Event("payment", p.on, p.on, p.who, p.cash) \in EventType
  BY <1>t DEF Event, EventType
<1>3. \A r \in s.resets : Event("reset", r.on, r.on, r.who, r.balance) \in EventType
  BY <1>t DEF Event, EventType
<1>4. ASSUME NEW p \in s.planned
      PROVE  /\ Event("planned", PushedTo(s, p.on), p.on, p.who, p.cash) \in EventType
             /\ PushedTo(s, p.on) >= Boundary(s)
  <2>1. p.on \in Nat /\ p.who \in Nat /\ p.cash \in Nat /\ Boundary(s) \in Nat
    BY RecordedFacts, SoundTypes
  <2>2. {p.on, Boundary(s)} \subseteq Int /\ IsFiniteSet({p.on, Boundary(s)})
    <3>1. {p.on, Boundary(s)} = ({} \cup {p.on}) \cup {Boundary(s)}
      OBVIOUS
    <3>2. IsFiniteSet({p.on, Boundary(s)})
      <4>1. IsFiniteSet({} \cup {p.on})
        BY FS_EmptySet, FS_AddElement
      <4>2. IsFiniteSet(({} \cup {p.on}) \cup {Boundary(s)})
        BY <4>1, FS_AddElement
      <4> QED
        BY <3>1, <4>2, Zenon
    <3> QED
      BY <2>1, <3>2
  <2>3. PushedTo(s, p.on) \in Int /\ Boundary(s) <= PushedTo(s, p.on)
    BY <2>2, MaxFacts DEF PushedTo
  <2> QED
    BY <2>1, <2>3 DEF Event, EventType
<1>5. Events(s, day) = ChargeEvents(s, day) \cup PaymentEvents(s) \cup ResetEvents(s)
                         \cup PlannedEvents(s)
  BY DEF Events, ChargeEvents, PaymentEvents, ResetEvents, PlannedEvents
<1>6. \A e \in ChargeEvents(s, day) :
        e \in EventType /\ e.kind = "charge" /\ e.at = e.on /\ e.on \in Charges(s, day)
        /\ e.who = 0 /\ e.figure = 0
  BY <1>1 DEF ChargeEvents, Event
<1>7. \A e \in PaymentEvents(s) :
        /\ e \in EventType /\ e.kind = "payment" /\ e.at = e.on
        /\ \E p \in s.payments : e.who = p.who /\ e.on = p.on /\ e.figure = p.cash
  BY <1>2 DEF PaymentEvents, Event
<1>8. \A e \in ResetEvents(s) :
        /\ e \in EventType /\ e.kind = "reset" /\ e.at = e.on
        /\ \E r \in s.resets : e.who = r.who /\ e.on = r.on /\ e.figure = r.balance
  BY <1>3 DEF ResetEvents, Event
<1>9. \A e \in PlannedEvents(s) :
        /\ e \in EventType /\ e.kind = "planned" /\ e.at >= Boundary(s)
        /\ \E p \in s.planned : e.who = p.who /\ e.on = p.on /\ e.figure = p.cash
                                /\ e.at = PushedTo(s, p.on)
  BY <1>4 DEF PlannedEvents, Event
<1> QED
  BY <1>5, <1>6, <1>7, <1>8, <1>9

\* Events are told apart, so they can be put in order.
LEMMA EventsOrderly ==
    ASSUME NEW s, Sound(s), NEW day \in PaymentDaysInMonth
    PROVE  Orderly(Events(s, day))
<1> DEFINE E == Events(s, day)
<1>0. /\ E = ChargeEvents(s, day) \cup PaymentEvents(s) \cup ResetEvents(s) \cup PlannedEvents(s)
      /\ \A e \in ChargeEvents(s, day) :
           e \in EventType /\ e.kind = "charge" /\ e.who = 0 /\ e.figure = 0
      /\ \A e \in PaymentEvents(s) :
           /\ e \in EventType /\ e.kind = "payment" /\ e.at = e.on
           /\ \E p \in s.payments : e.who = p.who /\ e.on = p.on /\ e.figure = p.cash
      /\ \A e \in ResetEvents(s) :
           /\ e \in EventType /\ e.kind = "reset" /\ e.at = e.on
           /\ \E r \in s.resets : e.who = r.who /\ e.on = r.on /\ e.figure = r.balance
      /\ \A e \in PlannedEvents(s) :
           /\ e \in EventType /\ e.kind = "planned" /\ e.at >= Boundary(s)
           /\ \E p \in s.planned : e.who = p.who /\ e.on = p.on /\ e.figure = p.cash
  BY EventsByKind
<1>1. E \subseteq EventType
  <2> HIDE DEF E
  <2> QED BY <1>0
<1>2. IsFiniteSet(E)
  <2>1. IsFiniteSet(ChargeEvents(s, day))
    <3> DEFINE made == [c \in Charges(s, day) |-> Event("charge", c, c, 0, 0)]
    <3>1. ChargeEvents(s, day) = {made[c] : c \in Charges(s, day)} /\ IsFiniteSet(Charges(s, day))
      BY ChargeFacts DEF ChargeEvents, Sound
    <3> HIDE DEF made
    <3> QED
      BY <3>1, ImageFinite
  <2>2. IsFiniteSet(PaymentEvents(s))
    <3> DEFINE made == [c \in s.payments |-> Event("payment", c.on, c.on, c.who, c.cash)]
    <3>1. PaymentEvents(s) = {made[c] : c \in s.payments} /\ IsFiniteSet(s.payments)
      BY DEF PaymentEvents, Sound
    <3> HIDE DEF made
    <3> QED
      BY <3>1, ImageFinite
  <2>3. IsFiniteSet(ResetEvents(s))
    <3> DEFINE made == [c \in s.resets |-> Event("reset", c.on, c.on, c.who, c.balance)]
    <3>1. ResetEvents(s) = {made[c] : c \in s.resets} /\ IsFiniteSet(s.resets)
      BY DEF ResetEvents, Sound
    <3> HIDE DEF made
    <3> QED
      BY <3>1, ImageFinite
  <2>4. IsFiniteSet(PlannedEvents(s))
    <3> DEFINE made == [c \in s.planned |-> Event("planned", PushedTo(s, c.on), c.on, c.who, c.cash)]
    <3>1. PlannedEvents(s) = {made[c] : c \in s.planned} /\ IsFiniteSet(s.planned)
      BY DEF PlannedEvents, Sound
    <3> HIDE DEF made
    <3> QED
      BY <3>1, ImageFinite
  <2> QED
    <3>1. IsFiniteSet(ChargeEvents(s, day) \cup PaymentEvents(s))
      BY <2>1, <2>2, FS_Union
    <3>2. IsFiniteSet(ChargeEvents(s, day) \cup PaymentEvents(s) \cup ResetEvents(s))
      BY <2>3, <3>1, FS_Union
    <3>3. IsFiniteSet(ChargeEvents(s, day) \cup PaymentEvents(s) \cup ResetEvents(s)
                        \cup PlannedEvents(s))
      BY <2>4, <3>2, FS_Union
    <3> QED
      BY <1>0, <3>3, Zenon
<1>3. \A e \in E : e.kind \in {"payment", "reset"} => e.at < Boundary(s) /\ e.at = e.on
  <2>1. \A p \in s.payments \cup s.resets : p.on < Boundary(s)
    BY RecordedFacts DEF RecordedDays
  <2> QED
    BY <1>0, <2>1
<1>4. ASSUME NEW e \in E, NEW f \in E, e.at = f.at, e.on = f.on, e.who = f.who,
             KindOrder(e.kind) = KindOrder(f.kind)
      PROVE  e = f
  <2>1. e \in EventType /\ f \in EventType
    BY <1>1
  <2>2. e.kind = f.kind
    <3>1. \A g \in E : g.kind = "planned" => g.at >= Boundary(s)
      <4> HIDE DEF E
      <4> QED BY <1>0
    <3>2. ~(e.kind = "planned" /\ f.kind = "payment") /\ ~(f.kind = "planned" /\ e.kind = "payment")
      BY <1>3, <1>4, <2>1, <3>1, RecordedFacts DEF EventType
    <3> QED
      BY <1>4, <2>1, <3>2 DEF KindOrder, EventType
  <2>3. e.figure = f.figure
    <3>1. CASE e.kind = "charge"
      BY <2>2, <3>1, <1>0
    <3>2. CASE e.kind = "payment"
      <4>1. e \in PaymentEvents(s) /\ f \in PaymentEvents(s)
        BY <2>2, <3>2, <1>0
      <4> QED
        BY <1>4, <4>1, <1>0 DEF Sound
    <3>3. CASE e.kind = "reset"
      <4>1. e \in ResetEvents(s) /\ f \in ResetEvents(s)
        BY <2>2, <3>3, <1>0
      <4> QED
        BY <1>4, <4>1, <1>0 DEF Sound
    <3>4. CASE e.kind = "planned"
      <4>1. e \in PlannedEvents(s) /\ f \in PlannedEvents(s)
        BY <2>2, <3>4, <1>0
      <4> QED
        BY <1>4, <4>1, <1>0 DEF Sound
    <3> QED
      BY <2>1, <3>1, <3>2, <3>3, <3>4 DEF EventType
  <2> QED
    BY <1>4, <2>1, <2>2, <2>3 DEF EventType
<1>5. ASSUME NEW e \in E, NEW f \in E, e # f
      PROVE  Before(e, f) \/ Before(f, e)
  <2>1. \A h \in EventType : KindOrder(h.kind) \in Int /\ h.at \in Int /\ h.on \in Int /\ h.who \in Int
    BY DEF EventType, KindOrder
  <2>2. e \in EventType /\ f \in EventType
    BY <1>1
  <2>3. \/ e.at # f.at \/ e.on # f.on \/ e.who # f.who
        \/ KindOrder(e.kind) # KindOrder(f.kind)
    BY <1>4, <1>5
  <2> HIDE DEF E
  <2> QED
    BY <2>1, <2>2, <2>3 DEF Before
<1> QED
  BY <1>1, <1>2, <1>5 DEF Orderly

(***************************************************************************)
(* The states of a replay.                                                 *)
(***************************************************************************)
StartState ==
    [balance |-> 0, due |-> NothingDue, standing |-> None, payment |-> <<>>, reset |-> <<>>]

StateTable(table, s, t, x, o) ==
    table = [i \in 0..Len(o) |->
               IF i = 0 THEN StartState
               ELSE CHOOSE next \in {AfterEvent(state, s, t, x, o, i) :
                                       state \in {table[i - 1]}} : TRUE]

\* The state after each event of an order.
States(s, t, x, o) == CHOOSE table : StateTable(table, s, t, x, o)

\* The replay is the last state, and each is what its event makes of the one before.
LEMMA StatesStep ==
    ASSUME NEW s, NEW t, NEW x, NEW o, Len(o) \in Nat
    PROVE  /\ Replayed(s, t, x, o) = States(s, t, x, o)[Len(o)]
           /\ States(s, t, x, o)[0] = StartState
           /\ \A i \in 1..Len(o) :
                States(s, t, x, o)[i] = AfterEvent(States(s, t, x, o)[i - 1], s, t, x, o, i)
<1> DEFINE n == Len(o)
           NextState(state, i) == AfterEvent(state, s, t, x, o, i)
           Upto(table, k) == table = [i \in 0..k |-> IF i = 0 THEN StartState
                                                      ELSE NextState(table[i - 1], i)]
           P == {k \in 0..n : \E table : Upto(table, k)}
<1>1. ASSUME NEW state, NEW i
      PROVE  (CHOOSE next \in {AfterEvent(st, s, t, x, o, i) : st \in {state}} : TRUE)
               = NextState(state, i)
  <2>1. {AfterEvent(st, s, t, x, o, i) : st \in {state}} = {NextState(state, i)}
    OBVIOUS
  <2>2. (CHOOSE next \in {NextState(state, i)} : TRUE) = NextState(state, i)
    <3> HIDE DEF NextState
    <3> QED OBVIOUS
  <2> QED
    BY <2>1, <2>2, Zenon
<1>2. 0 \in P
  <2> DEFINE table == [i \in 0..0 |-> IF i = 0 THEN StartState ELSE StartState]
  <2>1. table = [i \in 0..0 |-> IF i = 0 THEN StartState ELSE NextState(table[i - 1], i)]
    <3> HIDE DEF NextState
    <3> QED OBVIOUS
  <2>2. Upto(table, 0)
    BY <2>1
  <2>3. 0 \in 0..n
    OBVIOUS
  <2> HIDE DEF Upto
  <2> QED
    BY <2>2, <2>3
<1>3. ASSUME NEW k \in 0..n, k # n, k \in P
      PROVE  k + 1 \in P
  <2>1. PICK table : Upto(table, k)
    BY <1>3
  <2> DEFINE longer == [i \in 0..(k + 1) |-> IF i = k + 1 THEN NextState(table[k], k + 1) ELSE table[i]]
  <2>2. \A i \in 0..k : table[i] = IF i = 0 THEN StartState ELSE NextState(table[i - 1], i)
    <3> HIDE DEF NextState
    <3> QED BY <2>1
  <2>3. \A i \in 0..k : longer[i] = table[i]
    OBVIOUS
  <2>4. longer[k + 1] = NextState(longer[k], k + 1)
    BY <2>3
  <2>5. ASSUME NEW i \in 0..(k + 1)
        PROVE  longer[i] = IF i = 0 THEN StartState ELSE NextState(longer[i - 1], i)
    <3>1. CASE i = k + 1
      <4> HIDE DEF longer, NextState
      <4> QED BY <2>4, <3>1
    <3>2. CASE i # k + 1 /\ i # 0
      <4>1. i \in 0..k /\ i - 1 \in 0..k
        BY <3>2
      <4> HIDE DEF longer, NextState
      <4> QED BY <2>2, <2>3, <3>2, <4>1
    <3>3. CASE i = 0
      <4>1. 0 \in 0..k
        OBVIOUS
      <4> HIDE DEF longer, NextState
      <4> QED BY <2>2, <2>3, <3>3, <4>1
    <3> QED
      BY <3>1, <3>2, <3>3
  <2>6. longer = [i \in 0..(k + 1) |-> longer[i]]
    OBVIOUS
  <2>7. Upto(longer, k + 1)
    <3> HIDE DEF longer, NextState
    <3> QED BY <2>5, <2>6
  <2>8. k + 1 \in 0..n
    BY <1>3
  <2> HIDE DEF Upto
  <2> QED
    BY <2>7, <2>8
<1>4. n \in P
  <2>1. \A k \in 0..n : k \in P
    <3> HIDE DEF P
    <3> QED BY <1>2, <1>3, UpTo
  <2> HIDE DEF P
  <2> QED BY <2>1
<1>5. \E table : StateTable(table, s, t, x, o)
  <2>1. PICK table : Upto(table, n)
    BY <1>4
  <2>2. StateTable(table, s, t, x, o)
    <3> HIDE DEF NextState
    <3> QED BY <1>1, <2>1 DEF StateTable
  <2> QED
    BY <2>2
<1>6. StateTable(States(s, t, x, o), s, t, x, o)
  BY <1>5 DEF States
<1>7. Replayed(s, t, x, o) = States(s, t, x, o)[Len(o)]
  BY DEF Replayed, States, StateTable, StartState
<1>8. States(s, t, x, o)[0] = StartState
  BY <1>6 DEF StateTable
<1>9. ASSUME NEW i \in 1..n
      PROVE  States(s, t, x, o)[i] = NextState(States(s, t, x, o)[i - 1], i)
  <2>1. i \in 0..Len(o) /\ i # 0
    OBVIOUS
  <2>2. States(s, t, x, o)[i] =
          CHOOSE next \in {AfterEvent(state, s, t, x, o, i) :
                             state \in {States(s, t, x, o)[i - 1]}} : TRUE
    BY <1>6, <2>1 DEF StateTable
  <2> QED
    BY <1>1, <2>2
<1> QED
  BY <1>7, <1>8, <1>9

\* A replay walks one order of its stream.
LEMMA ReplayIs ==
    ASSUME NEW s, NEW t, NEW x
    PROVE  Replay(s, t, x) = Replayed(s, t, x, Ordered(s, t.payDay))
<1> DEFINE walk == Replayed(s, t, x, Ordered(s, t.payDay))
           walks == UNION {{Replayed(a, b, x, order) : order \in {Ordered(a, b.payDay)}} :
                             a \in {s}, b \in {t}}
<1>1. walks = {walk}
  <2>1. \A a \in {s}, b \in {t} :
          {Replayed(a, b, x, order) : order \in {Ordered(a, b.payDay)}} = {walk}
    OBVIOUS
  <2> DEFINE inner(a, b) == {Replayed(a, b, x, order) : order \in {Ordered(a, b.payDay)}}
  <2>2. inner(s, t) = {walk}
    BY <2>1
  <2> HIDE DEF inner, walk
  <2>3. {inner(a, b) : a \in {s}, b \in {t}} = {inner(s, t)}
    OBVIOUS
  <2>4. UNION {inner(s, t)} = {walk}
    BY <2>2
  <2>5. UNION {inner(a, b) : a \in {s}, b \in {t}} = {walk}
    BY <2>3, <2>4
  <2> QED
    BY <2>5 DEF inner
<1>2. Replay(s, t, x) = CHOOSE w \in walks : TRUE
  BY DEF Replay
<1>3. \A v : (CHOOSE w \in {v} : TRUE) = v
  OBVIOUS
<1> HIDE DEF walks, walk
<1> QED
  BY <1>1, <1>2, <1>3 DEF walk

(***************************************************************************)
(* One step of the replay.                                                 *)
(***************************************************************************)
IsState(st) ==
    st = [balance |-> st.balance, due |-> st.due, standing |-> st.standing,
          payment |-> st.payment, reset |-> st.reset]

Kept(t, start, st, event) == IF start # None /\ event.on <= start THEN NothingDue ELSE st.due

\* What a charge does to a state.
LEMMA ChargeStep ==
    ASSUME NEW st, IsState(st), NEW s, NEW t, NEW x, NEW o, NEW i, o[i].kind = "charge"
    PROVE  AfterEvent(st, s, t, x, o, i) =
             [balance |-> st.balance,
              due |-> Plus(Kept(t, FirstTrackingStart(s), st, o[i]),
                           Accrued(t, Boundary(s), x, o[i].on, st.balance)),
              standing |-> o[i].on, payment |-> st.payment, reset |-> st.reset]
<1> DEFINE kept == Kept(t, FirstTrackingStart(s), st, o[i])
           accrued == Accrued(t, Boundary(s), x, o[i].on, st.balance)
<1>1. AfterEvent(st, s, t, x, o, i) = [st EXCEPT !.standing = o[i].on, !.due = Plus(kept, accrued)]
  <2>1. AfterEvent(st, s, t, x, o, i) =
          AfterCharge(st, t, Boundary(s), x, FirstTrackingStart(s), o[i])
    BY DEF AfterEvent, Pays
  <2>2. AfterCharge(st, t, Boundary(s), x, FirstTrackingStart(s), o[i]) =
          [st EXCEPT !.standing = o[i].on, !.due = Plus(kept, accrued)]
    BY Zenon DEF AfterCharge, Kept
  <2> QED
    BY <2>1, <2>2
<1> HIDE DEF kept, accrued
<1>2. st = [balance |-> st.balance, due |-> st.due, standing |-> st.standing,
            payment |-> st.payment, reset |-> st.reset]
  BY DEF IsState
<1>3. AfterEvent(st, s, t, x, o, i) =
        [balance |-> st.balance, due |-> Plus(kept, accrued), standing |-> o[i].on,
         payment |-> st.payment, reset |-> st.reset]
  BY <1>1, <1>2
<1> QED
  BY <1>3 DEF kept, accrued

SplitAt(st, event) == Split(event.figure + st.due.extra, st.balance, st.due)
EntryAt(st, event) == [split |-> SplitAt(st, event), charge |-> st.standing]

\* What a recorded payment does to a state.
LEMMA PaymentStep ==
    ASSUME NEW st, IsState(st), NEW s, NEW t, NEW x, NEW o, NEW i, o[i].kind = "payment"
    PROVE  AfterEvent(st, s, t, x, o, i) =
             [balance |-> SplitAt(st, o[i]).after, due |-> NothingDue, standing |-> st.standing,
              payment |-> Noted(st.payment, o[i].who, EntryAt(st, o[i])), reset |-> st.reset]
<1> DEFINE entry == EntryAt(st, o[i])
           after == SplitAt(st, o[i]).after
<1>1. AfterEvent(st, s, t, x, o, i) =
        [st EXCEPT !.balance = after, !.due = NothingDue, !.payment = Noted(@, o[i].who, entry)]
  BY DEF AfterEvent, AfterPayment, Pays, SplitAt, EntryAt
<1> HIDE DEF entry, after
<1>2. st = [balance |-> st.balance, due |-> st.due, standing |-> st.standing,
            payment |-> st.payment, reset |-> st.reset]
  BY DEF IsState
<1>3. AfterEvent(st, s, t, x, o, i) =
        [balance |-> after, due |-> NothingDue, standing |-> st.standing,
         payment |-> Noted(st.payment, o[i].who, entry), reset |-> st.reset]
  BY <1>1, <1>2
<1> QED
  BY <1>3 DEF entry, after

\* What a planned payment does to a state.
LEMMA PlannedStep ==
    ASSUME NEW st, IsState(st), NEW s, NEW t, NEW x, NEW o, NEW i, o[i].kind = "planned"
    PROVE  AfterEvent(st, s, t, x, o, i) =
             [balance |-> SplitAt(st, o[i]).after, due |-> NothingDue, standing |-> st.standing,
              payment |-> st.payment, reset |-> st.reset]
<1> DEFINE after == SplitAt(st, o[i]).after
<1>1. AfterEvent(st, s, t, x, o, i) =
        [st EXCEPT !.balance = after, !.due = NothingDue, !.payment = @]
  BY DEF AfterEvent, AfterPayment, Pays, SplitAt
<1> HIDE DEF after
<1>2. st = [balance |-> st.balance, due |-> st.due, standing |-> st.standing,
            payment |-> st.payment, reset |-> st.reset]
  BY DEF IsState
<1>3. AfterEvent(st, s, t, x, o, i) =
        [balance |-> after, due |-> NothingDue, standing |-> st.standing,
         payment |-> st.payment, reset |-> st.reset]
  BY <1>1, <1>2
<1> QED
  BY <1>3 DEF after

Owed(s, t, x, o, i, st) ==
    IF Recharges(s, o, i) THEN Accrued(t, Boundary(s), x, st.standing, o[i].figure) ELSE NothingDue

\* What a statement does to a state.
LEMMA ResetStep ==
    ASSUME NEW st, IsState(st), NEW s, NEW t, NEW x, NEW o, NEW i, o[i].kind = "reset"
    PROVE  AfterEvent(st, s, t, x, o, i) =
             [balance |-> o[i].figure, due |-> Owed(s, t, x, o, i, st), standing |-> st.standing,
              payment |-> st.payment, reset |-> Noted(st.reset, o[i].who, st.balance)]
<1> DEFINE owed == Owed(s, t, x, o, i, st)
<1>1. AfterEvent(st, s, t, x, o, i) =
        [st EXCEPT !.reset = Noted(@, o[i].who, st.balance), !.balance = o[i].figure, !.due = owed]
  BY DEF AfterEvent, AfterReset, Pays, Owed
<1> HIDE DEF owed
<1>2. st = [balance |-> st.balance, due |-> st.due, standing |-> st.standing,
            payment |-> st.payment, reset |-> st.reset]
  BY DEF IsState
<1>3. AfterEvent(st, s, t, x, o, i) =
        [balance |-> o[i].figure, due |-> owed, standing |-> st.standing,
         payment |-> st.payment, reset |-> Noted(st.reset, o[i].who, st.balance)]
  BY <1>1, <1>2
<1> QED
  BY <1>3 DEF owed

(***************************************************************************)
(* What an installment charges.                                            *)
(***************************************************************************)

\* A contract the params hold: a rate since the origination.
SoundTerms(t) ==
    /\ t.payDay \in PaymentDaysInMonth
    /\ DOMAIN t.rates = Days /\ \A d \in Days : t.rates[d] \in Nat \cup {None}
    /\ t.rates[Origination] \in Nat
    /\ \A l \in Lines : /\ DOMAIN t.versions[l] = Days
                        /\ \A d \in Days : t.versions[l][d] \in Nat \cup {None, Removed}

\* What is rounded is a natural number.
LEMMA RoundedNat ==
    ASSUME NEW n \in Nat, NEW d \in Nat \ {0}
    PROVE  Rounded(n, d) \in Nat
BY QuotientNat DEF Rounded

\* The rounding of a whole number is the number.
LEMMA RoundedWhole ==
    ASSUME NEW n \in Nat
    PROVE  Rounded(n, 1) = n
BY DEF Rounded

\* There are finitely many days.
LEMMA DaysFinite ==
    /\ IsFiniteSet(Days) /\ \A d \in Days : d \in Nat /\ d \in Int
    /\ \A S \in SUBSET Days : IsFiniteSet(S) /\ S \in SUBSET Int
<1>1. LastDay \in Nat
  BY LoanAssumption
<1>2. \A S \in SUBSET Days : IsFiniteSet(S) /\ S \in SUBSET Int
  <2>1. SUFFICES ASSUME NEW S \in SUBSET Days PROVE IsFiniteSet(S) /\ S \in SUBSET Int
    OBVIOUS
  <2>2. 0 \in Int /\ LastDay \in Int /\ S \subseteq 0..LastDay
    BY <1>1 DEF Days
  <2> QED
    BY <2>2, SpanFinite
<1> QED
  BY <1>1, <1>2 DEF Days

\* The row in effect is the row of some day up to it.
LEMMA InEffectFacts ==
    ASSUME NEW dated, DOMAIN dated = Days, NEW day \in Nat
    PROVE  LET upTo == {d \in Days : d <= day /\ dated[d] # None}
           IN  /\ upTo = {} => InEffectOn(dated, day) = None
               /\ upTo # {} => /\ Max(upTo) \in upTo /\ \A d \in upTo : d <= Max(upTo)
                               /\ InEffectOn(dated, day) = dated[Max(upTo)]
                               /\ InEffectOn(dated, day) # None
<1> DEFINE upTo == {d \in Days : d <= day /\ dated[d] # None}
<1>1. InEffectOn(dated, day) = IF upTo = {} THEN None ELSE dated[Max(upTo)]
  BY DEF InEffectOn
<1>2. upTo \in SUBSET Days
  OBVIOUS
<1>3. upTo # {} => Max(upTo) \in upTo /\ \A d \in upTo : d <= Max(upTo)
  <2> HIDE DEF upTo
  <2> QED BY <1>2, DaysFinite, MaxFacts
<1> QED
  BY <1>1, <1>3

\* A loan has a rate from its origination on.
LEMMA RateFacts ==
    ASSUME NEW t, SoundTerms(t), NEW day \in Nat, Origination <= day
    PROVE  InEffectOn(t.rates, day) \in Nat
<1> DEFINE upTo == {d \in Days : d <= day /\ t.rates[d] # None}
<1>1. Origination \in Days /\ None \notin Int
  BY LoanAssumption DEF Days
<1>2. Origination \in upTo
  BY <1>1 DEF SoundTerms
<1>3. DOMAIN t.rates = Days /\ \A d \in Days : t.rates[d] \in Nat \cup {None}
  BY DEF SoundTerms
<1>4. Max(upTo) \in upTo /\ InEffectOn(t.rates, day) = t.rates[Max(upTo)]
  BY <1>2, <1>3, InEffectFacts
<1> QED
  BY <1>3, <1>4

\* The lines of a set in effect on a day each have an amount.
LEMMA ActiveFacts ==
    ASSUME NEW table, NEW S \in SUBSET Lines, NEW day \in Nat,
           \A l \in Lines : /\ DOMAIN table[l] = Days
                            /\ \A d \in Days : table[l][d] \in Nat \cup {None, Removed}
    PROVE  /\ ActiveLines(table, S, day) \in SUBSET S
           /\ IsFiniteSet(ActiveLines(table, S, day))
           /\ \A l \in ActiveLines(table, S, day) : InEffectOn(table[l], day) \in Nat
<1>1. ActiveLines(table, S, day) \in SUBSET S
  BY DEF ActiveLines
<1>2. IsFiniteSet(ActiveLines(table, S, day))
  BY <1>1, LoanAssumption, FS_Subset
<1>3. ASSUME NEW l \in ActiveLines(table, S, day)
      PROVE  InEffectOn(table[l], day) \in Nat
  <2> DEFINE upTo == {d \in Days : d <= day /\ table[l][d] # None}
  <2>1. l \in Lines /\ InEffectOn(table[l], day) \notin {None, Removed}
    BY DEF ActiveLines
  <2>2. upTo # {} /\ Max(upTo) \in upTo /\ InEffectOn(table[l], day) = table[l][Max(upTo)]
    BY <2>1, InEffectFacts
  <2> QED
    BY <2>1, <2>2
<1> QED
  BY <1>1, <1>2, <1>3

\* A month's escrow is an amount.
LEMMA MonthlyFacts ==
    ASSUME NEW t, SoundTerms(t), NEW day \in Nat
    PROVE  MonthlyEscrow(t.versions, Lines, day) \in Nat
<1> DEFINE S == ActiveLines(t.versions, Lines, day)
           f == [l \in S |-> InEffectOn(t.versions[l], day)]
<1>1. IsFiniteSet(S) /\ \A l \in S : InEffectOn(t.versions[l], day) \in Nat
  BY ActiveFacts DEF SoundTerms
<1>2. IsFiniteSet(S) /\ \A l \in S : f[l] \in Nat
  BY <1>1
<1>3. SumFunctionOnSet(f, S) \in Nat
  <2> HIDE DEF f, S
  <2> QED BY <1>2, SumNat
<1>4. SumFunction(f) = SumFunctionOnSet(f, S)
  BY DEF SumFunction
<1>5. MonthlyEscrow(t.versions, Lines, day) = Rounded(SumFunction(f), MonthsPerYear)
  BY DEF MonthlyEscrow
<1> HIDE DEF f, S
<1> QED
  BY <1>3, <1>4, <1>5, RoundedNat, LoanAssumption

DueType == [interest : Nat, escrow : Nat, extra : Nat]

\* What an installment charges is no less than nothing, its escrow no more than a
\* month of the lines, and it plans no extra before the boundary.
LEMMA AccruedFacts ==
    ASSUME NEW t, SoundTerms(t), NEW boundary \in Nat, NEW x \in Nat, NEW c \in Nat,
           Origination <= c, NEW balance \in Int
    PROVE  /\ Accrued(t, boundary, x, c, balance) \in DueType
           /\ Accrued(t, boundary, x, c, balance).escrow <= MonthlyEscrow(t.versions, Lines, c)
           /\ balance > 0 => Accrued(t, boundary, x, c, balance).escrow
                               = MonthlyEscrow(t.versions, Lines, c)
           /\ x = 0 \/ c < boundary => Accrued(t, boundary, x, c, balance).extra = 0
<1> DEFINE month == MonthlyEscrow(t.versions, Lines, c)
           rate == InEffectOn(t.rates, c)
           part == AccruedInterest(balance, rate)
<1>1. month \in Nat /\ rate \in Nat
  BY MonthlyFacts, RateFacts
<1>2. balance > 0 => part \in Nat
  <2> HIDE DEF rate
  <2>1. balance > 0 => balance * rate \in Nat
    BY <1>1
  <2> QED
    BY <1>1, <2>1, RoundedNat, LoanAssumption DEF AccruedInterest
<1>3. Accrued(t, boundary, x, c, balance) =
        IF balance <= 0 THEN [interest |-> 0, escrow |-> 0, extra |-> 0]
        ELSE [interest |-> part, escrow |-> month, extra |-> IF c >= boundary THEN x ELSE 0]
  BY DEF Accrued, NothingDue, Due
<1> HIDE DEF month, rate, part
<1>4. Accrued(t, boundary, x, c, balance) \in DueType
  BY <1>1, <1>2, <1>3 DEF DueType
<1>5. /\ Accrued(t, boundary, x, c, balance).escrow <= month
      /\ balance > 0 => Accrued(t, boundary, x, c, balance).escrow = month
      /\ x = 0 \/ c < boundary => Accrued(t, boundary, x, c, balance).extra = 0
  BY <1>1, <1>3
<1> QED
  BY <1>4, <1>5 DEF month

\* Without an extra the boundary charges nothing.
LEMMA AccruedPlain ==
    ASSUME NEW s, Sound(s), NEW t, SoundTerms(t), NEW c \in Nat, Origination <= c,
           NEW balance \in Int
    PROVE  LET due == Accrued(t, Boundary(s), 0, c, balance)
           IN  /\ due \in DueType /\ due.extra = 0 /\ due.escrow \in Nat
               /\ due.escrow <= MonthlyEscrow(t.versions, Lines, c)
               /\ balance > 0 => due.escrow = MonthlyEscrow(t.versions, Lines, c)
<1> DEFINE b == Boundary(s)
           x == 0
           due == Accrued(t, b, x, c, balance)
<1>1. b \in Nat /\ x \in Nat
  BY RecordedFacts
<1> HIDE DEF b
<1>2. /\ due \in DueType /\ (x = 0 \/ c < b => due.extra = 0)
      /\ due.escrow <= MonthlyEscrow(t.versions, Lines, c)
      /\ balance > 0 => due.escrow = MonthlyEscrow(t.versions, Lines, c)
  <2> HIDE DEF x
  <2> QED BY <1>1, AccruedFacts
<1>3. due.escrow \in Nat /\ due.extra = 0
  BY <1>2 DEF DueType
<1> QED
  BY <1>2, <1>3 DEF b

\* Dues add up part by part.
LEMMA PlusFacts ==
    ASSUME NEW a \in DueType, NEW b \in DueType
    PROVE  /\ Plus(a, b) \in DueType
           /\ Plus(a, b).escrow = a.escrow + b.escrow
           /\ Plus(a, b).extra = a.extra + b.extra
           /\ NothingDue \in DueType /\ NothingDue.escrow = 0 /\ NothingDue.extra = 0
BY DEF Plus, Due, NothingDue, DueType

\* A payment's cash, and the extra a plan adds to it, is all of its split's parts;
\* its principal is what the balance falls by.
LEMMA SplitFacts ==
    ASSUME NEW cash \in Int, NEW balance \in Int, NEW due \in DueType
    PROVE  LET split == Split(cash, balance, due)
           IN  /\ split.interest \in Int /\ split.escrow \in Nat /\ split.principal \in Int
               /\ split.excess \in Int /\ split.after \in Int
               /\ split.interest + split.escrow + split.principal + split.excess = cash
               /\ split.after = balance - split.principal
               /\ split.escrow <= due.escrow
               /\ balance > 0 => split.escrow = due.escrow
               /\ balance <= 0 => split.after <= 0
<1> DEFINE down == cash - due.interest - due.escrow
           p == Min({down, balance})
<1>1. due.interest \in Nat /\ due.escrow \in Nat /\ down \in Int
  BY DEF DueType
<1>2. p \in Int
  <2> HIDE DEF down
  <2>1. IsFiniteSet({down, balance})
    <3>1. IsFiniteSet({} \cup {down})
      BY FS_EmptySet, FS_AddElement
    <3>2. IsFiniteSet(({} \cup {down}) \cup {balance})
      BY <3>1, FS_AddElement
    <3>3. ({} \cup {down}) \cup {balance} = {down, balance}
      OBVIOUS
    <3> QED
      BY <3>2, <3>3, Zenon
  <2> QED
    BY <1>1, <2>1, MinFacts
<1>3. Split(cash, balance, due) =
        IF balance <= 0
        THEN [interest |-> 0, escrow |-> 0, principal |-> 0, excess |-> cash, after |-> balance]
        ELSE [interest |-> due.interest, escrow |-> due.escrow, principal |-> p,
              excess |-> down - p, after |-> balance - p]
  BY DEF Split
<1> HIDE DEF p
<1> QED
  BY <1>1, <1>2, <1>3

(***************************************************************************)
(* What holds of every state of a replay.                                  *)
(***************************************************************************)

\* The order a sound stream is walked in.
LEMMA OrderFacts ==
    ASSUME NEW s, Sound(s), NEW day \in PaymentDaysInMonth
    PROVE  LET E == Events(s, day)
               o == Ordered(s, day)
           IN  /\ Orderly(E) /\ o = InPlace(E) /\ Len(o) \in Nat /\ Len(o) = Cardinality(E)
               /\ \A i \in 1..Len(o) : o[i] \in E /\ Place(E, o[i]) = i
               /\ \A e \in E : Place(E, e) \in 1..Len(o) /\ o[Place(E, e)] = e
               /\ \A i, j \in 1..Len(o) : Before(o[i], o[j]) <=> i < j
<1> DEFINE E == Events(s, day)
           o == Ordered(s, day)
<1>1. Orderly(E)
  BY EventsOrderly
<1>2. o = InPlace(E)
  BY <1>1, OrderedIsInPlace
<1>3. /\ Len(o) = Cardinality(E) /\ Len(o) \in Nat
      /\ \A i \in 1..Cardinality(E) : o[i] \in E /\ Place(E, o[i]) = i
      /\ \A e \in E : Place(E, e) \in 1..Cardinality(E) /\ o[Place(E, e)] = e
  BY <1>1, <1>2, InPlaceFacts, Zenon
<1>4. ASSUME NEW i \in 1..Len(o), NEW j \in 1..Len(o)
      PROVE  Before(o[i], o[j]) <=> i < j
  <2>1. o[i] \in E /\ o[j] \in E /\ Place(E, o[i]) = i /\ Place(E, o[j]) = j
    BY <1>3
  <2>2. Before(o[i], o[j]) <=> Place(E, o[i]) < Place(E, o[j])
    BY <1>1, <2>1, PlaceFacts
  <2> QED
    BY <2>1, <2>2
<1> HIDE DEF E, o
<1> QED
  BY <1>1, <1>2, <1>3, <1>4 DEF E, o

\* Each event of the order is one of four kinds.
LEMMA KindFacts ==
    ASSUME NEW s, Sound(s), NEW day \in PaymentDaysInMonth,
           NEW i \in 1..Len(Ordered(s, day))
    PROVE  LET e == Ordered(s, day)[i]
           IN  /\ e \in EventType /\ e.kind \in {"charge", "payment", "planned", "reset"}
               /\ e.kind = "charge" <=> e \in ChargeEvents(s, day)
               /\ e.kind = "payment" <=> e \in PaymentEvents(s)
               /\ e.kind = "reset" <=> e \in ResetEvents(s)
               /\ e.kind = "planned" <=> e \in PlannedEvents(s)
               /\ e.kind = "charge" => e.on \in Nat /\ Origination < e.on
               /\ e.kind \in {"payment", "reset", "planned"} => e.figure \in Nat
<1> DEFINE e == Ordered(s, day)[i]
<1>1. e \in Events(s, day)
  BY OrderFacts
<1>2. /\ Events(s, day) = ChargeEvents(s, day) \cup PaymentEvents(s) \cup ResetEvents(s)
                             \cup PlannedEvents(s)
      /\ \A f \in ChargeEvents(s, day) :
           f \in EventType /\ f.kind = "charge" /\ f.on \in Charges(s, day)
      /\ \A f \in PaymentEvents(s) : f \in EventType /\ f.kind = "payment"
                                     /\ \E p \in s.payments : f.figure = p.cash
      /\ \A f \in ResetEvents(s) : f \in EventType /\ f.kind = "reset"
                                   /\ \E r \in s.resets : f.figure = r.balance
      /\ \A f \in PlannedEvents(s) : f \in EventType /\ f.kind = "planned"
                                     /\ \E p \in s.planned : f.figure = p.cash
  BY EventsByKind
<1> HIDE DEF e
<1>3. /\ e \in EventType /\ e.kind \in {"charge", "payment", "planned", "reset"}
      /\ e.kind = "charge" <=> e \in ChargeEvents(s, day)
      /\ e.kind = "payment" <=> e \in PaymentEvents(s)
      /\ e.kind = "reset" <=> e \in ResetEvents(s)
      /\ e.kind = "planned" <=> e \in PlannedEvents(s)
  BY <1>1, <1>2
<1>4. e.kind = "charge" => e.on \in Nat /\ Origination < e.on
  BY <1>2, <1>3, ChargeFacts
<1>5. e.kind \in {"payment", "reset", "planned"} => e.figure \in Nat
  BY <1>2, <1>3, SoundTypes
<1> QED
  BY <1>3, <1>4, <1>5 DEF e

\* The installment a state stands in is the last charged.
Standing(o, k, st) ==
    \A c \in 1..k : o[c].kind = "charge" =>
      \E l \in c..k : /\ o[l].kind = "charge" /\ st.standing = o[l].on
                      /\ \A j \in (l + 1)..k : o[j].kind # "charge"

GoodState(st, x) ==
    /\ IsState(st) /\ st.balance \in Int /\ st.due \in DueType
    /\ x = 0 => st.due.extra = 0

WalkOf(s, t, x) == States(s, t, x, Ordered(s, t.payDay))

\* Every state of a walk is typed, and remembers the last charge it passed.
LEMMA StatesGood ==
    ASSUME NEW s, Sound(s), NEW t, SoundTerms(t), NEW x \in Nat
    PROVE  LET o == Ordered(s, t.payDay)
               W == WalkOf(s, t, x)
           IN  \A k \in 0..Len(o) : GoodState(W[k], x) /\ Standing(o, k, W[k])
<1> DEFINE o == Ordered(s, t.payDay)
           W == WalkOf(s, t, x)
           n == Len(o)
           P == {k \in 0..n : GoodState(W[k], x) /\ Standing(o, k, W[k])}
<1>0. t.payDay \in PaymentDaysInMonth
  BY DEF SoundTerms
<1>1. n \in Nat /\ Boundary(s) \in Nat
  BY <1>0, OrderFacts, RecordedFacts
<1>2. /\ W[0] = StartState
      /\ \A i \in 1..n : W[i] = AfterEvent(W[i - 1], s, t, x, o, i)
  BY <1>1, StatesStep DEF WalkOf
<1>k. ASSUME NEW i \in 1..n
      PROVE  /\ o[i].kind \in {"charge", "payment", "planned", "reset"}
             /\ o[i].kind = "charge" => o[i].on \in Nat /\ Origination < o[i].on
             /\ o[i].kind \in {"payment", "reset", "planned"} => o[i].figure \in Nat
  BY <1>0, KindFacts
<1> HIDE DEF o, W
<1>3. 0 \in P
  <2>1. GoodState(W[0], x)
    BY <1>2 DEF GoodState, IsState, StartState, NothingDue, Due, DueType
  <2>2. Standing(o, 0, W[0])
    BY DEF Standing
  <2> QED
    BY <1>1, <2>1, <2>2
<1>4. ASSUME NEW k \in 0..n, k # n, k \in P
      PROVE  k + 1 \in P
  <2> DEFINE i == k + 1
             e == o[i]
             st == W[k]
             next == W[i]
  <2>0. i \in 1..n /\ i - 1 = k /\ i \in 0..n /\ k \in Nat
    BY <1>1, <1>4
  <2>1. next = AfterEvent(st, s, t, x, o, i)
    BY <1>2, <2>0
  <2>2. GoodState(st, x) /\ IsState(st) /\ st.balance \in Int /\ st.due \in DueType
    BY <1>4 DEF GoodState
  <2>3. Standing(o, k, st)
    BY <1>4
  <2>4. CASE e.kind = "charge"
    <3> DEFINE kept == Kept(t, FirstTrackingStart(s), st, e)
               accrued == Accrued(t, Boundary(s), x, e.on, st.balance)
    <3>1. next = [balance |-> st.balance, due |-> Plus(kept, accrued), standing |-> e.on,
                  payment |-> st.payment, reset |-> st.reset]
      BY <2>1, <2>2, <2>4, ChargeStep
    <3>2. accrued \in DueType /\ (x = 0 => accrued.extra = 0)
      <4>1. e.on \in Nat /\ Origination <= e.on
        BY <1>k, <2>0, <2>4, LoanAssumption
      <4>2. st.balance \in Int /\ Boundary(s) \in Nat
        BY <1>1, <2>2
      <4>3. /\ Accrued(t, Boundary(s), x, e.on, st.balance) \in DueType
            /\ x = 0 => Accrued(t, Boundary(s), x, e.on, st.balance).extra = 0
        <5> HIDE DEF e, st
        <5> QED BY <4>1, <4>2, AccruedFacts
      <4> QED
        BY <4>3
    <3>3. kept \in DueType /\ (x = 0 => kept.extra = 0)
      <4>1. NothingDue \in DueType /\ NothingDue.extra = 0
        BY <3>2, PlusFacts
      <4> QED
        BY <2>2, <4>1 DEF Kept, GoodState
    <3> HIDE DEF kept, accrued, next, e
    <3>4. Plus(kept, accrued) \in DueType /\ Plus(kept, accrued).extra = kept.extra + accrued.extra
      BY <3>2, <3>3, PlusFacts
    <3>5. GoodState(next, x)
      BY <2>2, <3>1, <3>2, <3>3, <3>4 DEF GoodState, IsState
    <3>6. Standing(o, i, next)
      <4>1. SUFFICES ASSUME NEW c \in 1..i, o[c].kind = "charge"
                     PROVE  \E l \in c..i : /\ o[l].kind = "charge" /\ next.standing = o[l].on
                                            /\ \A j \in (l + 1)..i : o[j].kind # "charge"
        BY DEF Standing
      <4>2. i \in c..i /\ next.standing = o[i].on /\ \A j \in (i + 1)..i : o[j].kind # "charge"
        BY <2>0, <3>1 DEF e
      <4> QED
        BY <2>4, <4>2 DEF e
    <3> QED
      BY <2>0, <3>5, <3>6 DEF next
  <2>5. ASSUME e.kind # "charge", next.standing = st.standing
        PROVE  Standing(o, i, next)
    <3>1. SUFFICES ASSUME NEW c \in 1..i, o[c].kind = "charge"
                   PROVE  \E l \in c..i : /\ o[l].kind = "charge" /\ next.standing = o[l].on
                                          /\ \A j \in (l + 1)..i : o[j].kind # "charge"
      BY DEF Standing
    <3>2. c \in 1..k
      BY <2>0, <2>5, <3>1
    <3>3. PICK l \in c..k : /\ o[l].kind = "charge" /\ st.standing = o[l].on
                            /\ \A j \in (l + 1)..k : o[j].kind # "charge"
      BY <2>3, <3>1, <3>2 DEF Standing
    <3>4. l \in c..i /\ next.standing = o[l].on
      BY <2>0, <2>5, <3>3
    <3>5. \A j \in (l + 1)..i : o[j].kind # "charge"
      BY <2>0, <2>5, <3>2, <3>3
    <3> QED
      BY <3>3, <3>4, <3>5
  <2>6. CASE e.kind \in {"payment", "planned"}
    <3> DEFINE split == SplitAt(st, e)
    <3>1. split.after \in Int
      <4>1. e.figure + st.due.extra \in Int
        BY <1>k, <2>0, <2>2, <2>6 DEF DueType
      <4> QED
        BY <2>2, <4>1, SplitFacts DEF SplitAt
    <3>2. \E pay : next = [balance |-> split.after, due |-> NothingDue, standing |-> st.standing,
                           payment |-> pay, reset |-> st.reset]
      <4>1. CASE e.kind = "payment"
        <5>1. next = [balance |-> split.after, due |-> NothingDue, standing |-> st.standing,
                      payment |-> Noted(st.payment, e.who, EntryAt(st, e)), reset |-> st.reset]
          BY <2>1, <2>2, <4>1, PaymentStep
        <5> HIDE DEF next, st, e, split
        <5> QED
          BY <5>1
      <4>2. CASE e.kind = "planned"
        <5>1. next = [balance |-> split.after, due |-> NothingDue, standing |-> st.standing,
                      payment |-> st.payment, reset |-> st.reset]
          BY <2>1, <2>2, <4>2, PlannedStep
        <5> HIDE DEF next, st, e, split
        <5> QED
          BY <5>1
      <4> QED
        BY <2>6, <4>1, <4>2
    <3> HIDE DEF split, next, e
    <3>3. GoodState(next, x)
      BY <3>1, <3>2 DEF GoodState, IsState, NothingDue, Due, DueType
    <3>4. next.standing = st.standing
      BY <3>2
    <3>5. Standing(o, i, next)
      BY <2>5, <2>6, <3>4
    <3> QED
      BY <2>0, <3>3, <3>5 DEF next
  <2>7. CASE e.kind = "reset"
    <3> DEFINE owed == Owed(s, t, x, o, i, st)
    <3>1. next = [balance |-> e.figure, due |-> owed, standing |-> st.standing,
                  payment |-> st.payment, reset |-> Noted(st.reset, e.who, st.balance)]
      BY <2>1, <2>2, <2>7, ResetStep
    <3>2. e.figure \in Int
      BY <1>k, <2>0, <2>7
    <3>3. owed \in DueType /\ (x = 0 => owed.extra = 0)
      <4>1. CASE ~Recharges(s, o, i)
        BY <4>1 DEF Owed, NothingDue, Due, DueType
      <4>2. CASE Recharges(s, o, i)
        <5>1. PICK c \in 1..k : o[c].kind = "charge"
          BY <2>0, <4>2 DEF Recharges, UnpaidChargeBefore
        <5>2. PICK l \in c..k : o[l].kind = "charge" /\ st.standing = o[l].on
          BY <2>3, <5>1 DEF Standing
        <5>3. l \in 1..n
          BY <1>1, <2>0, <5>1, <5>2
        <5>4. st.standing \in Nat /\ Origination <= st.standing
          BY <1>k, <5>2, <5>3, LoanAssumption
        <5>5. /\ Accrued(t, Boundary(s), x, st.standing, e.figure) \in DueType
              /\ x = 0 => Accrued(t, Boundary(s), x, st.standing, e.figure).extra = 0
          <6>1. Boundary(s) \in Nat
            BY <1>1
          <6> HIDE DEF e, st
          <6> QED BY <3>2, <5>4, <6>1, AccruedFacts
        <5> QED
          BY <4>2, <5>5 DEF Owed
      <4> QED
        BY <4>1, <4>2
    <3> HIDE DEF owed, next, e
    <3>4. GoodState(next, x)
      BY <3>1, <3>2, <3>3 DEF GoodState, IsState
    <3>5. next.standing = st.standing
      BY <3>1
    <3>6. Standing(o, i, next)
      BY <2>5, <2>7, <3>5
    <3> QED
      BY <2>0, <3>4, <3>6 DEF next
  <2> QED
    BY <1>k, <2>0, <2>4, <2>6, <2>7
<1>5. \A k \in 0..n : k \in P
  <2> HIDE DEF P, n
  <2> QED BY <1>1, <1>3, <1>4, UpTo
<1> QED
  BY <1>5 DEF o, W

\* What each event makes of the state before it.
LEMMA WalkStep ==
    ASSUME NEW s, Sound(s), NEW t, SoundTerms(t), NEW x \in Nat,
           NEW i \in 1..Len(Ordered(s, t.payDay))
    PROVE  LET o == Ordered(s, t.payDay)
               e == o[i]
               st == WalkOf(s, t, x)[i - 1]
               next == WalkOf(s, t, x)[i]
           IN  /\ e.kind = "charge" =>
                    /\ next.balance = st.balance /\ next.standing = e.on
                    /\ next.payment = st.payment /\ next.reset = st.reset
                    /\ next.due = Plus(Kept(t, FirstTrackingStart(s), st, e),
                                       Accrued(t, Boundary(s), x, e.on, st.balance))
               /\ e.kind \in {"payment", "planned"} =>
                    /\ next.balance = SplitAt(st, e).after /\ next.due = NothingDue
                    /\ next.standing = st.standing /\ next.reset = st.reset
               /\ e.kind = "payment" => next.payment = Noted(st.payment, e.who, EntryAt(st, e))
               /\ e.kind = "planned" => next.payment = st.payment
               /\ e.kind = "reset" =>
                    /\ next.balance = e.figure /\ next.due = Owed(s, t, x, o, i, st)
                    /\ next.standing = st.standing /\ next.payment = st.payment
                    /\ next.reset = Noted(st.reset, e.who, st.balance)
<1> DEFINE o == Ordered(s, t.payDay)
           W == WalkOf(s, t, x)
           e == o[i]
           st == W[i - 1]
           next == W[i]
<1>1. Len(o) \in Nat
  BY OrderFacts DEF SoundTerms
<1>2. next = AfterEvent(st, s, t, x, o, i)
  BY <1>1, StatesStep DEF WalkOf
<1>3. IsState(st)
  <2>1. i - 1 \in 0..Len(o)
    BY <1>1
  <2>2. GoodState(W[i - 1], x)
    BY <2>1, StatesGood
  <2> QED
    BY <2>2 DEF GoodState
<1> HIDE DEF W, o
<1>4. e.kind = "charge" =>
        next = [balance |-> st.balance,
                due |-> Plus(Kept(t, FirstTrackingStart(s), st, e),
                             Accrued(t, Boundary(s), x, e.on, st.balance)),
                standing |-> e.on, payment |-> st.payment, reset |-> st.reset]
  BY <1>2, <1>3, ChargeStep
<1>5. e.kind = "payment" =>
        next = [balance |-> SplitAt(st, e).after, due |-> NothingDue, standing |-> st.standing,
                payment |-> Noted(st.payment, e.who, EntryAt(st, e)), reset |-> st.reset]
  BY <1>2, <1>3, PaymentStep
<1>6. e.kind = "planned" =>
        next = [balance |-> SplitAt(st, e).after, due |-> NothingDue, standing |-> st.standing,
                payment |-> st.payment, reset |-> st.reset]
  BY <1>2, <1>3, PlannedStep
<1>7. e.kind = "reset" =>
        next = [balance |-> e.figure, due |-> Owed(s, t, x, o, i, st), standing |-> st.standing,
                payment |-> st.payment, reset |-> Noted(st.reset, e.who, st.balance)]
  BY <1>2, <1>3, ResetStep
<1> HIDE DEF next, st, e
<1>8. e.kind = "charge" =>
                    /\ next.balance = st.balance /\ next.standing = e.on
                    /\ next.payment = st.payment /\ next.reset = st.reset
                    /\ next.due = Plus(Kept(t, FirstTrackingStart(s), st, e),
                                       Accrued(t, Boundary(s), x, e.on, st.balance))
  BY <1>4
<1>9. /\ e.kind = "payment" =>
           /\ next.balance = SplitAt(st, e).after /\ next.due = NothingDue
           /\ next.standing = st.standing /\ next.reset = st.reset
           /\ next.payment = Noted(st.payment, e.who, EntryAt(st, e))
      /\ e.kind = "planned" =>
           /\ next.balance = SplitAt(st, e).after /\ next.due = NothingDue
           /\ next.standing = st.standing /\ next.reset = st.reset
           /\ next.payment = st.payment
  BY <1>5, <1>6
<1>10. e.kind = "reset" =>
                    /\ next.balance = e.figure /\ next.due = Owed(s, t, x, o, i, st)
                    /\ next.standing = st.standing /\ next.payment = st.payment
                    /\ next.reset = Noted(st.reset, e.who, st.balance)
  BY <1>7
<1> QED
  BY <1>8, <1>9, <1>10 DEF next, st, e, o, W

\* No payment and no reset is walked twice.
LEMMA WalkedOnce ==
    ASSUME NEW s, Sound(s), NEW day \in PaymentDaysInMonth,
           NEW i \in 1..Len(Ordered(s, day)), NEW j \in 1..Len(Ordered(s, day)),
           Ordered(s, day)[i].kind = Ordered(s, day)[j].kind,
           Ordered(s, day)[i].kind \in {"payment", "reset"},
           Ordered(s, day)[i].who = Ordered(s, day)[j].who
    PROVE  i = j
<1> DEFINE o == Ordered(s, day)
<1>1. o[i] = o[j]
  <2>1. CASE o[i].kind = "payment"
    <3>1. o[i] \in PaymentEvents(s) /\ o[j] \in PaymentEvents(s)
      BY <2>1, KindFacts
    <3> HIDE DEF o
    <3>2. PICK p \in s.payments : o[i] = Event("payment", p.on, p.on, p.who, p.cash)
      BY <3>1 DEF PaymentEvents
    <3>3. PICK q \in s.payments : o[j] = Event("payment", q.on, q.on, q.who, q.cash)
      BY <3>1 DEF PaymentEvents
    <3>4. p = q
      BY <3>2, <3>3 DEF Event, Sound, o
    <3> QED
      BY <3>2, <3>3, <3>4
  <2>2. CASE o[i].kind = "reset"
    <3>1. o[i] \in ResetEvents(s) /\ o[j] \in ResetEvents(s)
      BY <2>2, KindFacts
    <3> HIDE DEF o
    <3>2. PICK p \in s.resets : o[i] = Event("reset", p.on, p.on, p.who, p.balance)
      BY <3>1 DEF ResetEvents
    <3>3. PICK q \in s.resets : o[j] = Event("reset", q.on, q.on, q.who, q.balance)
      BY <3>1 DEF ResetEvents
    <3>4. p = q
      BY <3>2, <3>3 DEF Event, Sound, o
    <3> QED
      BY <3>2, <3>3, <3>4
  <2> QED
    BY <2>1, <2>2
<1>2. Place(Events(s, day), o[i]) = i /\ Place(Events(s, day), o[j]) = j
  BY OrderFacts
<1> QED
  BY <1>1, <1>2

\* A note is kept and disturbs no other.
LEMMA NotedFacts ==
    ASSUME NEW entries, NEW who, NEW entry
    PROVE  /\ who \in DOMAIN Noted(entries, who, entry)
           /\ Noted(entries, who, entry)[who] = entry
           /\ \A w \in DOMAIN entries : /\ w \in DOMAIN Noted(entries, who, entry)
                                        /\ w # who => Noted(entries, who, entry)[w] = entries[w]
BY DEF Noted

\* What a state records of the events up to it.
RecordedSoFar(o, W, k) ==
    \A i \in 1..k :
      /\ o[i].kind = "payment" => /\ o[i].who \in DOMAIN W[k].payment
                                  /\ W[k].payment[o[i].who] = EntryAt(W[i - 1], o[i])
      /\ o[i].kind = "reset" => /\ o[i].who \in DOMAIN W[k].reset
                                /\ W[k].reset[o[i].who] = W[i - 1].balance

\* A walk records every payment and statement it has passed.
LEMMA StatesRecord ==
    ASSUME NEW s, Sound(s), NEW t, SoundTerms(t), NEW x \in Nat
    PROVE  \A k \in 0..Len(Ordered(s, t.payDay)) :
             RecordedSoFar(Ordered(s, t.payDay), WalkOf(s, t, x), k)
<1> DEFINE o == Ordered(s, t.payDay)
           W == WalkOf(s, t, x)
           n == Len(o)
           P == {k \in 0..n : RecordedSoFar(o, W, k)}
<1>0. t.payDay \in PaymentDaysInMonth
  BY DEF SoundTerms
<1>1. n \in Nat
  BY <1>0, OrderFacts
<1>2. 0 \in P
  BY <1>1 DEF RecordedSoFar
<1>3. ASSUME NEW k \in 0..n, k # n, k \in P
      PROVE  k + 1 \in P
  <2> DEFINE m == k + 1
             e == o[m]
             st == W[k]
             next == W[m]
  <2>0. m \in 1..n /\ m - 1 = k /\ m \in 0..n /\ k \in Nat
    BY <1>1, <1>3
  <2>1. /\ e.kind = "charge" => next.payment = st.payment /\ next.reset = st.reset
        /\ e.kind = "payment" => /\ next.payment = Noted(st.payment, e.who, EntryAt(st, e))
                                 /\ next.reset = st.reset
        /\ e.kind = "planned" => next.payment = st.payment /\ next.reset = st.reset
        /\ e.kind = "reset" => /\ next.payment = st.payment
                               /\ next.reset = Noted(st.reset, e.who, st.balance)
    BY <2>0, WalkStep
  <2>2. e.kind \in {"charge", "payment", "planned", "reset"}
    BY <1>0, <2>0, KindFacts
  <2>3. ASSUME NEW i \in 1..k, o[i].kind \in {"payment", "reset"}, o[i].kind = e.kind
        PROVE  o[i].who # e.who
    <3>1. i \in 1..n /\ i # m
      BY <1>1, <2>0
    <3>2. o[i].who = e.who => i = m
      BY <1>0, <2>0, <2>3, <3>1, WalkedOnce
    <3> QED
      BY <3>1, <3>2
  <2>4. RecordedSoFar(o, W, k)
    BY <1>3
  <2> HIDE DEF o, W
  <2>5. ASSUME NEW i \in 1..m, o[i].kind = "payment"
        PROVE  /\ o[i].who \in DOMAIN next.payment
               /\ next.payment[o[i].who] = EntryAt(W[i - 1], o[i])
    <3>1. CASE i = m
      <4>1. next.payment = Noted(st.payment, e.who, EntryAt(st, e)) /\ o[i] = e /\ W[i - 1] = st
        BY <2>0, <2>1, <2>5, <3>1
      <4> HIDE DEF next, st, e
      <4> QED
        BY <4>1, NotedFacts
    <3>2. CASE i # m
      <4>1. i \in 1..k
        BY <2>0, <3>2
      <4>2. o[i].who \in DOMAIN st.payment /\ st.payment[o[i].who] = EntryAt(W[i - 1], o[i])
        BY <2>4, <2>5, <4>1 DEF RecordedSoFar
      <4>3. \/ next.payment = st.payment
            \/ next.payment = Noted(st.payment, e.who, EntryAt(st, e)) /\ o[i].who # e.who
        BY <2>1, <2>2, <2>3, <2>5, <4>1
      <4> HIDE DEF next, st, e
      <4> QED
        BY <4>2, <4>3, NotedFacts
    <3> QED
      BY <3>1, <3>2
  <2>6. ASSUME NEW i \in 1..m, o[i].kind = "reset"
        PROVE  /\ o[i].who \in DOMAIN next.reset
               /\ next.reset[o[i].who] = W[i - 1].balance
    <3>1. CASE i = m
      <4>1. next.reset = Noted(st.reset, e.who, st.balance) /\ o[i] = e /\ W[i - 1] = st
        BY <2>0, <2>1, <2>6, <3>1
      <4> HIDE DEF next, st, e
      <4> QED
        BY <4>1, NotedFacts
    <3>2. CASE i # m
      <4>1. i \in 1..k
        BY <2>0, <3>2
      <4>2. o[i].who \in DOMAIN st.reset /\ st.reset[o[i].who] = W[i - 1].balance
        BY <2>4, <2>6, <4>1 DEF RecordedSoFar
      <4>3. \/ next.reset = st.reset
            \/ next.reset = Noted(st.reset, e.who, st.balance) /\ o[i].who # e.who
        BY <2>1, <2>2, <2>3, <2>6, <4>1
      <4> HIDE DEF next, st, e
      <4> QED
        BY <4>2, <4>3, NotedFacts
    <3> QED
      BY <3>1, <3>2
  <2> QED
    BY <2>0, <2>5, <2>6 DEF RecordedSoFar
<1>4. \A k \in 0..n : k \in P
  <2> HIDE DEF P, n
  <2> QED BY <1>1, <1>2, <1>3, UpTo
<1> QED
  BY <1>4

\* The places a payment and a reset are walked in.
PaidAt(s, day, p) == Place(Events(s, day), Event("payment", p.on, p.on, p.who, p.cash))
StatedAt(s, day, r) == Place(Events(s, day), Event("reset", r.on, r.on, r.who, r.balance))

\* A replay's record of a payment is its split of the state before it, and of a
\* reset the balance before it.
LEMMA ReplayRecords ==
    ASSUME NEW s, Sound(s), NEW t, SoundTerms(t), NEW x \in Nat
    PROVE  LET o == Ordered(s, t.payDay)
               W == WalkOf(s, t, x)
               walk == Replay(s, t, x)
           IN  /\ Len(o) \in Nat /\ walk = W[Len(o)]
               /\ \A p \in s.payments :
                    /\ PaidAt(s, t.payDay, p) \in 1..Len(o)
                    /\ o[PaidAt(s, t.payDay, p)] = Event("payment", p.on, p.on, p.who, p.cash)
                    /\ walk.payment[p.who]
                         = EntryAt(W[PaidAt(s, t.payDay, p) - 1], o[PaidAt(s, t.payDay, p)])
               /\ \A r \in s.resets :
                    /\ StatedAt(s, t.payDay, r) \in 1..Len(o)
                    /\ o[StatedAt(s, t.payDay, r)] = Event("reset", r.on, r.on, r.who, r.balance)
                    /\ walk.reset[r.who] = W[StatedAt(s, t.payDay, r) - 1].balance
<1> DEFINE o == Ordered(s, t.payDay)
           W == WalkOf(s, t, x)
           n == Len(o)
           walk == Replay(s, t, x)
           E == Events(s, t.payDay)
<1>0. t.payDay \in PaymentDaysInMonth
  BY DEF SoundTerms
<1>1. n \in Nat /\ \A e \in E : Place(E, e) \in 1..n /\ o[Place(E, e)] = e
  BY <1>0, OrderFacts
<1>2. walk = W[n]
  BY <1>1, ReplayIs, StatesStep DEF WalkOf
<1>3. RecordedSoFar(o, W, n)
  BY <1>1, StatesRecord
<1> HIDE DEF o, W, walk, n
<1>4. ASSUME NEW p \in s.payments
      PROVE  /\ PaidAt(s, t.payDay, p) \in 1..n
             /\ o[PaidAt(s, t.payDay, p)] = Event("payment", p.on, p.on, p.who, p.cash)
             /\ walk.payment[p.who]
                  = EntryAt(W[PaidAt(s, t.payDay, p) - 1], o[PaidAt(s, t.payDay, p)])
  <2> DEFINE e == Event("payment", p.on, p.on, p.who, p.cash)
             i == PaidAt(s, t.payDay, p)
  <2>1. e \in E /\ e.kind = "payment" /\ e.who = p.who
    BY DEF Events, Event
  <2>2. i \in 1..n /\ o[i] = e
    BY <1>1, <2>1 DEF PaidAt
  <2> HIDE DEF e, i
  <2>3. W[n].payment[e.who] = EntryAt(W[i - 1], e)
    BY <1>3, <2>1, <2>2 DEF RecordedSoFar
  <2> QED
    BY <1>2, <2>1, <2>2, <2>3 DEF e, i
<1>5. ASSUME NEW r \in s.resets
      PROVE  /\ StatedAt(s, t.payDay, r) \in 1..n
             /\ o[StatedAt(s, t.payDay, r)] = Event("reset", r.on, r.on, r.who, r.balance)
             /\ walk.reset[r.who] = W[StatedAt(s, t.payDay, r) - 1].balance
  <2> DEFINE e == Event("reset", r.on, r.on, r.who, r.balance)
             i == StatedAt(s, t.payDay, r)
  <2>1. e \in E /\ e.kind = "reset" /\ e.who = r.who
    BY DEF Events, Event
  <2>2. i \in 1..n /\ o[i] = e
    BY <1>1, <2>1 DEF StatedAt
  <2> HIDE DEF e, i
  <2>3. W[n].reset[e.who] = W[i - 1].balance
    BY <1>3, <2>1, <2>2 DEF RecordedSoFar
  <2> QED
    BY <1>2, <2>1, <2>2, <2>3 DEF e, i
<1> QED
  BY <1>1, <1>2, <1>4, <1>5 DEF o, W, walk, n

(***************************************************************************)
(* What a replay's parts add up to.                                        *)
(***************************************************************************)

\* Every payment's cash is its split's parts: no cent is lost and none made.
LEMMA CashIsSplit ==
    ASSUME NEW s, Sound(s), NEW t, SoundTerms(t)
    PROVE  LET walk == Replay(s, t, 0)
           IN  /\ \A p \in s.payments :
                    LET split == walk.payment[p.who].split
                    IN  /\ split.interest \in Int /\ split.escrow \in Nat
                        /\ split.principal \in Int /\ split.excess \in Int
                        /\ split.interest + split.escrow + split.principal + split.excess = p.cash
               /\ \A r \in s.resets : walk.reset[r.who] \in Int
<1> DEFINE o == Ordered(s, t.payDay)
           W == WalkOf(s, t, 0)
           n == Len(o)
           walk == Replay(s, t, 0)
<1>1. \A k \in 0..n : GoodState(W[k], 0)
  BY StatesGood
<1>2. ASSUME NEW p \in s.payments
      PROVE  LET split == walk.payment[p.who].split
             IN  /\ split.interest \in Int /\ split.escrow \in Nat
                 /\ split.principal \in Int /\ split.excess \in Int
                 /\ split.interest + split.escrow + split.principal + split.excess = p.cash
  <2> DEFINE i == PaidAt(s, t.payDay, p)
             e == o[i]
             st == W[i - 1]
  <2>1. n \in Nat /\ i \in 1..n /\ e.figure = p.cash /\ walk.payment[p.who] = EntryAt(st, e)
    <3>1. /\ n \in Nat /\ i \in 1..n /\ walk.payment[p.who] = EntryAt(st, e)
          /\ e = Event("payment", p.on, p.on, p.who, p.cash)
      BY ReplayRecords
    <3> QED
      BY <3>1 DEF Event
  <2> HIDE DEF i, n
  <2>2. st.balance \in Int /\ st.due \in DueType /\ st.due.extra = 0
    <3>1. i - 1 \in 0..n
      BY <2>1
    <3> QED
      BY <1>1, <3>1 DEF GoodState
  <2> HIDE DEF e, st, walk
  <2>3. p.cash \in Int
    BY SoundTypes
  <2>4. walk.payment[p.who].split = Split(p.cash, st.balance, st.due)
    <3>1. walk.payment[p.who].split = SplitAt(st, e)
      BY <2>1 DEF EntryAt
    <3>2. e.figure + st.due.extra = p.cash
      BY <2>1, <2>2, <2>3
    <3> QED
      BY <3>1, <3>2 DEF SplitAt
  <2> QED
    BY <2>2, <2>3, <2>4, SplitFacts
<1>3. ASSUME NEW r \in s.resets
      PROVE  walk.reset[r.who] \in Int
  <2> DEFINE i == StatedAt(s, t.payDay, r)
  <2>1. n \in Nat /\ i \in 1..n /\ walk.reset[r.who] = W[i - 1].balance
    BY ReplayRecords
  <2> HIDE DEF i, n
  <2>2. i - 1 \in 0..n
    BY <2>1
  <2> QED
    BY <1>1, <2>1, <2>2 DEF GoodState
<1> QED
  BY <1>2, <1>3

ChargedAt(s, day, c) == Place(Events(s, day), Event("charge", c, c, 0, 0))

PaidBy(s, day, k) == {p \in s.payments : PaidAt(s, day, p) <= k}
StatedBy(s, day, k) == {r \in s.resets : StatedAt(s, day, r) <= k}
ChargedBy(s, day, k) == {c \in Charges(s, day) : ChargedAt(s, day, c) <= k}

\* The fields of an event.
LEMMA EventFields ==
    ASSUME NEW kind, NEW at, NEW on, NEW who, NEW figure
    PROVE  LET e == Event(kind, at, on, who, figure)
           IN  e.kind = kind /\ e.at = at /\ e.on = on /\ e.who = who /\ e.figure = figure
BY DEF Event

\* One place further, one event more.
LEMMA OneMore ==
    ASSUME NEW s, Sound(s), NEW day \in PaymentDaysInMonth,
           NEW i \in 1..Len(Ordered(s, day))
    PROVE  LET e == Ordered(s, day)[i]
           IN  /\ e.kind = "payment" =>
                    \E p \in s.payments :
                      /\ e = Event("payment", p.on, p.on, p.who, p.cash) /\ PaidAt(s, day, p) = i
                      /\ PaidBy(s, day, i) = PaidBy(s, day, i - 1) \cup {p}
                      /\ p \notin PaidBy(s, day, i - 1)
               /\ e.kind # "payment" => PaidBy(s, day, i) = PaidBy(s, day, i - 1)
               /\ e.kind = "reset" =>
                    \E r \in s.resets :
                      /\ e = Event("reset", r.on, r.on, r.who, r.balance) /\ StatedAt(s, day, r) = i
                      /\ StatedBy(s, day, i) = StatedBy(s, day, i - 1) \cup {r}
                      /\ r \notin StatedBy(s, day, i - 1)
               /\ e.kind # "reset" => StatedBy(s, day, i) = StatedBy(s, day, i - 1)
               /\ e.kind = "charge" =>
                    /\ e.on \in Charges(s, day)
                    /\ ChargedBy(s, day, i) = ChargedBy(s, day, i - 1) \cup {e.on}
                    /\ e.on \notin ChargedBy(s, day, i - 1)
               /\ e.kind # "charge" => ChargedBy(s, day, i) = ChargedBy(s, day, i - 1)
<1> DEFINE o == Ordered(s, day)
           E == Events(s, day)
           e == o[i]
           n == Len(o)
<1>1. /\ n \in Nat /\ e \in E /\ Place(E, e) = i
      /\ \A f \in E : Place(E, f) \in 1..n /\ o[Place(E, f)] = f
  BY OrderFacts
<1>2. /\ e.kind = "payment" <=> e \in PaymentEvents(s)
      /\ e.kind = "reset" <=> e \in ResetEvents(s)
      /\ e.kind = "charge" <=> e \in ChargeEvents(s, day)
  BY KindFacts
<1>t. i \in Int
  BY <1>1
<1> HIDE DEF o, n
<1>3. ASSUME NEW p \in s.payments
      PROVE  /\ PaidAt(s, day, p) \in Int
             /\ Event("payment", p.on, p.on, p.who, p.cash) = o[PaidAt(s, day, p)]
             /\ PaidAt(s, day, p) = i <=> e = Event("payment", p.on, p.on, p.who, p.cash)
  <2> DEFINE f == Event("payment", p.on, p.on, p.who, p.cash)
  <2>1. f \in E
    BY DEF Events
  <2> HIDE DEF f, E
  <2> QED
    BY <1>1, <2>1 DEF PaidAt, E, f
<1>4. ASSUME NEW p \in s.resets
      PROVE  /\ StatedAt(s, day, p) \in Int
             /\ Event("reset", p.on, p.on, p.who, p.balance) = o[StatedAt(s, day, p)]
             /\ StatedAt(s, day, p) = i <=> e = Event("reset", p.on, p.on, p.who, p.balance)
  <2> DEFINE f == Event("reset", p.on, p.on, p.who, p.balance)
  <2>1. f \in E
    BY DEF Events
  <2> HIDE DEF f, E
  <2> QED
    BY <1>1, <2>1 DEF StatedAt, E, f
<1>5. ASSUME NEW c \in Charges(s, day)
      PROVE  /\ ChargedAt(s, day, c) \in Int
             /\ Event("charge", c, c, 0, 0) = o[ChargedAt(s, day, c)]
             /\ ChargedAt(s, day, c) = i <=> e = Event("charge", c, c, 0, 0)
  <2> DEFINE f == Event("charge", c, c, 0, 0)
  <2>1. f \in E
    BY DEF Events
  <2> HIDE DEF f, E
  <2> QED
    BY <1>1, <2>1 DEF ChargedAt, E, f
<1> HIDE DEF e, E
<1>6. ASSUME e.kind = "payment"
      PROVE  \E p \in s.payments :
               /\ e = Event("payment", p.on, p.on, p.who, p.cash) /\ PaidAt(s, day, p) = i
               /\ PaidBy(s, day, i) = PaidBy(s, day, i - 1) \cup {p}
               /\ p \notin PaidBy(s, day, i - 1)
  <2>1. PICK p \in s.payments : e = Event("payment", p.on, p.on, p.who, p.cash)
    BY <1>2, <1>6 DEF PaymentEvents
  <2>2. PaidAt(s, day, p) = i
    BY <1>3, <2>1
  <2>3. ASSUME NEW q \in s.payments, PaidAt(s, day, q) = i PROVE q = p
    <3>1. e = Event("payment", q.on, q.on, q.who, q.cash)
      BY <1>3, <2>3
    <3> QED
      BY <2>1, <3>1 DEF Event, Sound
  <2>4. /\ PaidBy(s, day, i) = PaidBy(s, day, i - 1) \cup {p}
        /\ p \notin PaidBy(s, day, i - 1)
    <3>1. \A q \in s.payments : PaidAt(s, day, q) <= i <=> PaidAt(s, day, q) <= i - 1 \/ q = p
      BY <1>t, <1>3, <2>2, <2>3
    <3>2. ~(PaidAt(s, day, p) <= i - 1)
      BY <1>t, <2>2
    <3> QED
      BY <3>1, <3>2 DEF PaidBy
  <2> QED
    BY <2>1, <2>2, <2>4
<1>7. ASSUME e.kind # "payment"
      PROVE  PaidBy(s, day, i) = PaidBy(s, day, i - 1)
  <2>1. \A q \in s.payments : PaidAt(s, day, q) # i
    BY <1>3, <1>7, EventFields
  <2>2. \A q \in s.payments : PaidAt(s, day, q) <= i <=> PaidAt(s, day, q) <= i - 1
    BY <1>t, <1>3, <2>1
  <2> QED
    BY <2>2 DEF PaidBy
<1>8. ASSUME e.kind = "reset"
      PROVE  \E r \in s.resets :
               /\ e = Event("reset", r.on, r.on, r.who, r.balance) /\ StatedAt(s, day, r) = i
               /\ StatedBy(s, day, i) = StatedBy(s, day, i - 1) \cup {r}
               /\ r \notin StatedBy(s, day, i - 1)
  <2>1. PICK p \in s.resets : e = Event("reset", p.on, p.on, p.who, p.balance)
    BY <1>2, <1>8 DEF ResetEvents
  <2>2. StatedAt(s, day, p) = i
    BY <1>4, <2>1
  <2>3. ASSUME NEW q \in s.resets, StatedAt(s, day, q) = i PROVE q = p
    <3>1. e = Event("reset", q.on, q.on, q.who, q.balance)
      BY <1>4, <2>3
    <3> QED
      BY <2>1, <3>1 DEF Event, Sound
  <2>4. /\ StatedBy(s, day, i) = StatedBy(s, day, i - 1) \cup {p}
        /\ p \notin StatedBy(s, day, i - 1)
    <3>1. \A q \in s.resets : StatedAt(s, day, q) <= i <=> StatedAt(s, day, q) <= i - 1 \/ q = p
      BY <1>t, <1>4, <2>2, <2>3
    <3>2. ~(StatedAt(s, day, p) <= i - 1)
      BY <1>t, <2>2
    <3> QED
      BY <3>1, <3>2 DEF StatedBy
  <2> QED
    BY <2>1, <2>2, <2>4
<1>9. ASSUME e.kind # "reset"
      PROVE  StatedBy(s, day, i) = StatedBy(s, day, i - 1)
  <2>1. \A q \in s.resets : StatedAt(s, day, q) # i
    BY <1>4, <1>9, EventFields
  <2>2. \A q \in s.resets : StatedAt(s, day, q) <= i <=> StatedAt(s, day, q) <= i - 1
    BY <1>t, <1>4, <2>1
  <2> QED
    BY <2>2 DEF StatedBy
<1>10. ASSUME e.kind = "charge"
       PROVE  /\ e.on \in Charges(s, day)
              /\ ChargedBy(s, day, i) = ChargedBy(s, day, i - 1) \cup {e.on}
              /\ e.on \notin ChargedBy(s, day, i - 1)
  <2>1. PICK c \in Charges(s, day) : e = Event("charge", c, c, 0, 0)
    BY <1>2, <1>10 DEF ChargeEvents
  <2>2. ChargedAt(s, day, c) = i /\ e.on = c
    BY <1>5, <2>1 DEF Event
  <2>3. ASSUME NEW q \in Charges(s, day), ChargedAt(s, day, q) = i PROVE q = c
    <3>1. e = Event("charge", q, q, 0, 0)
      BY <1>5, <2>3
    <3> QED
      BY <2>1, <3>1 DEF Event
  <2>4. /\ ChargedBy(s, day, i) = ChargedBy(s, day, i - 1) \cup {c}
        /\ c \notin ChargedBy(s, day, i - 1)
    <3>1. \A q \in Charges(s, day) :
            ChargedAt(s, day, q) <= i <=> ChargedAt(s, day, q) <= i - 1 \/ q = c
      BY <1>t, <1>5, <2>2, <2>3
    <3>2. ~(ChargedAt(s, day, c) <= i - 1)
      BY <1>t, <2>2
    <3> QED
      BY <3>1, <3>2 DEF ChargedBy
  <2> QED
    BY <2>2, <2>4
<1>11. ASSUME e.kind # "charge"
      PROVE  ChargedBy(s, day, i) = ChargedBy(s, day, i - 1)
  <2>1. \A q \in Charges(s, day) : ChargedAt(s, day, q) # i
    BY <1>5, <1>11, EventFields
  <2>2. \A q \in Charges(s, day) : ChargedAt(s, day, q) <= i <=> ChargedAt(s, day, q) <= i - 1
    BY <1>t, <1>5, <2>1
  <2> QED
    BY <2>2 DEF ChargedBy
<1> DEFINE A == e.kind = "payment" =>
                    \E p \in s.payments :
                      /\ e = Event("payment", p.on, p.on, p.who, p.cash) /\ PaidAt(s, day, p) = i
                      /\ PaidBy(s, day, i) = PaidBy(s, day, i - 1) \cup {p}
                      /\ p \notin PaidBy(s, day, i - 1)
           B == e.kind = "reset" =>
                    \E r \in s.resets :
                      /\ e = Event("reset", r.on, r.on, r.who, r.balance) /\ StatedAt(s, day, r) = i
                      /\ StatedBy(s, day, i) = StatedBy(s, day, i - 1) \cup {r}
                      /\ r \notin StatedBy(s, day, i - 1)
<1>12. A /\ (e.kind # "payment" => PaidBy(s, day, i) = PaidBy(s, day, i - 1))
  BY <1>6, <1>7
<1>13. B /\ (e.kind # "reset" => StatedBy(s, day, i) = StatedBy(s, day, i - 1))
  BY <1>8, <1>9
<1> QED
  BY <1>10, <1>11, <1>12, <1>13 DEF e, o

Raised(s, walk) == [r \in s.resets |-> r.balance - walk.reset[r.who]]
Lowered(s, walk) == [p \in s.payments |-> walk.payment[p.who].split.principal]
EscrowOf(s, walk) == [p \in s.payments |-> walk.payment[p.who].split.escrow]
MonthOfLines(s, t) == [c \in Charges(s, t.payDay) |-> MonthlyEscrow(t.versions, Lines, c)]

\* The parts of a recorded stream's walk, and the walk's own split of each payment.
LEMMA WalkParts ==
    ASSUME NEW s, Sound(s), NEW t, SoundTerms(t)
    PROVE  LET walk == Replay(s, t, 0)
               o == Ordered(s, t.payDay)
               W == WalkOf(s, t, 0)
           IN  /\ \A r \in s.resets : Raised(s, walk)[r] \in Int
               /\ \A p \in s.payments : /\ Lowered(s, walk)[p] \in Int
                                        /\ EscrowOf(s, walk)[p] \in Nat
               /\ \A c \in Charges(s, t.payDay) : MonthOfLines(s, t)[c] \in Nat
               /\ \A r \in s.resets : Raised(s, walk)[r] =
                    r.balance - W[StatedAt(s, t.payDay, r) - 1].balance
               /\ \A p \in s.payments :
                    LET i == PaidAt(s, t.payDay, p)
                        split == SplitAt(W[i - 1], o[i])
                    IN  /\ Lowered(s, walk)[p] = split.principal
                        /\ EscrowOf(s, walk)[p] = split.escrow
                        /\ walk.payment[p.who].split = split
               /\ \A k \in 0..Len(o) : /\ IsFiniteSet(PaidBy(s, t.payDay, k))
                                       /\ IsFiniteSet(StatedBy(s, t.payDay, k))
                                       /\ IsFiniteSet(ChargedBy(s, t.payDay, k))
               /\ PaidBy(s, t.payDay, 0) = {} /\ StatedBy(s, t.payDay, 0) = {}
               /\ ChargedBy(s, t.payDay, 0) = {}
<1> DEFINE walk == Replay(s, t, 0)
           o == Ordered(s, t.payDay)
           W == WalkOf(s, t, 0)
           n == Len(o)
           E == Events(s, t.payDay)
<1>0. t.payDay \in PaymentDaysInMonth
  BY DEF SoundTerms
<1>1. \A r \in s.resets : Raised(s, walk)[r] \in Int
  <2>1. SUFFICES ASSUME NEW r \in s.resets PROVE r.balance - walk.reset[r.who] \in Int
    BY DEF Raised
  <2>2. walk.reset[r.who] \in Int /\ r.balance \in Int
    BY CashIsSplit, SoundTypes
  <2> QED
    BY <2>2
<1>2. \A p \in s.payments : Lowered(s, walk)[p] \in Int /\ EscrowOf(s, walk)[p] \in Nat
  BY CashIsSplit DEF Lowered, EscrowOf
<1>3. \A c \in Charges(s, t.payDay) : MonthOfLines(s, t)[c] \in Nat
  BY <1>0, ChargeFacts, MonthlyFacts DEF MonthOfLines
<1>4. \A r \in s.resets : Raised(s, walk)[r] =
                    r.balance - W[StatedAt(s, t.payDay, r) - 1].balance
  <2>1. SUFFICES ASSUME NEW r \in s.resets
                 PROVE  walk.reset[r.who] = W[StatedAt(s, t.payDay, r) - 1].balance
    BY DEF Raised
  <2> QED
    BY ReplayRecords
<1>5. ASSUME NEW p \in s.payments
      PROVE  LET i == PaidAt(s, t.payDay, p)
                 split == SplitAt(W[i - 1], o[i])
             IN  /\ Lowered(s, walk)[p] = split.principal
                 /\ EscrowOf(s, walk)[p] = split.escrow
                 /\ walk.payment[p.who].split = split
  <2> DEFINE i == PaidAt(s, t.payDay, p)
  <2>1. walk.payment[p.who] = EntryAt(W[i - 1], o[i])
    BY ReplayRecords
  <2> HIDE DEF walk, W, o, i
  <2>2. walk.payment[p.who].split = SplitAt(W[i - 1], o[i])
    BY <2>1 DEF EntryAt
  <2> QED
    BY <2>2 DEF Lowered, EscrowOf, i
<1>6. ASSUME NEW k \in 0..n
      PROVE  /\ IsFiniteSet(PaidBy(s, t.payDay, k))
             /\ IsFiniteSet(StatedBy(s, t.payDay, k))
             /\ IsFiniteSet(ChargedBy(s, t.payDay, k))
  <2>1. IsFiniteSet(s.payments) /\ IsFiniteSet(s.resets) /\ IsFiniteSet(Charges(s, t.payDay))
    BY <1>0, SoundTypes, ChargeFacts
  <2>2. /\ PaidBy(s, t.payDay, k) \in SUBSET s.payments
        /\ StatedBy(s, t.payDay, k) \in SUBSET s.resets
        /\ ChargedBy(s, t.payDay, k) \in SUBSET Charges(s, t.payDay)
    BY DEF PaidBy, StatedBy, ChargedBy
  <2> QED
    BY <2>1, <2>2, FS_Subset
<1>7. \A e \in E : Place(E, e) \in 1..n /\ n \in Nat
  BY <1>0, OrderFacts
<1>8. PaidBy(s, t.payDay, 0) = {}
  <2>1. \A p \in s.payments : Event("payment", p.on, p.on, p.who, p.cash) \in E
    BY DEF Events
  <2>2. \A p \in s.payments : PaidAt(s, t.payDay, p) \in 1..n /\ n \in Nat
    BY <1>7, <2>1 DEF PaidAt
  <2>3. \A p \in s.payments : ~(PaidAt(s, t.payDay, p) <= 0)
    BY <2>2
  <2> QED
    BY <2>3 DEF PaidBy
<1>9. StatedBy(s, t.payDay, 0) = {}
  <2>1. \A p \in s.resets : Event("reset", p.on, p.on, p.who, p.balance) \in E
    BY DEF Events
  <2>2. \A p \in s.resets : StatedAt(s, t.payDay, p) \in 1..n /\ n \in Nat
    BY <1>7, <2>1 DEF StatedAt
  <2>3. \A p \in s.resets : ~(StatedAt(s, t.payDay, p) <= 0)
    BY <2>2
  <2> QED
    BY <2>3 DEF StatedBy
<1>10. ChargedBy(s, t.payDay, 0) = {}
  <2>1. \A c \in Charges(s, t.payDay) : Event("charge", c, c, 0, 0) \in E
    BY DEF Events
  <2>2. \A c \in Charges(s, t.payDay) : ChargedAt(s, t.payDay, c) \in 1..n /\ n \in Nat
    BY <1>7, <2>1 DEF ChargedAt
  <2>3. \A c \in Charges(s, t.payDay) : ~(ChargedAt(s, t.payDay, c) <= 0)
    BY <2>2
  <2> QED
    BY <2>3 DEF ChargedBy
<1> QED
  BY <1>1, <1>2, <1>3, <1>4, <1>5, <1>6, <1>8, <1>9, <1>10

\* A recorded stream has no planned events.
LEMMA RecordedKinds ==
    ASSUME NEW s, Sound(s), s.planned = {}, NEW day \in PaymentDaysInMonth,
           NEW i \in 1..Len(Ordered(s, day))
    PROVE  Ordered(s, day)[i].kind \in {"charge", "payment", "reset"}
<1>1. PlannedEvents(s) = {}
  BY DEF PlannedEvents
<1> QED
  BY <1>1, KindFacts

\* The balance after an event is what the statements walked so far raised it by,
\* less the principal the payments walked so far paid.
LEMMA BalanceIsSum ==
    ASSUME NEW s, Sound(s), s.planned = {}, NEW t, SoundTerms(t)
    PROVE  LET walk == Replay(s, t, 0)
           IN  \A k \in 0..Len(Ordered(s, t.payDay)) :
                 WalkOf(s, t, 0)[k].balance =
                   SumFunctionOnSet(Raised(s, walk), StatedBy(s, t.payDay, k))
                   - SumFunctionOnSet(Lowered(s, walk), PaidBy(s, t.payDay, k))
<1> DEFINE walk == Replay(s, t, 0)
           day == t.payDay
           o == Ordered(s, day)
           W == WalkOf(s, t, 0)
           n == Len(o)
           raised == Raised(s, walk)
           lowered == Lowered(s, walk)
           P == {k \in 0..n : W[k].balance = SumFunctionOnSet(raised, StatedBy(s, day, k))
                                             - SumFunctionOnSet(lowered, PaidBy(s, day, k))}
<1>0. day \in PaymentDaysInMonth
  BY DEF SoundTerms
<1>1. n \in Nat
  BY <1>0, OrderFacts
<1>2. /\ \A r \in s.resets : raised[r] \in Int
      /\ \A p \in s.payments : lowered[p] \in Int
      /\ \A k \in 0..n : IsFiniteSet(PaidBy(s, day, k)) /\ IsFiniteSet(StatedBy(s, day, k))
      /\ PaidBy(s, day, 0) = {} /\ StatedBy(s, day, 0) = {}
      /\ \A r \in s.resets : raised[r] = r.balance - W[StatedAt(s, day, r) - 1].balance
      /\ \A p \in s.payments : LET i == PaidAt(s, day, p)
                               IN  lowered[p] = SplitAt(W[i - 1], o[i]).principal
  BY WalkParts
<1>3. 0 \in P
  <2>1. W[0].balance = 0
    BY <1>1, StatesStep DEF WalkOf, StartState
  <2>2. StatedBy(s, day, 0) = {} /\ PaidBy(s, day, 0) = {}
    BY <1>2
  <2>3. /\ SumFunctionOnSet(raised, StatedBy(s, day, 0)) = 0
        /\ SumFunctionOnSet(lowered, PaidBy(s, day, 0)) = 0
    BY <2>2, SumEmpty
  <2> HIDE DEF W, raised, lowered, o
  <2> QED
    BY <1>1, <2>1, <2>3
<1>4. ASSUME NEW k \in 0..n, k # n, k \in P
      PROVE  k + 1 \in P
  <2> DEFINE m == k + 1
             e == o[m]
             st == W[k]
             next == W[m]
             up == StatedBy(s, day, k)
             down == PaidBy(s, day, k)
  <2>0. m \in 1..n /\ m - 1 = k /\ m \in 0..n /\ k \in Nat
    BY <1>1, <1>4
  <2>1. st.balance = SumFunctionOnSet(raised, up) - SumFunctionOnSet(lowered, down)
    BY <1>4
  <2>2. st.balance \in Int /\ st.due \in DueType
    BY StatesGood DEF GoodState
  <2>3. e.kind \in {"charge", "payment", "reset"}
    BY <1>0, <2>0, RecordedKinds
  <2>4. /\ SumFunctionOnSet(raised, up) \in Int /\ SumFunctionOnSet(lowered, down) \in Int
        /\ IsFiniteSet(up) /\ IsFiniteSet(down)
        /\ \A r \in up : raised[r] \in Int
        /\ \A p \in down : lowered[p] \in Int
    <3>1. IsFiniteSet(up) /\ IsFiniteSet(down)
      BY <1>2
    <3>2. \A r \in up : raised[r] \in Int
      BY <1>2 DEF StatedBy
    <3>3. \A p \in down : lowered[p] \in Int
      BY <1>2 DEF PaidBy
    <3> QED
      BY <3>1, <3>2, <3>3, SumInt
  <2>5. CASE e.kind = "charge"
    <3>1. next.balance = st.balance
      BY <2>0, <2>5, WalkStep
    <3>2. StatedBy(s, day, m) = up /\ PaidBy(s, day, m) = down
      BY <1>0, <2>0, <2>5, OneMore
    <3> QED
      BY <2>0, <2>1, <3>1, <3>2
  <2>6. CASE e.kind = "payment"
    <3>1. next.balance = SplitAt(st, e).after
      BY <2>0, <2>6, WalkStep
    <3>2. StatedBy(s, day, m) = up
      BY <1>0, <2>0, <2>6, OneMore
    <3>3. PICK p \in s.payments : /\ e = Event("payment", p.on, p.on, p.who, p.cash)
                                  /\ PaidAt(s, day, p) = m
                                  /\ PaidBy(s, day, m) = PaidBy(s, day, m - 1) \cup {p}
                                  /\ p \notin PaidBy(s, day, m - 1)
      BY <1>0, <2>0, <2>6, OneMore
    <3>4. lowered[p] = SplitAt(st, e).principal
      BY <1>2, <2>0, <3>3
    <3>5. SplitAt(st, e).after = st.balance - SplitAt(st, e).principal
      <4>1. e.figure + st.due.extra \in Int
        BY <2>2, <3>3, SoundTypes DEF Event, DueType
      <4> QED
        BY <2>2, <4>1, SplitFacts DEF SplitAt
    <3>6. SumFunctionOnSet(lowered, down \cup {p}) = lowered[p] + SumFunctionOnSet(lowered, down)
      <4>1. p \notin down /\ lowered[p] \in Int
        BY <1>2, <2>0, <3>3
      <4> HIDE DEF lowered, down
      <4> QED
        BY <2>4, <4>1, SumAdd
    <3>7. PaidBy(s, day, m) = down \cup {p} /\ lowered[p] \in Int
      BY <1>2, <2>0, <3>3
    <3>8. next.balance = SumFunctionOnSet(raised, StatedBy(s, day, m))
                         - SumFunctionOnSet(lowered, PaidBy(s, day, m))
      <4> HIDE DEF raised, lowered, next, st, e, up, down
      <4>1. SumFunctionOnSet(raised, StatedBy(s, day, m)) = SumFunctionOnSet(raised, up)
        BY <3>2
      <4>2. SumFunctionOnSet(lowered, PaidBy(s, day, m)) = lowered[p] + SumFunctionOnSet(lowered, down)
        BY <3>6, <3>7
      <4> QED BY <2>1, <2>2, <2>4, <3>1, <3>4, <3>5, <3>7, <4>1, <4>2
    <3> QED
      BY <2>0, <3>8
  <2>7. CASE e.kind = "reset"
    <3>1. next.balance = e.figure
      BY <2>0, <2>7, WalkStep
    <3>2. PaidBy(s, day, m) = down
      BY <1>0, <2>0, <2>7, OneMore
    <3>3. PICK r \in s.resets : /\ e = Event("reset", r.on, r.on, r.who, r.balance)
                                /\ StatedAt(s, day, r) = m
                                /\ StatedBy(s, day, m) = StatedBy(s, day, m - 1) \cup {r}
                                /\ r \notin StatedBy(s, day, m - 1)
      BY <1>0, <2>0, <2>7, OneMore
    <3>4. raised[r] = e.figure - st.balance /\ e.figure \in Int
      BY <1>2, <2>0, <3>3, SoundTypes DEF Event
    <3>6. SumFunctionOnSet(raised, up \cup {r}) = raised[r] + SumFunctionOnSet(raised, up)
      <4>1. r \notin up /\ raised[r] \in Int
        BY <1>2, <2>0, <3>3
      <4> HIDE DEF raised, up
      <4> QED
        BY <2>4, <4>1, SumAdd
    <3>7. StatedBy(s, day, m) = up \cup {r} /\ raised[r] \in Int
      BY <1>2, <2>0, <3>3
    <3>8. next.balance = SumFunctionOnSet(raised, StatedBy(s, day, m))
                         - SumFunctionOnSet(lowered, PaidBy(s, day, m))
      <4> HIDE DEF raised, lowered, next, st, e, up, down
      <4>1. SumFunctionOnSet(raised, StatedBy(s, day, m)) = raised[r] + SumFunctionOnSet(raised, up)
        BY <3>6, <3>7
      <4>2. SumFunctionOnSet(lowered, PaidBy(s, day, m)) = SumFunctionOnSet(lowered, down)
        BY <3>2
      <4> QED BY <2>1, <2>2, <2>4, <3>1, <3>4, <3>7, <4>1, <4>2
    <3> QED
      BY <2>0, <3>8
  <2> QED
    BY <2>3, <2>5, <2>6, <2>7
<1>5. \A k \in 0..n : k \in P
  <2> HIDE DEF P, n
  <2> QED BY <1>1, <1>3, <1>4, UpTo
<1> QED
  BY <1>5

\* a sums f over what falls on each day up to n.
ByDay(a, f, on, S, n) == \A d \in 0..n : a[d] = SumFunctionOnSet(f, {x \in S : on[x] = d})
Within(on, S, n) == {x \in S : on[x] \in 0..n}

\* Summing day by day is summing what falls on the days.
LEMMA SumByDay ==
    ASSUME NEW f, NEW on, NEW S, IsFiniteSet(S), \A x \in S : f[x] \in Int,
           NEW n \in Nat, NEW a, ByDay(a, f, on, S, n)
    PROVE  SumFunctionOnSet(a, 0..n) = SumFunctionOnSet(f, Within(on, S, n))
<1> DEFINE I == 0..n
           h == [d \in I |-> [x \in S |-> IF on[x] = d THEN f[x] ELSE 0]]
           all == [x \in S |-> IF on[x] \in I THEN f[x] ELSE 0]
           byDay == [d \in I |-> SumFunctionOnSet(h[d], S)]
           byName == [x \in S |-> SumFunctionOnSet([d \in I |-> h[d][x]], I)]
<1>1. IsFiniteSet(I)
  BY FS_Interval
<1>2. h \in [I -> [S -> Int]]
  OBVIOUS
<1>3. SumFunctionOnSet(byDay, I) = SumFunctionOnSet(byName, S)
  <2> HIDE DEF h, I
  <2> QED BY <1>1, <1>2, SumSwap
<1>4. \A d \in I : SumFunctionOnSet(f, {x \in S : on[x] = d}) = SumFunctionOnSet(h[d], S)
  <2>1. SUFFICES ASSUME NEW d \in I
                 PROVE  SumFunctionOnSet(f, {x \in S : on[x] = d}) = SumFunctionOnSet(h[d], S)
    OBVIOUS
  <2> DEFINE D == {x \in S : on[x] = d}
             g == h[d]
  <2>2. D \in SUBSET S /\ \A x \in D : f[x] \in Int
    OBVIOUS
  <2>3. \A x \in S : g[x] = IF x \in D THEN f[x] ELSE 0
    OBVIOUS
  <2> HIDE DEF g, D
  <2>4. SumFunctionOnSet(f, D) = SumFunctionOnSet(g, S)
    BY <2>2, <2>3, SumFilter
  <2> QED
    BY <2>4 DEF g, D
<1>5. SumFunctionOnSet(a, I) = SumFunctionOnSet(byDay, I)
  <2>1. \A d \in I : a[d] = byDay[d]
    BY <1>4 DEF ByDay
  <2> HIDE DEF byDay, I
  <2> QED
    BY <1>1, <2>1, SumSame
<1>6. \A x \in S : byName[x] = all[x]
  <2>1. SUFFICES ASSUME NEW x \in S
                 PROVE  SumFunctionOnSet([d \in I |-> h[d][x]], I) = IF on[x] \in I THEN f[x] ELSE 0
    OBVIOUS
  <2> DEFINE g == [d \in I |-> h[d][x]]
  <2>2. \A d \in I : g[d] = IF on[x] = d THEN f[x] ELSE 0
    OBVIOUS
  <2>3. f[x] \in Int
    OBVIOUS
  <2> HIDE DEF g, I, h
  <2>4. CASE on[x] \in I
    <3>1. g[on[x]] = f[x] /\ \A d \in I \ {on[x]} : g[d] = 0
      BY <2>2, <2>4
    <3>2. SumFunctionOnSet(g, I) = f[x]
      BY <1>1, <2>3, <2>4, <3>1, SumSingle
    <3> QED
      BY <2>4, <3>2 DEF g
  <2>5. CASE on[x] \notin I
    <3>1. \A d \in I : g[d] = 0
      BY <2>2, <2>5
    <3>2. SumFunctionOnSet(g, I) = 0
      BY <1>1, <3>1, SumZeros
    <3> QED
      BY <2>5, <3>2 DEF g
  <2> QED
    BY <2>4, <2>5
<1>7. SumFunctionOnSet(byName, S) = SumFunctionOnSet(all, S)
  <2> HIDE DEF byName, all
  <2> QED BY <1>6, SumSame
<1>8. SumFunctionOnSet(f, {x \in S : on[x] \in I}) = SumFunctionOnSet(all, S)
  <2> DEFINE D == {x \in S : on[x] \in I}
  <2>1. D \in SUBSET S /\ (\A x \in D : f[x] \in Int)
        /\ \A x \in S : all[x] = IF x \in D THEN f[x] ELSE 0
    OBVIOUS
  <2> HIDE DEF all, D
  <2>2. SumFunctionOnSet(f, D) = SumFunctionOnSet(all, S)
    BY <2>1, SumFilter
  <2> QED
    BY <2>2 DEF D
<1> QED
  BY <1>3, <1>5, <1>7, <1>8 DEF Within

\* What a day adds to the debt, summed by what falls on it.
LEMMA DeltaIs ==
    ASSUME NEW s, Sound(s), NEW t, SoundTerms(t), NEW d
    PROVE  LET walk == Replay(s, t, 0)
               up == SumFunctionOnSet(Raised(s, walk), {r \in s.resets : r.on = d})
               down == SumFunctionOnSet(Lowered(s, walk), {p \in s.payments : p.seen = d})
           IN  DeltaOn(s, walk, d) = up - down /\ up \in Int /\ down \in Int
<1> DEFINE walk == Replay(s, t, 0)
           R == {r \in s.resets : r.on = d}
           P == {p \in s.payments : p.seen = d}
           raised == [r \in R |-> r.balance - walk.reset[r.who]]
           lowered == [p \in P |-> walk.payment[p.who].split.principal]
<1>1. IsFiniteSet(R) /\ IsFiniteSet(P)
  <2>1. IsFiniteSet(s.resets) /\ IsFiniteSet(s.payments) /\ R \in SUBSET s.resets /\ P \in SUBSET s.payments
    BY SoundTypes
  <2> QED
    BY <2>1, FS_Subset
<1>2. \A r \in R : raised[r] = Raised(s, walk)[r] /\ Raised(s, walk)[r] \in Int
  <2>1. \A r \in s.resets : Raised(s, walk)[r] \in Int
    BY WalkParts
  <2> HIDE DEF walk
  <2> QED BY <2>1 DEF Raised
<1>3. \A p \in P : lowered[p] = Lowered(s, walk)[p] /\ Lowered(s, walk)[p] \in Int
  <2>1. \A p \in s.payments : Lowered(s, walk)[p] \in Int
    BY WalkParts
  <2> HIDE DEF walk
  <2> QED BY <2>1 DEF Lowered
<1>4. DeltaOn(s, walk, d) = SumFunctionOnSet(raised, R) - SumFunctionOnSet(lowered, P)
  BY DEF DeltaOn, SumFunction
<1> HIDE DEF raised, lowered, R, P
<1>5. SumFunctionOnSet(raised, R) = SumFunctionOnSet(Raised(s, walk), R)
  BY <1>1, <1>2, SumSame
<1>6. SumFunctionOnSet(lowered, P) = SumFunctionOnSet(Lowered(s, walk), P)
  BY <1>1, <1>3, SumSame
<1>7. SumFunctionOnSet(Raised(s, walk), R) \in Int /\ SumFunctionOnSet(Lowered(s, walk), P) \in Int
  BY <1>1, <1>2, <1>3, SumInt
<1> QED
  BY <1>4, <1>5, <1>6, <1>7 DEF R, P

\* The events up to the last statement on a day are those due by the day.
LEMMA UpToStatement ==
    ASSUME NEW s, Sound(s), NEW day \in PaymentDaysInMonth,
           NEW r \in s.resets, \A q \in s.resets : q.on = r.on => q.who <= r.who
    PROVE  /\ PaidBy(s, day, StatedAt(s, day, r)) = {p \in s.payments : p.on <= r.on}
           /\ StatedBy(s, day, StatedAt(s, day, r)) = {q \in s.resets : q.on <= r.on}
<1> DEFINE E == Events(s, day)
           e == Event("reset", r.on, r.on, r.who, r.balance)
<1>1. Orderly(E)
  BY EventsOrderly
<1>2. e \in E
  BY DEF Events
<1>3. r.on \in Int /\ r.who \in Int
  BY SoundTypes
<1>4. ASSUME NEW p \in s.payments
      PROVE  PaidAt(s, day, p) <= StatedAt(s, day, r) <=> p.on <= r.on
  <2> DEFINE f == Event("payment", p.on, p.on, p.who, p.cash)
  <2>1. f \in E /\ p.on \in Int
    BY SoundTypes DEF Events
  <2>2. Place(E, e) \in Int /\ Place(E, f) \in Int /\ (Before(e, f) <=> Place(E, e) < Place(E, f))
    BY <1>1, <1>2, <2>1, PlaceFacts
  <2>3. Before(e, f) <=> r.on < p.on
    BY <1>3, <2>1 DEF Before, KindOrder, Event
  <2> QED
    BY <1>3, <2>1, <2>2, <2>3 DEF PaidAt, StatedAt
<1>5. ASSUME NEW q \in s.resets
      PROVE  StatedAt(s, day, q) <= StatedAt(s, day, r) <=> q.on <= r.on
  <2> DEFINE f == Event("reset", q.on, q.on, q.who, q.balance)
  <2>1. f \in E /\ q.on \in Int /\ q.who \in Int /\ (q.on = r.on => q.who <= r.who)
    BY SoundTypes DEF Events
  <2>2. Place(E, e) \in Int /\ Place(E, f) \in Int /\ (Before(e, f) <=> Place(E, e) < Place(E, f))
    BY <1>1, <1>2, <2>1, PlaceFacts
  <2>3. Before(e, f) <=> r.on < q.on
    BY <1>3, <2>1 DEF Before, KindOrder, Event
  <2> QED
    BY <1>3, <2>1, <2>2, <2>3 DEF StatedAt
<1> QED
  BY <1>4, <1>5 DEF PaidBy, StatedBy

\* A stated balance reads back on its day.
LEMMA StatedReadsBack ==
    ASSUME NEW s, Sound(s), s.planned = {}, NEW t, SoundTerms(t), NEW r \in s.resets,
           \A p \in s.payments : p.on <= r.on <=> p.seen <= r.on,
           \A q \in s.resets : q.on = r.on => q.who <= r.who
    PROVE  SumFunction([d \in 0..r.on |-> DeltaOn(s, Replay(s, t, 0), d)]) = r.balance
<1> DEFINE walk == Replay(s, t, 0)
           day == t.payDay
           o == Ordered(s, day)
           W == WalkOf(s, t, 0)
           i == StatedAt(s, day, r)
           raised == Raised(s, walk)
           lowered == Lowered(s, walk)
           D == 0..r.on
           ups == {q \in s.resets : q.on <= r.on}
           downs == {p \in s.payments : p.on <= r.on}
<1>0. day \in PaymentDaysInMonth
  BY DEF SoundTerms
<1>1. /\ Len(o) \in Nat /\ i \in 1..Len(o)
      /\ o[i] = Event("reset", r.on, r.on, r.who, r.balance)
  BY ReplayRecords
<1>2. W[i].balance = r.balance
  <2>1. o[i].kind = "reset" /\ o[i].figure = r.balance
    BY <1>1, EventFields
  <2> QED
    BY <1>1, <2>1, WalkStep
<1>3. W[i].balance = SumFunctionOnSet(raised, StatedBy(s, day, i))
                     - SumFunctionOnSet(lowered, PaidBy(s, day, i))
  <2>1. i \in 0..Len(o)
    BY <1>1
  <2> QED
    BY <2>1, BalanceIsSum
<1>4. StatedBy(s, day, i) = ups /\ PaidBy(s, day, i) = downs
  BY <1>0, UpToStatement
<1>5. r.on \in Nat /\ IsFiniteSet(D)
  <2>1. r.on \in Nat
    BY SoundTypes
  <2>2. 0 \in Int /\ r.on \in Int
    BY <2>1
  <2>3. IsFiniteSet(0..r.on)
    BY <2>2, FS_Interval, Zenon
  <2> QED
    BY <2>1, <2>3
<1>6. IsFiniteSet(s.resets) /\ IsFiniteSet(s.payments)
  BY SoundTypes
<1>7. (\A q \in s.resets : raised[q] \in Int) /\ \A p \in s.payments : lowered[p] \in Int
  BY WalkParts
<1> DEFINE moved == [d \in D |-> DeltaOn(s, walk, d)]
           upOn == [d \in D |-> SumFunctionOnSet(raised, {q \in s.resets : q.on = d})]
           downOn == [d \in D |-> SumFunctionOnSet(lowered, {p \in s.payments : p.seen = d})]
<1>8. \A d \in D : moved[d] \in Int /\ downOn[d] \in Int /\ upOn[d] = moved[d] + downOn[d]
  <2>1. SUFFICES ASSUME NEW d \in D
                 PROVE  moved[d] \in Int /\ downOn[d] \in Int /\ upOn[d] = moved[d] + downOn[d]
    OBVIOUS
  <2>2. /\ DeltaOn(s, walk, d) = upOn[d] - downOn[d] /\ upOn[d] \in Int /\ downOn[d] \in Int
    <3>1. /\ upOn[d] = SumFunctionOnSet(raised, {q \in s.resets : q.on = d})
          /\ downOn[d] = SumFunctionOnSet(lowered, {p \in s.payments : p.seen = d})
      <4> HIDE DEF raised, lowered
      <4> QED OBVIOUS
    <3>2. /\ DeltaOn(s, walk, d) = SumFunctionOnSet(raised, {q \in s.resets : q.on = d})
                                    - SumFunctionOnSet(lowered, {p \in s.payments : p.seen = d})
          /\ SumFunctionOnSet(raised, {q \in s.resets : q.on = d}) \in Int
          /\ SumFunctionOnSet(lowered, {p \in s.payments : p.seen = d}) \in Int
      BY DeltaIs, SMTT(30)
    <3> HIDE DEF upOn, downOn, raised, lowered, walk
    <3> DEFINE up == SumFunctionOnSet(raised, {q \in s.resets : q.on = d})
               down == SumFunctionOnSet(lowered, {p \in s.payments : p.seen = d})
    <3>3. upOn[d] = up /\ downOn[d] = down
      BY <3>1
    <3>4. DeltaOn(s, walk, d) = up - down /\ up \in Int /\ down \in Int
      BY <3>2
    <3> HIDE DEF up, down
    <3> QED
      BY <3>3, <3>4
  <2>3. moved[d] = DeltaOn(s, walk, d)
    OBVIOUS
  <2> HIDE DEF moved, upOn, downOn
  <2> QED BY <2>2, <2>3
<1>9. SumFunctionOnSet(upOn, D) = SumFunctionOnSet(moved, D) + SumFunctionOnSet(downOn, D)
  <2> HIDE DEF moved, upOn, downOn, D
  <2> QED BY <1>5, <1>8, SumPlus
<1>10. SumFunctionOnSet(upOn, D) = SumFunctionOnSet(raised, ups)
  <2> DEFINE on == [q \in s.resets |-> q.on]
             within == {q \in s.resets : on[q] \in 0..r.on}
  <2>2. ByDay(upOn, raised, on, s.resets, r.on)
    <3>1. SUFFICES ASSUME NEW d \in 0..r.on
                   PROVE  upOn[d] = SumFunctionOnSet(raised, {q \in s.resets : on[q] = d})
      BY DEF ByDay
    <3>2. {q \in s.resets : on[q] = d} = {q \in s.resets : q.on = d}
      OBVIOUS
    <3> HIDE DEF raised, on
    <3> QED BY <3>2
  <2>4. within = ups
    <3>1. \A q \in s.resets : q.on \in Nat
      BY SoundTypes
    <3> QED
      BY <1>5, <3>1
  <2>5. SumFunctionOnSet(upOn, 0..r.on) = SumFunctionOnSet(raised, within)
    <3>1. within = Within(on, s.resets, r.on)
      BY DEF Within
    <3> HIDE DEF upOn, within, raised, on
    <3> QED BY <1>5, <1>6, <1>7, <2>2, <3>1, SumByDay
  <2> QED
    BY <2>4, <2>5
<1>11. SumFunctionOnSet(downOn, D) = SumFunctionOnSet(lowered, downs)
  <2> DEFINE on == [p \in s.payments |-> p.seen]
             within == {p \in s.payments : on[p] \in 0..r.on}
  <2>2. ByDay(downOn, lowered, on, s.payments, r.on)
    <3>1. SUFFICES ASSUME NEW d \in 0..r.on
                   PROVE  downOn[d] = SumFunctionOnSet(lowered, {p \in s.payments : on[p] = d})
      BY DEF ByDay
    <3>2. {p \in s.payments : on[p] = d} = {p \in s.payments : p.seen = d}
      OBVIOUS
    <3> HIDE DEF lowered, on
    <3> QED BY <3>2
  <2>4. within = downs
    <3>1. \A p \in s.payments : p.seen \in Nat /\ p.on \in Nat
      BY SoundTypes
    <3> QED
      BY <1>5, <3>1
  <2>5. SumFunctionOnSet(downOn, 0..r.on) = SumFunctionOnSet(lowered, within)
    <3>1. within = Within(on, s.payments, r.on)
      BY DEF Within
    <3> HIDE DEF downOn, within, lowered, on
    <3> QED BY <1>5, <1>6, <1>7, <2>2, <3>1, SumByDay
  <2> QED
    BY <2>4, <2>5
<1>12. SumFunctionOnSet(raised, ups) \in Int /\ SumFunctionOnSet(lowered, downs) \in Int
       /\ SumFunctionOnSet(moved, D) \in Int
  <2>1. IsFiniteSet(ups) /\ IsFiniteSet(downs)
    BY <1>6, FS_Subset
  <2>2. (\A q \in ups : raised[q] \in Int) /\ \A p \in downs : lowered[p] \in Int
    BY <1>7
  <2> HIDE DEF ups, downs, raised, lowered, moved, D
  <2> QED
    BY <1>5, <1>8, <2>1, <2>2, SumInt
<1>13. SumFunctionOnSet(moved, D) = r.balance
  <2> HIDE DEF moved, upOn, downOn, D, raised, lowered, ups, downs, W, i
  <2>1. r.balance = SumFunctionOnSet(raised, ups) - SumFunctionOnSet(lowered, downs)
    BY <1>2, <1>3, <1>4
  <2> QED
    BY <1>9, <1>10, <1>11, <1>12, <2>1
<1> QED
  BY <1>13 DEF SumFunction

PaidUpTo(s, t, k) == SumFunctionOnSet(EscrowOf(s, Replay(s, t, 0)), PaidBy(s, t.payDay, k))
ChargedUpTo(s, t, k) == SumFunctionOnSet(MonthOfLines(s, t), ChargedBy(s, t.payDay, k))

\* The escrow cleared and the escrow charged, an event at a time.
LEMMA EscrowStep ==
    ASSUME NEW s, Sound(s), s.planned = {}, NEW t, SoundTerms(t),
           NEW i \in 1..Len(Ordered(s, t.payDay))
    PROVE  LET e == Ordered(s, t.payDay)[i]
               st == WalkOf(s, t, 0)[i - 1]
           IN  /\ PaidUpTo(s, t, i - 1) \in Nat /\ ChargedUpTo(s, t, i - 1) \in Nat
               /\ PaidUpTo(s, t, 0) = 0 /\ ChargedUpTo(s, t, 0) = 0
               /\ e.kind = "payment" =>
                    /\ PaidUpTo(s, t, i) = PaidUpTo(s, t, i - 1) + SplitAt(st, e).escrow
                    /\ SplitAt(st, e).escrow \in Nat
               /\ e.kind # "payment" => PaidUpTo(s, t, i) = PaidUpTo(s, t, i - 1)
               /\ e.kind = "charge" =>
                    /\ ChargedUpTo(s, t, i)
                         = ChargedUpTo(s, t, i - 1) + MonthlyEscrow(t.versions, Lines, e.on)
                    /\ MonthlyEscrow(t.versions, Lines, e.on) \in Nat
               /\ e.kind # "charge" => ChargedUpTo(s, t, i) = ChargedUpTo(s, t, i - 1)
<1> DEFINE walk == Replay(s, t, 0)
           day == t.payDay
           o == Ordered(s, day)
           W == WalkOf(s, t, 0)
           e == o[i]
           st == W[i - 1]
           escrow == EscrowOf(s, walk)
           month == MonthOfLines(s, t)
           paid == PaidBy(s, day, i - 1)
           charged == ChargedBy(s, day, i - 1)
<1>0. day \in PaymentDaysInMonth
  BY DEF SoundTerms
<1>1. Len(o) \in Nat /\ i - 1 \in 0..Len(o)
  BY <1>0, OrderFacts
<1>2. /\ \A p \in s.payments : escrow[p] \in Nat
      /\ \A c \in Charges(s, day) : month[c] \in Nat
      /\ IsFiniteSet(paid) /\ IsFiniteSet(charged)
      /\ PaidBy(s, day, 0) = {} /\ ChargedBy(s, day, 0) = {}
      /\ \A p \in s.payments : LET j == PaidAt(s, day, p)
                               IN  escrow[p] = SplitAt(W[j - 1], o[j]).escrow
  <2>1. \A p \in s.payments : escrow[p] \in Nat
    BY WalkParts
  <2>2. \A c \in Charges(s, day) : month[c] \in Nat
    BY WalkParts
  <2>3. IsFiniteSet(paid) /\ IsFiniteSet(charged)
    BY <1>1, WalkParts
  <2>4. PaidBy(s, day, 0) = {} /\ ChargedBy(s, day, 0) = {}
    BY WalkParts
  <2>5. \A p \in s.payments : LET j == PaidAt(s, day, p)
                              IN  escrow[p] = SplitAt(W[j - 1], o[j]).escrow
    BY WalkParts
  <2> QED
    BY <2>1, <2>2, <2>3, <2>4, <2>5
<1>3. (\A p \in paid : escrow[p] \in Nat /\ escrow[p] \in Int)
      /\ \A c \in charged : month[c] \in Nat /\ month[c] \in Int
  BY <1>2 DEF PaidBy, ChargedBy
<1>4. SumFunctionOnSet(escrow, paid) \in Nat /\ SumFunctionOnSet(month, charged) \in Nat
  <2> HIDE DEF escrow, paid, month, charged
  <2> QED BY <1>2, <1>3, SumNat
<1>5. SumFunctionOnSet(escrow, PaidBy(s, day, 0)) = 0
      /\ SumFunctionOnSet(month, ChargedBy(s, day, 0)) = 0
  BY <1>2, SumEmpty
<1>6. ASSUME e.kind = "payment"
      PROVE  /\ SumFunctionOnSet(escrow, PaidBy(s, day, i))
                  = SumFunctionOnSet(escrow, paid) + SplitAt(st, e).escrow
             /\ SplitAt(st, e).escrow \in Nat
  <2>1. PICK p \in s.payments : /\ PaidAt(s, day, p) = i
                                /\ PaidBy(s, day, i) = PaidBy(s, day, i - 1) \cup {p}
                                /\ p \notin PaidBy(s, day, i - 1)
    BY <1>0, <1>6, OneMore
  <2>2. escrow[p] = SplitAt(st, e).escrow /\ escrow[p] \in Nat
    BY <1>2, <2>1
  <2>3. PaidBy(s, day, i) = paid \cup {p} /\ p \notin paid
    BY <2>1
  <2> HIDE DEF escrow, paid
  <2>4. SumFunctionOnSet(escrow, paid \cup {p}) = escrow[p] + SumFunctionOnSet(escrow, paid)
    <3>1. escrow[p] \in Int
      BY <2>2
    <3> QED
      BY <1>2, <1>3, <2>3, <3>1, SumAdd
  <2> HIDE DEF st, e
  <2> QED
    BY <1>4, <2>2, <2>3, <2>4
<1>7. ASSUME e.kind = "charge"
      PROVE  /\ SumFunctionOnSet(month, ChargedBy(s, day, i))
                  = SumFunctionOnSet(month, charged) + MonthlyEscrow(t.versions, Lines, e.on)
             /\ MonthlyEscrow(t.versions, Lines, e.on) \in Nat
  <2>1. /\ e.on \in Charges(s, day)
        /\ ChargedBy(s, day, i) = ChargedBy(s, day, i - 1) \cup {e.on}
        /\ e.on \notin ChargedBy(s, day, i - 1)
    BY <1>0, <1>7, OneMore
  <2> DEFINE c == e.on
  <2>2. month[c] = MonthlyEscrow(t.versions, Lines, c) /\ month[c] \in Nat
    <3>1. month[c] \in Nat
      BY <1>2, <2>1
    <3> QED
      BY <2>1, <3>1 DEF MonthOfLines
  <2>3. ChargedBy(s, day, i) = charged \cup {c} /\ c \notin charged
    BY <2>1
  <2> HIDE DEF month, charged, c
  <2>4. SumFunctionOnSet(month, charged \cup {c}) = month[c] + SumFunctionOnSet(month, charged)
    <3>1. month[c] \in Int
      BY <2>2
    <3> QED
      BY <1>2, <1>3, <2>3, <3>1, SumAdd
  <2>5. SumFunctionOnSet(month, ChargedBy(s, day, i))
          = SumFunctionOnSet(month, charged) + MonthlyEscrow(t.versions, Lines, c)
    BY <1>4, <2>2, <2>3, <2>4
  <2> QED
    BY <2>2, <2>5 DEF c
<1>8. e.kind # "payment" => PaidBy(s, day, i) = paid
  BY <1>0, OneMore
<1>9. e.kind # "charge" => ChargedBy(s, day, i) = charged
  BY <1>0, OneMore
<1> HIDE DEF e, st, W, o
<1> QED
  BY <1>4, <1>5, <1>6, <1>7, <1>8, <1>9 DEF PaidUpTo, ChargedUpTo, e, st, W, o

\* Once an installment is charged, the one standing is a day the loan charges on.
LEMMA StandingCharge ==
    ASSUME NEW s, Sound(s), NEW t, SoundTerms(t), NEW x \in Nat,
           NEW k \in 0..Len(Ordered(s, t.payDay)),
           NEW c \in 1..k, Ordered(s, t.payDay)[c].kind = "charge"
    PROVE  /\ WalkOf(s, t, x)[k].standing \in Nat
           /\ Origination <= WalkOf(s, t, x)[k].standing
           /\ \E l \in c..k : /\ Ordered(s, t.payDay)[l].kind = "charge"
                              /\ WalkOf(s, t, x)[k].standing = Ordered(s, t.payDay)[l].on
<1> DEFINE o == Ordered(s, t.payDay)
           st == WalkOf(s, t, x)[k]
<1>0. t.payDay \in PaymentDaysInMonth
  BY DEF SoundTerms
<1>1. Len(o) \in Nat
  BY <1>0, OrderFacts
<1>2. Standing(o, k, st)
  BY StatesGood
<1> HIDE DEF st
<1>3. PICK l \in c..k : o[l].kind = "charge" /\ st.standing = o[l].on
  BY <1>2 DEF Standing
<1>4. l \in 1..Len(o)
  BY <1>1
<1>5. o[l].on \in Nat /\ Origination < o[l].on
  BY <1>0, <1>3, <1>4, KindFacts
<1>6. st.standing \in Nat /\ Origination <= st.standing
  BY <1>3, <1>5, LoanAssumption
<1> QED
  BY <1>3, <1>6 DEF st

\* The escrow cleared and the escrow still due never pass the escrow charged, nor
\* would they if the installment standing were charged again while none paid it.
LEMMA EscrowBound ==
    ASSUME NEW s, Sound(s), s.planned = {}, NEW t, SoundTerms(t)
    PROVE  LET o == Ordered(s, t.payDay)
               W == WalkOf(s, t, 0)
           IN  \A k \in 0..Len(o) :
                 /\ PaidUpTo(s, t, k) + W[k].due.escrow <= ChargedUpTo(s, t, k)
                 /\ UnpaidChargeBefore(o, k + 1) =>
                      PaidUpTo(s, t, k) + MonthlyEscrow(t.versions, Lines, W[k].standing)
                        <= ChargedUpTo(s, t, k)
<1> DEFINE day == t.payDay
           o == Ordered(s, day)
           W == WalkOf(s, t, 0)
           n == Len(o)
           Paid(k) == PaidUpTo(s, t, k)
           Charged(k) == ChargedUpTo(s, t, k)
           Month(c) == MonthlyEscrow(t.versions, Lines, c)
           P == {k \in 0..n : /\ Paid(k) + W[k].due.escrow <= Charged(k)
                              /\ UnpaidChargeBefore(o, k + 1) =>
                                   Paid(k) + Month(W[k].standing) <= Charged(k)}
<1>0. day \in PaymentDaysInMonth
  BY DEF SoundTerms
<1>1. n \in Nat /\ 1 <= n /\ Boundary(s) \in Nat
  <2>1. n \in Nat /\ Boundary(s) \in Nat
    BY <1>0, OrderFacts, RecordedFacts
  <2>2. StatedAt(s, day, Opening) \in 1..n
    BY ReplayRecords DEF Sound
  <2> QED
    BY <2>1, <2>2
<1>2. 0 \in P
  <2>1. Paid(0) = 0 /\ Charged(0) = 0
    BY <1>1, EscrowStep
  <2>2. W[0].due.escrow = 0
    BY <1>1, StatesStep DEF WalkOf, StartState, NothingDue, Due
  <2>3. ~UnpaidChargeBefore(o, 0 + 1)
    BY DEF UnpaidChargeBefore
  <2> HIDE DEF Paid, Charged, Month, W
  <2> QED
    BY <1>1, <2>1, <2>2, <2>3
<1>3. ASSUME NEW k \in 0..n, k # n, k \in P
      PROVE  k + 1 \in P
  <2> DEFINE m == k + 1
             e == o[m]
             st == W[k]
             next == W[m]
  <2>0. m \in 1..n /\ m - 1 = k /\ m \in 0..n /\ k \in Nat
    BY <1>1, <1>3
  <2>1. /\ Paid(k) + st.due.escrow <= Charged(k)
        /\ UnpaidChargeBefore(o, m) => Paid(k) + Month(st.standing) <= Charged(k)
    BY <1>3
  <2>2. /\ Paid(k) \in Nat /\ Charged(k) \in Nat
        /\ e.kind = "payment" => /\ Paid(m) = Paid(k) + SplitAt(st, e).escrow
                                 /\ SplitAt(st, e).escrow \in Nat
        /\ e.kind # "payment" => Paid(m) = Paid(k)
        /\ e.kind = "charge" => Charged(m) = Charged(k) + Month(e.on) /\ Month(e.on) \in Nat
        /\ e.kind # "charge" => Charged(m) = Charged(k)
    BY <2>0, EscrowStep
  <2>3. e.kind \in {"charge", "payment", "reset"}
    BY <1>0, <2>0, RecordedKinds
  <2>4. st.balance \in Int /\ st.due \in DueType /\ st.due.extra = 0
    BY StatesGood DEF GoodState
  <2>5. st.due.escrow \in Nat
    BY <2>4 DEF DueType
  <2>6. ASSUME e.kind # "charge", UnpaidChargeBefore(o, m + 1)
        PROVE  ~Pays(e) /\ UnpaidChargeBefore(o, m)
    <3>1. PICK c \in 1..m : o[c].kind = "charge" /\ \A j \in (c + 1)..m : ~Pays(o[j])
      BY <2>0, <2>6 DEF UnpaidChargeBefore
    <3>2. c \in 1..k /\ m \in (c + 1)..m
      BY <2>0, <2>6, <3>1
    <3>3. \A j \in (c + 1)..k : j \in (c + 1)..m
      BY <2>0
    <3> QED
      BY <2>0, <3>1, <3>2, <3>3 DEF UnpaidChargeBefore
  <2>7. CASE e.kind = "charge"
    <3> DEFINE kept == Kept(t, FirstTrackingStart(s), st, e)
               accrued == Accrued(t, Boundary(s), 0, e.on, st.balance)
    <3>1. next.due = Plus(kept, accrued) /\ next.standing = e.on
      BY <2>0, <2>7, WalkStep
    <3>2. accrued \in DueType /\ accrued.escrow <= Month(e.on)
      <4>1. e.on \in Nat /\ Origination <= e.on
        <5>1. e.on \in Nat /\ Origination < e.on
          BY <1>0, <2>0, <2>7, KindFacts
        <5> QED
          BY <5>1, LoanAssumption
      <4> HIDE DEF e, st
      <4> QED
        BY <2>4, <4>1, AccruedPlain
    <3>3. kept \in DueType /\ kept.escrow <= st.due.escrow
      <4>1. NothingDue \in DueType /\ NothingDue.escrow = 0
        BY <3>2, PlusFacts
      <4> HIDE DEF e, st
      <4> QED
        BY <2>4, <2>5, <4>1 DEF Kept
    <3> HIDE DEF kept, accrued
    <3>4. Plus(kept, accrued).escrow = kept.escrow + accrued.escrow
      BY <3>2, <3>3, PlusFacts
    <3>5. kept.escrow \in Nat /\ accrued.escrow \in Nat
      BY <3>2, <3>3 DEF DueType
    <3> HIDE DEF Paid, Charged, Month, W, e, st, next
    <3>6. Paid(m) + next.due.escrow <= Charged(m)
      BY <2>1, <2>2, <2>5, <2>7, <3>1, <3>2, <3>3, <3>4, <3>5
    <3>7. Paid(m) + Month(next.standing) <= Charged(m)
      BY <2>1, <2>2, <2>5, <2>7, <3>1
    <3> QED
      BY <2>0, <3>6, <3>7 DEF next
  <2>8. CASE e.kind = "payment"
    <3>1. next.due = NothingDue
      BY <2>0, <2>8, WalkStep
    <3>2. next.due.escrow = 0
      BY <3>1 DEF NothingDue, Due
    <3>3. SplitAt(st, e).escrow <= st.due.escrow
      <4>1. e.figure \in Nat
        BY <1>0, <2>0, <2>8, KindFacts
      <4>2. e.figure + st.due.extra \in Int
        BY <2>4, <4>1
      <4> HIDE DEF e, st
      <4> QED
        BY <2>4, <4>2, SplitFacts DEF SplitAt
    <3>4. ~UnpaidChargeBefore(o, m + 1)
      BY <2>6, <2>8 DEF Pays
    <3> HIDE DEF Paid, Charged, Month, W, e, st, next
    <3>5. Paid(m) + next.due.escrow <= Charged(m)
      BY <2>1, <2>2, <2>5, <2>8, <3>2, <3>3
    <3> QED
      BY <2>0, <3>4, <3>5 DEF next
  <2>9. CASE e.kind = "reset"
    <3>1. next.due = Owed(s, t, 0, o, m, st) /\ next.standing = st.standing
      BY <2>0, <2>9, WalkStep
    <3>2. next.due.escrow = 0 \/ (/\ UnpaidChargeBefore(o, m)
                                  /\ next.due.escrow <= Month(st.standing)
                                  /\ next.due.escrow \in Nat)
      <4>1. CASE ~Recharges(s, o, m)
        BY <3>1, <4>1 DEF Owed, NothingDue, Due
      <4>2. CASE Recharges(s, o, m)
        <5>1. UnpaidChargeBefore(o, m)
          BY <4>2 DEF Recharges
        <5>2. PICK c \in 1..k : o[c].kind = "charge"
          BY <2>0, <5>1 DEF UnpaidChargeBefore
        <5>3. st.standing \in Nat /\ Origination <= st.standing
          BY <5>2, StandingCharge
        <5>4. next.due = Accrued(t, Boundary(s), 0, st.standing, e.figure)
          BY <3>1, <4>2 DEF Owed
        <5>5. e.figure \in Int
          <6>1. e.figure \in Nat
            BY <1>0, <2>0, <2>9, KindFacts
          <6> QED
            BY <6>1
        <5> HIDE DEF e, st, next
        <5>6. next.due \in DueType /\ next.due.escrow <= Month(st.standing)
          BY <5>3, <5>4, <5>5, AccruedPlain
        <5> QED
          BY <5>1, <5>6 DEF DueType
      <4> QED
        BY <4>1, <4>2
    <3>3. UnpaidChargeBefore(o, m + 1) => UnpaidChargeBefore(o, m)
      BY <2>6, <2>9
    <3>4. UnpaidChargeBefore(o, m) => Month(st.standing) \in Nat
      <4>1. SUFFICES ASSUME UnpaidChargeBefore(o, m) PROVE Month(st.standing) \in Nat
        OBVIOUS
      <4>2. PICK c \in 1..k : o[c].kind = "charge"
        BY <2>0, <4>1 DEF UnpaidChargeBefore
      <4>3. st.standing \in Nat
        BY <4>2, StandingCharge
      <4> QED
        BY <4>3, MonthlyFacts
    <3> HIDE DEF Paid, Charged, Month, W, e, st, next, o
    <3>5. Paid(m) + next.due.escrow <= Charged(m)
      BY <2>1, <2>2, <2>5, <2>9, <3>2, <3>4
    <3>6. UnpaidChargeBefore(o, m + 1) => Paid(m) + Month(next.standing) <= Charged(m)
      BY <2>1, <2>2, <2>9, <3>1, <3>3
    <3> QED
      BY <2>0, <3>5, <3>6 DEF next
  <2> QED
    BY <2>3, <2>7, <2>8, <2>9
<1>4. \A k \in 0..n : k \in P
  <2> HIDE DEF P, n
  <2> QED BY <1>1, <1>2, <1>3, UpTo
<1> QED
  BY <1>4

\* The events up to the last payment due on a day are those due by the day.
LEMMA UpToPayment ==
    ASSUME NEW s, Sound(s), NEW day \in PaymentDaysInMonth,
           NEW p \in s.payments, \A q \in s.payments : q.on = p.on => q.who <= p.who
    PROVE  /\ PaidBy(s, day, PaidAt(s, day, p)) = {q \in s.payments : q.on <= p.on}
           /\ ChargedBy(s, day, PaidAt(s, day, p)) = Installments(day, p.on)
<1> DEFINE E == Events(s, day)
           e == Event("payment", p.on, p.on, p.who, p.cash)
<1>1. Orderly(E)
  BY EventsOrderly
<1>2. e \in E
  BY DEF Events
<1>3. p.on \in Int /\ p.who \in Int
  BY SoundTypes
<1>4. ASSUME NEW q \in s.payments
      PROVE  PaidAt(s, day, q) <= PaidAt(s, day, p) <=> q.on <= p.on
  <2> DEFINE f == Event("payment", q.on, q.on, q.who, q.cash)
  <2>1. f \in E /\ q.on \in Int /\ q.who \in Int /\ (q.on = p.on => q.who <= p.who)
    BY SoundTypes DEF Events
  <2>2. Place(E, e) \in Int /\ Place(E, f) \in Int /\ (Before(e, f) <=> Place(E, e) < Place(E, f))
    BY <1>1, <1>2, <2>1, PlaceFacts
  <2>3. Before(e, f) <=> p.on < q.on
    BY <1>3, <2>1 DEF Before, KindOrder, Event
  <2> QED
    BY <1>3, <2>1, <2>2, <2>3 DEF PaidAt
<1>5. ASSUME NEW c \in Charges(s, day)
      PROVE  ChargedAt(s, day, c) <= PaidAt(s, day, p) <=> c <= p.on
  <2> DEFINE f == Event("charge", c, c, 0, 0)
  <2>1. f \in E /\ c \in Int
    BY ChargeFacts DEF Events
  <2>2. Place(E, e) \in Int /\ Place(E, f) \in Int /\ (Before(e, f) <=> Place(E, e) < Place(E, f))
    BY <1>1, <1>2, <2>1, PlaceFacts
  <2>3. Before(e, f) <=> p.on < c
    BY <1>3, <2>1 DEF Before, KindOrder, Event
  <2> QED
    BY <1>3, <2>1, <2>2, <2>3 DEF PaidAt, ChargedAt
<1>6. Installments(day, p.on) = {c \in Charges(s, day) : c <= p.on}
  <2>1. p.on \in RecordedDays(s)
    BY DEF RecordedDays
  <2>2. p.on \in Nat /\ Max(RecordedDays(s)) \in Nat /\ p.on <= Max(RecordedDays(s))
    <3>1. p.on \in Days /\ Max(RecordedDays(s)) \in Days /\ p.on <= Max(RecordedDays(s))
      BY <2>1, RecordedFacts
    <3> QED
      BY <3>1, DaysFinite
  <2>3. p.on \in 0..Max(RecordedDays(s))
    BY <2>2
  <2> QED
    BY <2>3, ChargeFacts
<1> QED
  BY <1>4, <1>5, <1>6 DEF PaidBy, ChargedBy

\* With nothing but the opening stated no reset charges an installment again, and
\* none is dropped.
LEMMA NoStart ==
    ASSUME NEW s, Sound(s), s.resets = {Opening}
    PROVE  /\ FirstTrackingStart(s) = None
           /\ \A o, i : o[i].kind = "reset" /\ o[i].on = Origination => ~Recharges(s, o, i)
<1>1. Statements(s) = {}
  BY DEF Statements, Opening
<1>2. FirstTrackingStart(s) = None /\ RechargeOn(s) = None
  <2>1. FirstTrackingStart(s) = None
    BY <1>1 DEF FirstTrackingStart
  <2> QED
    BY <1>1, <2>1 DEF RechargeOn
<1>3. Origination # None
  BY LoanAssumption
<1> QED
  BY <1>2, <1>3 DEF Recharges

\* With nothing but the opening stated, while the debt stands every installment up
\* to a payment is cleared by it.
LEMMA EscrowExact ==
    ASSUME NEW s, Sound(s), s.planned = {}, s.resets = {Opening}, NEW t, SoundTerms(t),
           NEW q \in s.payments,
           \A p \in PaidBy(s, t.payDay, PaidAt(s, t.payDay, q)) :
             Origination < p.on => Replay(s, t, 0).payment[p.who].split.after > 0,
           Origination < q.on
    PROVE  PaidUpTo(s, t, PaidAt(s, t.payDay, q)) = ChargedUpTo(s, t, PaidAt(s, t.payDay, q))
<1> DEFINE day == t.payDay
           o == Ordered(s, day)
           W == WalkOf(s, t, 0)
           n == Len(o)
           i == PaidAt(s, day, q)
           opened == StatedAt(s, day, Opening)
           walk == Replay(s, t, 0)
           Paid(k) == PaidUpTo(s, t, k)
           Charged(k) == ChargedUpTo(s, t, k)
           Month(c) == MonthlyEscrow(t.versions, Lines, c)
           P == {k \in 0..n : k <= i =>
                   IF k < opened THEN W[k].due.escrow = 0 /\ Paid(k) = 0 /\ Charged(k) = 0
                   ELSE Paid(k) + W[k].due.escrow = Charged(k) \/ W[k].balance <= 0}
<1>0. day \in PaymentDaysInMonth
  BY DEF SoundTerms
<1>1. /\ n \in Nat /\ i \in 1..n /\ opened \in 1..n
      /\ o[i] = Event("payment", q.on, q.on, q.who, q.cash)
      /\ o[opened] = Event("reset", Origination, Origination, 0, Principal)
  BY ReplayRecords DEF Opening
<1>2. \A j, k \in 1..n : Before(o[j], o[k]) <=> j < k
  BY <1>0, OrderFacts
<1>t. Origination \in Int
  BY LoanAssumption
<1>3. ASSUME NEW k \in 1..n, o[k].kind = "charge"
      PROVE  opened < k
  <2>1. o[k] \in EventType /\ o[k] \in ChargeEvents(s, day) /\ Origination < o[k].on
    BY <1>0, <1>3, KindFacts
  <2>2. o[k].at = o[k].on /\ o[k].at \in Int
    BY <1>0, <2>1, EventsByKind DEF EventType
  <2>3. Before(o[opened], o[k])
    BY <1>1, <2>1, <2>2 DEF Before, Event
  <2> QED
    BY <1>1, <1>2, <2>3
<1>4. ASSUME NEW k \in 1..n, o[k].kind = "payment", opened < k
      PROVE  Origination < o[k].on
  <2>1. o[k] \in EventType /\ o[k] \in PaymentEvents(s)
    BY <1>0, <1>4, KindFacts
  <2>2. o[k].at = o[k].on /\ o[k].at \in Int
    BY <1>0, <2>1, EventsByKind DEF EventType
  <2>3. Before(o[opened], o[k])
    BY <1>1, <1>2, <1>4
  <2> QED
    BY <1>1, <1>4, <1>t, <2>2, <2>3 DEF Before, Event, KindOrder
<1>5. ASSUME NEW k \in 1..n, o[k].kind = "reset"
      PROVE  k = opened
  <2>1. o[k] \in ResetEvents(s)
    BY <1>0, <1>5, KindFacts
  <2>2. \E r \in s.resets : o[k].who = r.who
    BY <1>0, <2>1, EventsByKind
  <2>3. o[k].who = 0 /\ o[opened].who = 0 /\ o[opened].kind = "reset"
    BY <1>1, <2>2 DEF Opening, Event
  <2> HIDE DEF opened
  <2> QED
    BY <1>0, <1>1, <1>5, <2>3, WalkedOnce
<1>s. ASSUME NEW m \in 1..n
      PROVE  /\ Paid(m - 1) \in Nat /\ Charged(m - 1) \in Nat
             /\ o[m].kind = "payment" => /\ Paid(m) = Paid(m - 1) + SplitAt(W[m - 1], o[m]).escrow
                                         /\ SplitAt(W[m - 1], o[m]).escrow \in Nat
             /\ o[m].kind # "payment" => Paid(m) = Paid(m - 1)
             /\ o[m].kind = "charge" => /\ Charged(m) = Charged(m - 1) + Month(o[m].on)
                                        /\ Month(o[m].on) \in Nat
             /\ o[m].kind # "charge" => Charged(m) = Charged(m - 1)
  <2> HIDE DEF P, i, opened, walk
  <2> QED
    BY EscrowStep
<1>6. 0 \in P
  <2>1. Paid(0) = 0 /\ Charged(0) = 0
    BY <1>1, EscrowStep
  <2>2. W[0].due.escrow = 0
    BY <1>1, StatesStep DEF WalkOf, StartState, NothingDue, Due
  <2> HIDE DEF Paid, Charged, W, n, opened
  <2> QED
    BY <1>1, <2>1, <2>2
<1>7. ASSUME NEW k \in 0..n, k # n, k \in P
      PROVE  k + 1 \in P
  <2> DEFINE m == k + 1
             e == o[m]
             st == W[k]
             next == W[m]
  <2>s. SUFFICES ASSUME m <= i
                 PROVE  IF m < opened THEN next.due.escrow = 0 /\ Paid(m) = 0 /\ Charged(m) = 0
                        ELSE Paid(m) + next.due.escrow = Charged(m) \/ next.balance <= 0
    <3>1. m \in 0..n
      BY <1>1, <1>7
    <3> HIDE DEF Paid, Charged, W, n, opened, i
    <3> QED
      BY <3>1
  <2>0. m \in 1..n /\ m - 1 = k /\ m \in 0..n /\ k \in Nat /\ k <= i
    BY <1>1, <1>7, <2>s
  <2>1. IF k < opened THEN st.due.escrow = 0 /\ Paid(k) = 0 /\ Charged(k) = 0
        ELSE Paid(k) + st.due.escrow = Charged(k) \/ st.balance <= 0
    <3>1. k <= i
      BY <2>0
    <3> HIDE DEF Paid, Charged, W, n, opened, i
    <3> QED
      BY <1>7, <3>1
  <2>2. /\ Paid(k) \in Nat /\ Charged(k) \in Nat
        /\ e.kind = "payment" => /\ Paid(m) = Paid(k) + SplitAt(st, e).escrow
                                 /\ SplitAt(st, e).escrow \in Nat
        /\ e.kind # "payment" => Paid(m) = Paid(k)
        /\ e.kind = "charge" => Charged(m) = Charged(k) + Month(e.on) /\ Month(e.on) \in Nat
        /\ e.kind # "charge" => Charged(m) = Charged(k)
    <3> HIDE DEF P, Paid, Charged, Month, W, o, i, opened, walk, n
    <3> QED
      BY <1>s, <2>0
  <2>3. e.kind \in {"charge", "payment", "reset"}
    BY <1>0, <2>0, RecordedKinds
  <2>4. st.balance \in Int /\ st.due \in DueType
    BY StatesGood DEF GoodState
  <2>5. st.due.escrow \in Nat /\ st.due.extra \in Nat
    BY <2>4 DEF DueType
  <2>6. CASE e.kind = "charge"
    <3> DEFINE accrued == Accrued(t, Boundary(s), 0, e.on, st.balance)
               kept == Kept(t, FirstTrackingStart(s), st, e)
    <3>1. next.balance = st.balance /\ next.due = Plus(kept, accrued)
      BY <2>0, <2>6, WalkStep
    <3>2. kept = st.due
      BY NoStart DEF Kept
    <3>3. accrued \in DueType /\ (st.balance > 0 => accrued.escrow = Month(e.on))
      <4>1. e.on \in Nat /\ Origination <= e.on
        <5>1. e.on \in Nat /\ Origination < e.on
          BY <1>0, <2>0, <2>6, KindFacts
        <5> QED
          BY <5>1, LoanAssumption
      <4> HIDE DEF e, st
      <4> QED
        BY <2>4, <4>1, AccruedPlain
    <3>4. opened < m
      BY <1>3, <2>0, <2>6
    <3> HIDE DEF accrued, kept
    <3>5. next.due.escrow = st.due.escrow + accrued.escrow
      BY <2>4, <3>1, <3>2, <3>3, PlusFacts
    <3>6. opened \in Int
      BY <1>1
    <3> HIDE DEF Paid, Charged, Month, W, e, st, next, opened, i, o
    <3>7. ~(m < opened) /\ ~(k < opened)
      BY <2>0, <3>4, <3>6
    <3>8. Paid(m) + next.due.escrow = Charged(m) \/ next.balance <= 0
      BY <2>1, <2>2, <2>4, <2>5, <2>6, <3>1, <3>3, <3>5, <3>7
    <3> QED
      BY <3>7, <3>8
  <2>7. CASE e.kind = "payment"
    <3> DEFINE split == SplitAt(st, e)
    <3>1. next.due = NothingDue /\ next.balance = split.after
      BY <2>0, <2>7, WalkStep
    <3>2. next.due.escrow = 0
      BY <3>1 DEF NothingDue, Due
    <3>3. /\ split.escrow <= st.due.escrow /\ split.escrow \in Nat
          /\ st.balance > 0 => split.escrow = st.due.escrow
          /\ st.balance <= 0 => split.after <= 0
          /\ split.after \in Int
      <4>1. e.figure \in Nat
        BY <1>0, <2>0, <2>7, KindFacts
      <4>2. e.figure + st.due.extra \in Int
        BY <2>5, <4>1
      <4> HIDE DEF e, st
      <4> QED
        BY <2>4, <4>2, SplitFacts DEF SplitAt
    <3>p. Paid(m) = Paid(k) + split.escrow
      BY <2>2, <2>7
    <3>4. m # opened /\ opened \in Int
      BY <1>1, <2>7 DEF Event
    <3>5. CASE m < opened
      <4>1. k < opened
        BY <2>0, <3>4, <3>5
      <4> HIDE DEF Paid, Charged, Month, W, e, st, next, opened, i, o, split
      <4>2. split.escrow = 0 /\ Paid(m) = 0 /\ Charged(m) = 0
        BY <2>1, <2>2, <2>5, <2>7, <3>3, <3>p, <4>1
      <4> QED
        BY <3>2, <3>5, <4>2
    <3>6. CASE opened < m
      <4>1. Origination < e.on
        BY <1>4, <2>0, <2>7, <3>6
      <4>2. PICK p \in s.payments : /\ e = Event("payment", p.on, p.on, p.who, p.cash)
                                    /\ PaidAt(s, day, p) = m
        BY <1>0, <2>0, <2>7, OneMore
      <4>3. Origination < p.on /\ p \in PaidBy(s, day, i)
        BY <2>s, <4>1, <4>2 DEF Event, PaidBy
      <4>4. walk.payment[p.who].split = SplitAt(W[PaidAt(s, day, p) - 1], o[PaidAt(s, day, p)])
        BY WalkParts
      <4>5. split.after > 0
        BY <2>0, <4>2, <4>3, <4>4
      <4> HIDE DEF Paid, Charged, Month, W, e, st, next, opened, i, o, split, walk
      <4>6. ~(m < opened) /\ ~(k < opened)
        BY <2>0, <3>4, <3>6
      <4>7. Paid(m) + next.due.escrow = Charged(m)
        BY <2>1, <2>2, <2>4, <2>5, <2>7, <3>2, <3>3, <3>p, <4>5, <4>6
      <4> QED
        BY <4>6, <4>7
    <3> QED
      BY <2>0, <3>4, <3>5, <3>6
  <2>8. CASE e.kind = "reset"
    <3>1. m = opened
      BY <1>5, <2>0, <2>8
    <3>2. next.due = NothingDue
      <4>1. next.due = Owed(s, t, 0, o, m, st)
        BY <2>0, <2>8, WalkStep
      <4>2. e.on = Origination
        BY <1>1, <3>1, EventFields
      <4>3. ~Recharges(s, o, m)
        BY <2>8, <4>2, NoStart
      <4> QED
        BY <4>1, <4>3 DEF Owed
    <3>3. next.due.escrow = 0
      BY <3>2 DEF NothingDue, Due
    <3>4. k < opened
      BY <1>1, <2>0, <3>1
    <3> HIDE DEF Paid, Charged, Month, W, e, st, next, opened, i, o
    <3>5. ~(m < opened)
      BY <2>0, <3>1
    <3> QED
      BY <2>1, <2>2, <2>8, <3>3, <3>4, <3>5
  <2> QED
    BY <2>3, <2>6, <2>7, <2>8
<1>8. i \in P
  <2>1. \A k \in 0..n : k \in P
    <3> HIDE DEF P, n
    <3> QED BY <1>1, <1>6, <1>7, UpTo
  <2>2. i \in 0..n
    BY <1>1
  <2> HIDE DEF P, n, i
  <2> QED BY <2>1, <2>2
<1>9. W[i].balance > 0 /\ W[i].balance \in Int /\ W[i].due.escrow = 0
  <2>1. W[i].balance = SplitAt(W[i - 1], o[i]).after /\ W[i].due = NothingDue
    <3>1. o[i].kind = "payment"
      BY <1>1, EventFields
    <3> QED
      BY <1>1, <3>1, WalkStep
  <2>2. walk.payment[q.who].split = SplitAt(W[i - 1], o[i])
    BY WalkParts
  <2>3. q \in PaidBy(s, day, i)
    BY <1>1 DEF PaidBy
  <2>4. walk.payment[q.who].split.after > 0
    BY <2>3
  <2>5. i \in 0..n
    BY <1>1
  <2>6. W[i].balance \in Int
    BY <2>5, StatesGood DEF GoodState
  <2> HIDE DEF W, o, i, walk
  <2> QED
    BY <2>1, <2>2, <2>4, <2>6 DEF NothingDue, Due
<1>10. ~(i < opened)
  <2>1. o[i].kind = "payment" /\ o[i].on = q.on /\ o[i].at = q.on /\ q.on \in Int
    BY <1>1, SoundTypes DEF Event
  <2>2. Before(o[opened], o[i])
    BY <1>1, <2>1 DEF Before, Event
  <2>3. opened < i
    BY <1>1, <1>2, <2>2
  <2> QED
    BY <1>1, <2>3
<1>11. Paid(i) \in Int
  <2>1. Paid(i - 1) \in Nat /\ Paid(i) = Paid(i - 1) + SplitAt(W[i - 1], o[i]).escrow
        /\ SplitAt(W[i - 1], o[i]).escrow \in Nat
    <3>1. o[i].kind = "payment"
      BY <1>1, EventFields
    <3> QED
      BY <1>1, <3>1, EscrowStep
  <2> HIDE DEF Paid
  <2> QED BY <2>1
<1> HIDE DEF Paid, Charged, W, n, opened, i
<1>12. Paid(i) + W[i].due.escrow = Charged(i)
  BY <1>1, <1>8, <1>9, <1>10
<1>13. Paid(i) = Charged(i)
  BY <1>9, <1>11, <1>12
<1> QED
  BY <1>13 DEF Paid, Charged, i
----------------------------------------------------------------------------
(* The facts of a loan, kept by every door.                                *)

PaymentRow ==
    [status : {"none", "planned", "settled"}, place : {"loan", "deleted", "elsewhere"},
     due : DueDays \cup {0}, cash : Cash \cup {0}, day : Days \cup {None}]

\* A payment records a day exactly when it records money.
MovedOnADay(row) == row.cash = 0 <=> row.day = None

\* What every door keeps of the facts: their types, a day for every payment that
\* moved money, no statement before the origination and, once the loan has its
\* params, a rate in force from the origination on.
FactsInv ==
    /\ FactsTyped
    /\ \A p \in Payments : MovedOnADay(payments[p])
    /\ \A i \in DOMAIN statements : Origination <= statements[i].on
    /\ configured => rates[Origination] # None

\* What the constants and the facts say of days and figures.
LEMMA DaysTyped ==
    /\ None \notin Days /\ Origination \in Days /\ None # Removed
    /\ \A d \in DueDays \cup {0} : d \in Days
    /\ \A d \in PaidDays : d \in Days
    /\ \A d \in StatedDays : d \in Days
    /\ \A d \in EscrowDays : d \in Days
    /\ \A d \in RateDays : d \in Days
    /\ \A p \in Payments : p \in Nat /\ p # 0
    /\ \A c \in Cash \cup {0} : c \in Nat
    /\ \A b \in Balances : b \in Nat
    /\ \A r \in Rates : r \in Nat /\ r # None
    /\ \A a \in Amounts : a \in Nat
    /\ \A d \in PayDays : d \in PaymentDaysInMonth
<1>1. None \notin Days /\ Origination \in Days /\ None # Removed /\ 0 \in Days
  BY LoanAssumption DEF Days
<1>2. \A d \in DueDays \cup {0} : d \in Days
  BY BooksAssumption, <1>1
<1>3. \A r \in Rates : r \in Nat /\ r # None
  BY BooksAssumption, LoanAssumption
<1>4. \A d \in PayDays : d \in PaymentDaysInMonth
  BY BooksAssumption DEF PaymentDaysInMonth
<1> QED
  BY <1>1, <1>2, <1>3, <1>4, BooksAssumption

\* A loan not set up has sound facts.
LEMMA FactsInit == LoanInit => FactsInv
<1> SUFFICES ASSUME LoanInit
             PROVE  FactsInv
  OBVIOUS
<1>1. today \in Days /\ configured \in BOOLEAN /\ acts \in 0..MaxActs /\ ~configured
  <2>1. today \in Days /\ ~configured /\ configured \in BOOLEAN
    BY BooksAssumption DEF LoanInit
  <2>2. acts \in 0..MaxActs
    BY BooksAssumption DEF LoanInit
  <2> QED
    BY <2>1, <2>2
<1>2. payDay \in PayDays
  BY BooksAssumption DEF LoanInit
<1>3. rates \in [Days -> Rates \cup {None}]
  BY DEF LoanInit
<1>4. versions \in [Lines -> [Days -> Amounts \cup {None, Removed}]]
  <2>1. versions \in [Lines -> [Days -> Amounts \cup {None}]]
    BY BooksAssumption DEF LoanInit
  <2> QED
    BY <2>1
<1>5. statements \in Seq([on : StatedDays, balance : Balances, source : {"trueup", "start"}])
      /\ DOMAIN statements = {}
  BY DEF LoanInit
<1>6. payments \in [Payments -> PaymentRow] /\ \A p \in Payments : MovedOnADay(payments[p])
  BY DEF LoanInit, NoPayment, PaymentRow, MovedOnADay
<1> QED
  BY <1>1, <1>2, <1>3, <1>4, <1>5, <1>6 DEF FactsInv, FactsTyped, PaymentRow

\* What a payment door leaves in its row is a row, with a day when it moved money.
LEMMA PaymentDoorRows ==
    ASSUME FactsInv, PaymentDoors
    PROVE  \E p \in Payments, row \in PaymentRow : MovedOnADay(row) /\ OnPayment(p, row)
<1>1. /\ \A p \in Payments : payments[p] \in PaymentRow /\ MovedOnADay(payments[p])
      /\ today \in Days
  BY DEF FactsInv, FactsTyped, PaymentRow
<1>2. \A row \in PaymentRow :
        /\ row = [status |-> row.status, place |-> row.place, due |-> row.due, cash |-> row.cash,
                  day |-> row.day]
        /\ row.status \in {"none", "planned", "settled"}
        /\ row.place \in {"loan", "deleted", "elsewhere"}
        /\ row.due \in DueDays \cup {0} /\ row.cash \in Cash \cup {0} /\ row.day \in Days \cup {None}
  BY DEF PaymentRow
<1>3. ASSUME NEW row \in PaymentRow, NEW cash \in Cash, NEW d \in Days
      PROVE  Recorded(row, cash, d) \in PaymentRow /\ MovedOnADay(Recorded(row, cash, d))
  <2> DEFINE day == IF cash = 0 THEN None ELSE d
             settled == [row EXCEPT !.status = "settled", !.cash = cash, !.day = day]
  <2>1. day \in Days \cup {None} /\ (cash = 0 <=> day = None) /\ cash \in Cash \cup {0}
    BY DaysTyped
  <2> HIDE DEF day
  <2>2. settled \in PaymentRow /\ settled.cash = cash /\ settled.day = day
    BY <2>1 DEF PaymentRow
  <2> HIDE DEF settled
  <2>3. settled \in PaymentRow /\ MovedOnADay(settled)
    BY <2>1, <2>2 DEF MovedOnADay
  <2>4. Recorded(row, cash, d) = settled
    BY DEF Recorded, settled, day
  <2> QED
    BY <2>3, <2>4
<1> DEFINE Blank(due) == [NoPayment EXCEPT !.due = due]
           Fresh(due) == [NoPayment EXCEPT !.status = "planned", !.due = due]
<1>4. \A due \in DueDays \cup {0} :
        Blank(due) \in PaymentRow /\ Fresh(due) \in PaymentRow /\ MovedOnADay(Fresh(due))
  BY DEF NoPayment, PaymentRow, MovedOnADay
<1>5. PICK p \in Payments :
        \/ \E due \in DueDays : Plan(p, due) \/ ReDue(p, due)
        \/ \E cash \in Cash, day \in PaidDays :
             \/ Settle(p, cash, day)
             \/ \E due \in DueDays : Record(p, due, cash, day)
        \/ \E cash \in Cash : ReFigure(p, cash)
        \/ \E day \in PaidDays : ReDay(p, day)
        \/ Revert(p)
        \/ \E place \in {"deleted", "elsewhere"} : Leave(p, place)
        \/ Return(p)
  BY DEF PaymentDoors
<1> DEFINE Fits(row) == row \in PaymentRow /\ MovedOnADay(row) /\ OnPayment(p, row)
<1>6. ASSUME NEW due \in DueDays, Plan(p, due)
      PROVE  \E row : Fits(row)
  <2>0. OnPayment(p, Fresh(due)) /\ due \in DueDays \cup {0}
    BY <1>6 DEF Plan
  <2> HIDE DEF Fresh
  <2>1. Fits(Fresh(due))
    BY <1>4, <2>0
  <2> QED
    BY <2>1
<1>7. ASSUME NEW due \in DueDays, ReDue(p, due)
      PROVE  \E row : Fits(row)
  <2>1. [payments[p] EXCEPT !.due = due] \in PaymentRow
        /\ MovedOnADay([payments[p] EXCEPT !.due = due])
    BY <1>1, <1>2 DEF PaymentRow, MovedOnADay
  <2>2. Fits([payments[p] EXCEPT !.due = due])
    BY <1>7, <2>1 DEF ReDue
  <2> QED
    BY <2>2
<1>8. ASSUME NEW cash \in Cash, NEW day \in PaidDays, Settle(p, cash, day)
      PROVE  \E row : Fits(row)
  <2>1. Fits(Recorded(payments[p], cash, day))
    BY <1>1, <1>3, <1>8, DaysTyped DEF Settle
  <2> QED
    BY <2>1
<1>9. ASSUME NEW cash \in Cash, NEW day \in PaidDays, NEW due \in DueDays, Record(p, due, cash, day)
      PROVE  \E row : Fits(row)
  <2>0. due \in DueDays \cup {0} /\ day \in Days
    BY DaysTyped
  <2>1. OnPayment(p, Recorded(Blank(due), cash, day))
    BY <1>9 DEF Record
  <2> HIDE DEF Blank, Fresh
  <2>2. Fits(Recorded(Blank(due), cash, day))
    BY <1>3, <1>4, <2>0, <2>1
  <2> QED
    BY <2>2
<1>10. ASSUME NEW cash \in Cash, ReFigure(p, cash)
       PROVE  \E row : Fits(row)
  <2> DEFINE d == IF payments[p].day = None THEN today ELSE payments[p].day
  <2>1. d \in Days
    BY <1>1, <1>2
  <2>2. Fits(Recorded(payments[p], cash, d))
    BY <1>1, <1>3, <1>10, <2>1 DEF ReFigure
  <2> QED
    BY <2>2
<1>11. ASSUME NEW day \in PaidDays, ReDay(p, day)
       PROVE  \E row : Fits(row)
  <2>1. payments[p].cash # 0 /\ day \in Days /\ day # None
    BY <1>11, DaysTyped DEF ReDay
  <2>2. [payments[p] EXCEPT !.day = day] \in PaymentRow
        /\ MovedOnADay([payments[p] EXCEPT !.day = day])
    BY <1>1, <1>2, <2>1 DEF PaymentRow, MovedOnADay
  <2>3. Fits([payments[p] EXCEPT !.day = day])
    BY <1>11, <2>2 DEF ReDay
  <2> QED
    BY <2>3
<1>12. ASSUME Revert(p)
       PROVE  \E row : Fits(row)
  <2>1. payments[p].due \in DueDays \cup {0}
    BY <1>1, <1>2
  <2>2. OnPayment(p, Fresh(payments[p].due))
    BY <1>12 DEF Revert
  <2> HIDE DEF Fresh
  <2>3. Fits(Fresh(payments[p].due))
    BY <1>4, <2>1, <2>2
  <2> QED
    BY <2>3
<1>13. ASSUME NEW place \in {"deleted", "elsewhere"}, Leave(p, place)
       PROVE  \E row : Fits(row)
  <2>1. [payments[p] EXCEPT !.place = place] \in PaymentRow
        /\ MovedOnADay([payments[p] EXCEPT !.place = place])
    BY <1>1, <1>2 DEF PaymentRow, MovedOnADay
  <2>2. Fits([payments[p] EXCEPT !.place = place])
    BY <1>13, <2>1 DEF Leave
  <2> QED
    BY <2>2
<1>14. ASSUME Return(p)
       PROVE  \E row : Fits(row)
  <2>1. [payments[p] EXCEPT !.place = "loan"] \in PaymentRow
        /\ MovedOnADay([payments[p] EXCEPT !.place = "loan"])
    BY <1>1, <1>2 DEF PaymentRow, MovedOnADay
  <2>2. Fits([payments[p] EXCEPT !.place = "loan"])
    BY <1>14, <2>1 DEF Return
  <2> QED
    BY <2>2
<1>15. \E row : Fits(row)
  <2> HIDE DEF Fits
  <2> QED
    BY <1>5, <1>6, <1>7, <1>8, <1>9, <1>10, <1>11, <1>12, <1>13, <1>14
<1> QED
  BY <1>15

\* What an escrow door leaves is a history of every line.
LEMMA EscrowDoorVersions ==
    ASSUME FactsInv, EscrowDoors
    PROVE  \E new \in [Lines -> [Days -> Amounts \cup {None, Removed}]] : OnEscrow(new)
<1> DEFINE Entries == Amounts \cup {None, Removed}
           Histories == [Lines -> [Days -> Entries]]
<1>1. versions \in Histories /\ today \in Days
  BY DEF FactsInv, FactsTyped
<1>2. \A l \in Lines, on \in Days, entry \in Entries : With(l, on, entry) \in Histories
  BY <1>1 DEF With
<1>3. PICK l \in Lines :
        \/ \E on \in EscrowDays, amount \in Amounts :
             \/ AddLine(l, on, amount) \/ AddVersion(l, on, amount)
             \/ \E from \in EscrowDays : EditVersion(l, from, on, amount)
        \/ \E on \in EscrowDays : DeleteVersion(l, on)
        \/ RemoveLine(l)
        \/ \E target \in Lines : MergeLines(l, target)
  BY DEF EscrowDoors
<1> DEFINE Fits(new) == new \in Histories /\ OnEscrow(new)
<1>4. ASSUME NEW on \in EscrowDays, NEW amount \in Amounts,
             AddLine(l, on, amount) \/ AddVersion(l, on, amount)
      PROVE  \E new : Fits(new)
  <2>1. Fits(With(l, on, amount))
    BY <1>2, <1>4, DaysTyped DEF AddLine, AddVersion
  <2> QED
    BY <2>1
<1>5. ASSUME NEW on \in EscrowDays, NEW from \in EscrowDays, NEW amount \in Amounts,
             EditVersion(l, from, on, amount)
      PROVE  \E new : Fits(new)
  <2> DEFINE new == [versions EXCEPT ![l] = [@ EXCEPT ![from] = None, ![on] = amount]]
  <2>1. new \in Histories
    BY <1>1, DaysTyped
  <2>2. Fits(new)
    BY <1>5, <2>1 DEF EditVersion
  <2> QED
    BY <2>2
<1>6. ASSUME NEW on \in EscrowDays, DeleteVersion(l, on)
      PROVE  \E new : Fits(new)
  <2>1. Fits(With(l, on, None))
    BY <1>2, <1>6, DaysTyped DEF DeleteVersion
  <2> QED
    BY <2>1
<1>7. ASSUME RemoveLine(l)
      PROVE  \E new : Fits(new)
  <2> DEFINE new == IF l \in ActiveLines(versions, {l}, today) THEN With(l, today, Removed)
                    ELSE versions
  <2>1. new \in Histories
    <3>1. With(l, today, Removed) \in Histories
      BY <1>1, <1>2
    <3> QED
      BY <1>1, <3>1
  <2>2. OnEscrow(new)
    BY <1>7 DEF RemoveLine
  <2> QED
    BY <2>1, <2>2
<1>8. ASSUME NEW target \in Lines, MergeLines(l, target)
      PROVE  \E new : Fits(new)
  <2> DEFINE new == [versions EXCEPT ![target] = MergedVersions(l, target),
                                     ![l] = [d \in Days |-> None]]
  <2>1. MergedVersions(l, target) \in [Days -> Entries] /\ [d \in Days |-> None] \in [Days -> Entries]
    BY <1>1 DEF MergedVersions
  <2>2. new \in Histories
    BY <1>1, <2>1
  <2>3. OnEscrow(new)
    BY <1>8 DEF MergeLines
  <2> QED
    BY <2>2, <2>3
<1>9. \E new : Fits(new)
  <2> HIDE DEF Fits
  <2> QED
    BY <1>3, <1>4, <1>5, <1>6, <1>7, <1>8
<1> QED
  BY <1>9

\* Every door keeps the facts as they must be.
LEMMA FactsStep == FactsInv /\ [LoanNext]_loanVars => FactsInv'
<1> SUFFICES ASSUME FactsInv, [LoanNext]_loanVars
             PROVE  FactsInv'
  OBVIOUS
<1> DEFINE Line == [on : StatedDays, balance : Balances, source : {"trueup", "start"}]
<1>a. ASSUME Door
      PROVE  acts' \in 0..MaxActs
  BY <1>a, BooksAssumption DEF Door, FactsInv, FactsTyped
<1>t. statements \in Seq(Line)
  BY DEF FactsInv, FactsTyped
<1>1. ASSUME NEW on \in StatedDays, NEW balance \in Balances, NEW source \in {"trueup", "start"},
             Origination <= on
      PROVE  /\ Append(statements, Statement(on, balance, source)) \in Seq(Line)
             /\ \A i \in DOMAIN Append(statements, Statement(on, balance, source)) :
                  Origination <= Append(statements, Statement(on, balance, source))[i].on
  <2>1. Statement(on, balance, source) \in Line
    BY DEF Statement
  <2>2. \A i \in DOMAIN statements : Origination <= statements[i].on
    BY DEF FactsInv
  <2>3. Statement(on, balance, source).on = on
    BY DEF Statement
  <2> HIDE DEF Line
  <2> QED
    BY <1>t, <1>1, <2>1, <2>2, <2>3
<1>2. ASSUME NEW day \in PayDays, NEW rate \in Rates, NEW on \in StatedDays, NEW balance \in Balances,
             Configure(day, rate, balance, on)
      PROVE  FactsInv'
  <2>1. statements' \in Seq(Line) /\ \A i \in DOMAIN statements' : Origination <= statements'[i].on
    BY <1>1, <1>2, <1>t DEF Configure, FactsInv
  <2>2. rates' \in [Days -> Rates \cup {None}] /\ rates'[Origination] # None
    BY <1>2, DaysTyped DEF Configure, FactsInv, FactsTyped
  <2>3. acts' \in 0..MaxActs
    BY <1>a, <1>2 DEF Configure
  <2>4. /\ today' = today /\ versions' = versions /\ payments' = payments /\ configured'
        /\ payDay' = day /\ configured' \in BOOLEAN
    BY <1>2 DEF Configure
  <2> QED
    BY <2>1, <2>2, <2>3, <2>4 DEF FactsInv, FactsTyped
<1>3. ASSUME NEW on \in StatedDays, NEW balance \in Balances, NEW source \in {"trueup", "start"},
             State(on, balance, source)
      PROVE  FactsInv'
  <2>1. statements' \in Seq(Line) /\ \A i \in DOMAIN statements' : Origination <= statements'[i].on
    BY <1>1, <1>3 DEF State
  <2>2. acts' \in 0..MaxActs
    BY <1>a, <1>3 DEF State
  <2>3. /\ today' = today /\ versions' = versions /\ payments' = payments /\ configured' = configured
        /\ payDay' = payDay /\ rates' = rates
    BY <1>3 DEF State
  <2> QED
    BY <2>1, <2>2, <2>3 DEF FactsInv, FactsTyped
<1>4. ASSUME NEW on \in RateDays, NEW rate \in Rates, AddRate(on, rate)
      PROVE  FactsInv'
  <2>1. rates' \in [Days -> Rates \cup {None}] /\ rates'[Origination] # None
    BY <1>4, DaysTyped DEF AddRate, FactsInv, FactsTyped
  <2>2. acts' \in 0..MaxActs
    BY <1>a, <1>4 DEF AddRate
  <2>3. /\ today' = today /\ versions' = versions /\ payments' = payments /\ configured' = configured
        /\ payDay' = payDay /\ statements' = statements
    BY <1>4 DEF AddRate
  <2> QED
    BY <2>1, <2>2, <2>3 DEF FactsInv, FactsTyped
<1>5. ASSUME NEW day \in PayDays, NEW rate \in Rates, UpdateTerms(day, rate)
      PROVE  FactsInv'
  <2>1. rates' \in [Days -> Rates \cup {None}] /\ rates'[Origination] # None
    BY <1>5, DaysTyped DEF UpdateTerms, FactsInv, FactsTyped
  <2>2. acts' \in 0..MaxActs
    BY <1>a, <1>5 DEF UpdateTerms
  <2>3. /\ today' = today /\ versions' = versions /\ payments' = payments /\ configured' = configured
        /\ payDay' = day /\ statements' = statements
    BY <1>5 DEF UpdateTerms
  <2> QED
    BY <2>1, <2>2, <2>3 DEF FactsInv, FactsTyped
<1>6. ASSUME NEW p \in Payments, NEW row \in PaymentRow, MovedOnADay(row), OnPayment(p, row)
      PROVE  FactsInv'
  <2>1. payments' \in [Payments -> PaymentRow] /\ \A q \in Payments : MovedOnADay(payments'[q])
    <3>1. payments \in [Payments -> PaymentRow] /\ \A q \in Payments : MovedOnADay(payments[q])
      BY DEF FactsInv, FactsTyped, PaymentRow
    <3>2. payments' = [payments EXCEPT ![p] = row]
      BY <1>6 DEF OnPayment
    <3> QED
      BY <1>6, <3>1, <3>2
  <2>2. acts' \in 0..MaxActs
    BY <1>a, <1>6 DEF OnPayment
  <2>3. /\ today' = today /\ versions' = versions /\ configured' = configured
        /\ payDay' = payDay /\ rates' = rates /\ statements' = statements
    BY <1>6 DEF OnPayment
  <2> QED
    BY <2>1, <2>2, <2>3 DEF FactsInv, FactsTyped, PaymentRow, MovedOnADay
<1>7. ASSUME NEW new \in [Lines -> [Days -> Amounts \cup {None, Removed}]], OnEscrow(new)
      PROVE  FactsInv'
  <2>1. acts' \in 0..MaxActs
    BY <1>a, <1>7 DEF OnEscrow
  <2>2. /\ today' = today /\ versions' = new /\ configured' = configured /\ payments' = payments
        /\ payDay' = payDay /\ rates' = rates /\ statements' = statements
    BY <1>7 DEF OnEscrow
  <2> QED
    BY <2>1, <2>2 DEF FactsInv, FactsTyped
<1>8. CASE NextDay
  <2>1. today' \in Days
    BY <1>8, LoanAssumption DEF NextDay, FactsInv, FactsTyped, Days
  <2> QED
    BY <1>8, <2>1 DEF NextDay, loanFacts, FactsInv, FactsTyped
<1>9. CASE UNCHANGED loanVars
  BY <1>9 DEF loanVars, loanFacts, FactsInv, FactsTyped
<1>10. CASE StatementDoors
  BY <1>2, <1>3, <1>10 DEF StatementDoors, RecordBalance, TrackFrom
<1>11. CASE TermDoors
  BY <1>4, <1>5, <1>11 DEF TermDoors
<1>12. CASE PaymentDoors
  BY <1>6, <1>12, PaymentDoorRows
<1>13. CASE EscrowDoors
  BY <1>7, <1>13, EscrowDoorVersions
<1> QED
  BY <1>8, <1>9, <1>10, <1>11, <1>12, <1>13 DEF LoanNext

\* FactsInv: the loan's facts stay typed and sound through every door and day, a
\* transfer's record having a day exactly when it moved money and a loan that is set
\* up (create_params) its origination's rate.
THEOREM FactsAlwaysSound == LoanSpec => []FactsInv
  BY FactsInit, FactsStep, PTL DEF LoanSpec
----------------------------------------------------------------------------
(* The posted ledger and the replay of the facts.                          *)

\* A settled payment as the replay reads it.
RecordOf(p) ==
    [who |-> p, on |-> payments[p].due, cash |-> payments[p].cash, seen |-> SeenOn(p)]

\* What a settled payment records.
LEMMA SettledFacts ==
    ASSUME FactsInv, NEW p \in Settled
    PROVE  /\ p \in Payments /\ p \in Nat /\ payments[p].due \in Days /\ payments[p].cash \in Nat
           /\ payments[p].due \in Nat
           /\ SeenOn(p) \in Days
           /\ payments[p].cash # 0 => SeenOn(p) = payments[p].day
<1>1. p \in Payments /\ payments[p] \in PaymentRow /\ MovedOnADay(payments[p])
  BY DEF FactsInv, FactsTyped, PaymentRow, Settled
<1>2. /\ payments[p].due \in DueDays \cup {0} /\ payments[p].cash \in Cash \cup {0}
      /\ payments[p].day \in Days \cup {None}
  BY <1>1 DEF PaymentRow
<1>3. payments[p].due \in Days /\ payments[p].cash \in Nat /\ p \in Nat
  BY <1>1, <1>2, DaysTyped
<1>4. payDay \in PaymentDaysInMonth
  BY DaysTyped DEF FactsInv, FactsTyped
<1>5. \A d \in Days : d \in Nat /\ 0..d \in SUBSET Days
  BY LoanAssumption DEF Days
<1>6. ASSUME NEW due \in Days
      PROVE  InstallmentPaidBy(payDay, due) \in Days
  <2> DEFINE upTo == Installments(payDay, due)
  <2>1. IsFiniteSet(upTo) /\ \A c \in upTo : c \in Nat /\ c <= due
    BY <1>4, <1>5, InstallmentFacts DEF PaymentDaysInMonth
  <2>2. upTo \in SUBSET Int /\ upTo \in SUBSET Days
    BY <1>5, <2>1
  <2>3. upTo # {} => Max(upTo) \in Days
    BY <2>1, <2>2, MaxFacts
  <2> QED
    BY <2>3 DEF InstallmentPaidBy
<1>7. payments[p].cash # 0 => payments[p].day \in Days
  BY <1>1, <1>2 DEF MovedOnADay
<1> QED
  BY <1>1, <1>3, <1>5, <1>6, <1>7 DEF SeenOn

\* The facts make a stream the replay can walk.
LEMMA StreamSound ==
    ASSUME FactsInv
    PROVE  /\ Sound(Stream) /\ Stream.planned = {} /\ Stream.resets = Resets
           /\ Stream.payments = {RecordOf(p) : p \in Settled}
           /\ IsFiniteSet(Settled) /\ IsFiniteSet(Resets)
<1>1. /\ Stream.planned = {} /\ Stream.resets = Resets
      /\ Stream.payments = {RecordOf(p) : p \in Settled}
  BY DEF Stream, RecordOf
<1>2. IsFiniteSet(Settled)
  BY BooksAssumption, FS_Subset DEF Settled
<1>3. IsFiniteSet({RecordOf(p) : p \in Settled})
  <2> DEFINE f == [p \in Settled |-> RecordOf(p)]
  <2>1. {RecordOf(p) : p \in Settled} = {f[p] : p \in Settled}
    OBVIOUS
  <2> HIDE DEF f
  <2> QED
    BY <1>2, <2>1, ImageFinite
<1> DEFINE Stated(i) == [who |-> i, on |-> statements[i].on, balance |-> statements[i].balance,
                         source |-> statements[i].source]
           Numbers == DOMAIN statements
<1>4. /\ Numbers = 1..Len(statements) /\ Len(statements) \in Nat
      /\ \A i \in Numbers : /\ i \in Nat /\ i # 0 /\ statements[i].on \in Days
                            /\ statements[i].balance \in Nat
                            /\ statements[i].source \in {"trueup", "start"}
                            /\ Origination <= statements[i].on
  <2> DEFINE Line == [on : StatedDays, balance : Balances, source : {"trueup", "start"}]
  <2>1. statements \in Seq(Line)
    BY DEF FactsInv, FactsTyped
  <2>2. Numbers = 1..Len(statements) /\ Len(statements) \in Nat
    <3> HIDE DEF Line
    <3> QED
      BY <2>1
  <2>3. \A i \in Numbers : statements[i] \in Line
    <3> HIDE DEF Line
    <3> QED
      BY <2>1
  <2>4. \A i \in Numbers : Origination <= statements[i].on
    BY DEF FactsInv
  <2> QED
    BY <2>2, <2>3, <2>4, DaysTyped
<1>5. Resets = {Opening} \cup {Stated(i) : i \in Numbers}
  BY DEF Resets, Opening
<1>6. IsFiniteSet(Resets)
  <2> DEFINE f == [i \in Numbers |-> Stated(i)]
  <2>1. {Stated(i) : i \in Numbers} = {f[i] : i \in Numbers}
    OBVIOUS
  <2>2. IsFiniteSet(Numbers)
    BY <1>4, FS_Interval
  <2> HIDE DEF f, Numbers
  <2>3. IsFiniteSet({f[i] : i \in Numbers})
    BY <2>2, ImageFinite
  <2>4. IsFiniteSet({Opening})
    BY FS_Singleton
  <2>5. IsFiniteSet({Opening} \cup {f[i] : i \in Numbers})
    BY <2>3, <2>4, FS_Union
  <2> QED
    BY <1>5, <2>1, <2>5
<1>7. \A p \in Settled : RecordOf(p) \in [who : Nat, on : Days, cash : Nat, seen : Days]
  BY SettledFacts DEF RecordOf
<1>8. \A p, q \in Settled : RecordOf(p).who = RecordOf(q).who => RecordOf(p) = RecordOf(q)
  BY DEF RecordOf
<1>9. Opening \in [who : Nat, on : Days, balance : Nat, source : {"opening", "trueup", "start"}]
      /\ Opening.who = 0 /\ Opening.on = Origination
  BY LoanAssumption DEF Opening, Days
<1>10. \A i \in Numbers : Stated(i) \in [who : Nat, on : Days, balance : Nat,
                                         source : {"opening", "trueup", "start"}]
  BY <1>4
<1>11. \A i \in Numbers : /\ Stated(i).who = i /\ Stated(i).who # 0 /\ Stated(i).source # "opening"
                          /\ Origination <= Stated(i).on
  BY <1>4
<1> HIDE DEF Stated, Numbers
<1>12. Resets \in SUBSET [who : Nat, on : Days, balance : Nat, source : {"opening", "trueup", "start"}]
  BY <1>5, <1>9, <1>10
<1>13. \A r, q \in Resets : r.who = q.who => r = q
  BY <1>5, <1>9, <1>11
<1>14. \A r \in Resets : Origination <= r.on /\ (r.source = "opening" => r = Opening)
  BY <1>5, <1>9, <1>11, LoanAssumption
<1>15. Sound(Stream)
  <2>1. IsFiniteSet({})
    BY FS_EmptySet
  <2>2. Opening \in Resets
    BY <1>5
  <2>3. \A p, q \in Stream.payments : p.who = q.who => p = q
    BY <1>1, <1>8
  <2>4. Stream.payments \subseteq [who : Nat, on : Days, cash : Nat, seen : Days]
    BY <1>1, <1>7
  <2>5. /\ IsFiniteSet(Stream.payments) /\ IsFiniteSet(Stream.resets) /\ IsFiniteSet(Stream.planned)
    BY <1>1, <1>3, <1>6, <2>1
  <2> HIDE DEF Opening
  <2> QED
    BY <1>1, <1>12, <1>13, <1>14, <2>2, <2>3, <2>4, <2>5 DEF Sound
<1> QED
  BY <1>1, <1>2, <1>6, <1>15

\* The terms of a loan that is set up can be replayed.
LEMMA TermsSound ==
    ASSUME FactsInv, configured
    PROVE  SoundTerms(Terms) /\ Terms.payDay = payDay /\ Terms.versions = versions
<1>1. Terms.payDay = payDay /\ Terms.rates = rates /\ Terms.versions = versions
  BY DEF Terms
<1>2. payDay \in PaymentDaysInMonth
  BY DaysTyped DEF FactsInv, FactsTyped
<1>3. /\ DOMAIN rates = Days /\ \A d \in Days : rates[d] \in Nat \cup {None}
      /\ rates[Origination] \in Nat
  BY DaysTyped DEF FactsInv, FactsTyped
<1>4. ASSUME NEW l \in Lines
      PROVE  DOMAIN versions[l] = Days /\ \A d \in Days : versions[l][d] \in Nat \cup {None, Removed}
  BY DaysTyped DEF FactsInv, FactsTyped
<1> QED
  BY <1>1, <1>2, <1>3, <1>4 DEF SoundTerms

\* The ledger's two halves are at their targets; before the loan has its params the
\* loan's own half is empty of everything but cents.
Posted ==
    /\ cashLegs = CashTarget
    /\ configured => corrections = CorrectionTarget(Walk)
    /\ ~configured => corrections \in [Days -> Int]

\* Nothing is posted before there is anything to post.
LEMMA PostedInit == LoanInit => Posted
<1> SUFFICES ASSUME LoanInit
             PROVE  Posted
  OBVIOUS
<1>1. Settled = {}
  BY DEF LoanInit, Settled, NoPayment
<1>2. ASSUME NEW d \in Days
      PROVE  CashTarget[d] = 0
  <2> DEFINE paid == {p \in Settled : payments[p].cash # 0 /\ payments[p].day = d}
             f == [p \in paid |-> payments[p].cash]
  <2>1. CashTarget[d] = SumFunctionOnSet(f, paid)
    BY DEF CashTarget, SumFunction
  <2>2. paid = {}
    BY <1>1
  <2> HIDE DEF f, paid
  <2> QED
    BY <2>1, <2>2, SumEmpty
<1>3. cashLegs = CashTarget
  <2>1. cashLegs = [d \in Days |-> 0]
    BY DEF LoanInit
  <2>2. DOMAIN CashTarget = Days /\ CashTarget = [d \in DOMAIN CashTarget |-> CashTarget[d]]
    BY DEF CashTarget
  <2> QED
    BY <1>2, <2>1, <2>2, Zenon
<1>4. corrections \in [Days -> Int] /\ ~configured
  BY DEF LoanInit
<1> QED
  BY <1>3, <1>4 DEF Posted

\* Every door brings the halves it moves back to their targets.
LEMMA PostedStep == FactsInv /\ Posted /\ [LoanNext]_loanVars => Posted'
<1> SUFFICES ASSUME FactsInv, Posted, [LoanNext]_loanVars
             PROVE  Posted'
  OBVIOUS
<1>1. ASSUME UNCHANGED <<payments, cashLegs>>
      PROVE  (cashLegs = CashTarget)'
  BY <1>1 DEF Posted, CashTarget, Settled
<1>2. ASSUME SyncLoan, configured => configured'
      PROVE  /\ configured' => (corrections = CorrectionTarget(Walk))'
             /\ ~configured' => (corrections \in [Days -> Int])'
  <2>1. CASE configured'
    <3>1. corrections' = CorrectionTarget(Walk)'
      BY <1>2, <2>1 DEF SyncLoan
    <3> QED
      BY <2>1, <3>1
  <2>2. CASE ~configured'
    BY <1>2, <2>2 DEF SyncLoan, Posted
  <2> QED
    BY <2>1, <2>2
<1>3. ASSUME NEW day \in PayDays, NEW rate \in Rates, NEW on \in StatedDays, NEW balance \in Balances,
             Configure(day, rate, balance, on)
      PROVE  Posted'
  BY <1>1, <1>2, <1>3 DEF Configure, Posted
<1>4. ASSUME NEW on \in StatedDays, NEW balance \in Balances, NEW source \in {"trueup", "start"},
             State(on, balance, source)
      PROVE  Posted'
  BY <1>1, <1>2, <1>4 DEF State, Posted
<1>5. ASSUME NEW on \in RateDays, NEW rate \in Rates, AddRate(on, rate)
      PROVE  Posted'
  BY <1>1, <1>2, <1>5 DEF AddRate, Posted
<1>6. ASSUME NEW day \in PayDays, NEW rate \in Rates, UpdateTerms(day, rate)
      PROVE  Posted'
  BY <1>1, <1>2, <1>6 DEF UpdateTerms, Posted
<1>7. ASSUME NEW p, NEW row, OnPayment(p, row)
      PROVE  Posted'
  BY <1>2, <1>7 DEF OnPayment, SyncTransfer, Posted
<1>8. ASSUME NEW new, OnEscrow(new)
      PROVE  Posted'
  BY <1>1, <1>2, <1>8 DEF OnEscrow, Posted
<1>9. ASSUME UNCHANGED <<loanFacts, cashLegs, corrections>>
      PROVE  Posted'
  <2>1. /\ payments' = payments /\ cashLegs' = cashLegs /\ configured' = configured
        /\ corrections' = corrections /\ payDay' = payDay /\ rates' = rates
        /\ versions' = versions /\ statements' = statements
    BY <1>9 DEF loanFacts
  <2>2. (cashLegs = CashTarget)'
    BY <1>1, <2>1
  <2>3. Settled' = Settled /\ Resets' = Resets
    BY <2>1 DEF Settled, Resets
  <2>4. \A p : SeenOn(p)' = SeenOn(p)
    BY <2>1 DEF SeenOn
  <2>5. Walk' = Walk
    BY <2>1, <2>3, <2>4 DEF Walk, Stream, Terms
  <2>6. CorrectionTarget(Walk)' = CorrectionTarget(Walk)
    BY <2>3, <2>4, <2>5 DEF CorrectionTarget
  <2> QED
    BY <2>1, <2>2, <2>6 DEF Posted
<1>10. CASE StatementDoors
  BY <1>3, <1>4, <1>10 DEF StatementDoors, RecordBalance, TrackFrom
<1>11. CASE TermDoors
  BY <1>5, <1>6, <1>11 DEF TermDoors
<1>12. CASE PaymentDoors
  BY <1>7, <1>12, PaymentDoorRows
<1>13. CASE EscrowDoors
  BY <1>8, <1>13
  DEF EscrowDoors, AddLine, AddVersion, EditVersion, DeleteVersion, RemoveLine, MergeLines
<1>14. CASE NextDay
  BY <1>9, <1>14 DEF NextDay
<1>15. CASE UNCHANGED loanVars
  BY <1>9, <1>15 DEF loanVars
<1> QED
  BY <1>10, <1>11, <1>12, <1>13, <1>14, <1>15 DEF LoanNext

\* Posted: after every request of a loan that is set up, the linked ledger holds what
\* its syncs last aimed at, and still does when the day turns.
THEOREM LedgerAlwaysPosted == LoanSpec => []Posted
  BY PostedInit, PostedStep, FactsAlwaysSound, PTL DEF LoanSpec

\* A sum over settled payments is the sum over their records.
LEMMA SumOfRecords ==
    ASSUME FactsInv, NEW f, NEW g, NEW S \in SUBSET Settled,
           \A p \in S : g[RecordOf(p)] \in Int /\ f[p] = g[RecordOf(p)]
    PROVE  SumFunctionOnSet(f, S) = SumFunctionOnSet(g, {RecordOf(p) : p \in S})
<1> DEFINE m == [p \in S |-> RecordOf(p)]
<1>1. IsFiniteSet(S)
  BY StreamSound, FS_Subset
<1>2. \A p \in S : m[p] = RecordOf(p)
  OBVIOUS
<1>3. \A p, q \in S : m[p] = m[q] => p = q
  <2>1. \A p \in S : m[p].who = p
    BY <1>2 DEF RecordOf
  <2> HIDE DEF m
  <2> QED
    BY <2>1
<1>4. {RecordOf(p) : p \in S} = {m[p] : p \in S}
  OBVIOUS
<1>5. \A p \in S : g[m[p]] \in Int /\ f[p] = g[m[p]]
  <2> HIDE DEF m
  <2> QED
    BY <1>2
<1> HIDE DEF m
<1>6. SumFunctionOnSet(f, S) = SumFunctionOnSet(g, {m[p] : p \in S})
  BY <1>1, <1>3, <1>5, SumRenamed
<1> QED
  BY <1>4, <1>6

\* Every settled payment's split adds up to its cash.
LEMMA SplitOfSettled ==
    ASSUME FactsInv, configured
    PROVE  /\ Walk = Replay(Stream, Terms, 0)
           /\ \A p \in Settled :
                LET split == Walk.payment[p].split
                IN  /\ RecordOf(p) \in Stream.payments
                    /\ split.escrow \in Nat /\ split.principal \in Int
                    /\ Booked(split) \in Int
                    /\ payments[p].cash = Booked(split) + split.principal
                    /\ Lowered(Stream, Walk)[RecordOf(p)] = split.principal
                    /\ EscrowOf(Stream, Walk)[RecordOf(p)] = split.escrow
           /\ \A r \in Resets : /\ Walk.reset[r.who] \in Int /\ r.balance \in Int
                                /\ Raised(Stream, Walk)[r] = r.balance - Walk.reset[r.who]
<1>1. Walk = Replay(Stream, Terms, 0)
  BY DEF Walk
<1>2. Sound(Stream) /\ SoundTerms(Terms)
  BY StreamSound, TermsSound
<1>3. /\ \A x \in Stream.payments :
           LET split == Walk.payment[x.who].split
           IN  /\ split.interest \in Int /\ split.escrow \in Nat
               /\ split.principal \in Int /\ split.excess \in Int
               /\ split.interest + split.escrow + split.principal + split.excess = x.cash
      /\ \A r \in Stream.resets : Walk.reset[r.who] \in Int
  BY <1>1, <1>2, CashIsSplit
<1>4. ASSUME NEW p \in Settled
      PROVE  LET split == Walk.payment[p].split
             IN  /\ RecordOf(p) \in Stream.payments
                 /\ split.escrow \in Nat /\ split.principal \in Int
                 /\ Booked(split) \in Int
                 /\ payments[p].cash = Booked(split) + split.principal
                 /\ Lowered(Stream, Walk)[RecordOf(p)] = split.principal
                 /\ EscrowOf(Stream, Walk)[RecordOf(p)] = split.escrow
  <2> DEFINE split == Walk.payment[p].split
             x == RecordOf(p)
  <2>1. x \in Stream.payments /\ x.who = p /\ x.cash = payments[p].cash
    BY StreamSound DEF RecordOf
  <2> HIDE DEF x
  <2>2. /\ split.interest \in Int /\ split.escrow \in Nat
        /\ split.principal \in Int /\ split.excess \in Int
        /\ split.interest + split.escrow + split.principal + split.excess = payments[p].cash
    BY <1>3, <2>1
  <2>3. Lowered(Stream, Walk)[x] = split.principal /\ EscrowOf(Stream, Walk)[x] = split.escrow
    BY <2>1 DEF Lowered, EscrowOf
  <2> HIDE DEF split
  <2>4. Booked(split) \in Int /\ payments[p].cash = Booked(split) + split.principal
    BY <2>2 DEF Booked
  <2> QED
    BY <2>1, <2>2, <2>3, <2>4 DEF split, x
<1>5. ASSUME NEW r \in Resets
      PROVE  /\ Walk.reset[r.who] \in Int /\ r.balance \in Int
             /\ Raised(Stream, Walk)[r] = r.balance - Walk.reset[r.who]
  <2>1. r \in Stream.resets /\ r.balance \in Int
    BY <1>2, StreamSound, SoundTypes
  <2> QED
    BY <1>3, <2>1 DEF Raised
<1> QED
  BY <1>1, <1>4, <1>5

\* A day's cash and corrections are the payments and statements of the day.
LEMMA LedgerOnADay ==
    ASSUME FactsInv, Posted, configured, NEW d \in Days
    PROVE  /\ cashLegs[d] \in Int /\ corrections[d] \in Int
           /\ cashLegs[d] + corrections[d] = -DeltaOn(Stream, Walk, d)
<1> DEFINE P == {p \in Settled : SeenOn(p) = d}
           M == {p \in Settled : payments[p].cash # 0 /\ payments[p].day = d}
           R == {r \in Resets : r.on = d}
           paid == [p \in M |-> payments[p].cash]
           all == [p \in P |-> payments[p].cash]
           booked == [p \in P |-> Booked(Walk.payment[p].split)]
           lowered == [p \in P |-> Walk.payment[p].split.principal]
           back == [r \in R |-> Walk.reset[r.who] - r.balance]
           raised == Raised(Stream, Walk)
           zero == [r \in R |-> 0]
<1>1. /\ cashLegs[d] = SumFunctionOnSet(paid, M)
      /\ corrections[d] = SumFunctionOnSet(back, R) - SumFunctionOnSet(booked, P)
  BY DEF Posted, CashTarget, CorrectionTarget, SumFunction
<1>2. IsFiniteSet(P) /\ IsFiniteSet(M) /\ IsFiniteSet(R)
  <2>1. IsFiniteSet(Settled) /\ IsFiniteSet(Resets) /\ P \in SUBSET Settled /\ M \in SUBSET Settled
        /\ R \in SUBSET Resets
    BY StreamSound
  <2> HIDE DEF P, M, R
  <2> QED
    BY <2>1, FS_Subset
<1>3. SumFunctionOnSet(paid, M) = SumFunctionOnSet(all, P)
  <2>1. M \in SUBSET P
    BY SettledFacts
  <2>2. \A p \in M : paid[p] \in Int
    BY SettledFacts
  <2>3. \A p \in P : all[p] = IF p \in M THEN paid[p] ELSE 0
    <3>1. \A p \in P : p \in M \/ payments[p].cash = 0
      BY SettledFacts
    <3> QED
      BY <2>1, <3>1
  <2> HIDE DEF P, M, paid, all
  <2> QED
    BY <1>2, <2>1, <2>2, <2>3, SumFilter
<1>4. \A p \in P : booked[p] \in Int /\ lowered[p] \in Int /\ all[p] = booked[p] + lowered[p]
  BY SplitOfSettled
<1>5. SumFunctionOnSet(all, P) = SumFunctionOnSet(booked, P) + SumFunctionOnSet(lowered, P)
  <2> HIDE DEF P, all, booked, lowered
  <2> QED
    BY <1>2, <1>4, SumPlus
<1>6. SumFunctionOnSet(lowered, P)
        = SumFunctionOnSet(Lowered(Stream, Walk), {x \in Stream.payments : x.seen = d})
  <2>1. {RecordOf(p) : p \in P} = {x \in Stream.payments : x.seen = d}
    <3>1. Stream.payments = {RecordOf(p) : p \in Settled}
      BY StreamSound
    <3>2. \A p : RecordOf(p).seen = SeenOn(p)
      BY DEF RecordOf
    <3> QED
      BY <3>1, <3>2
  <2>2. \A p \in P : /\ Lowered(Stream, Walk)[RecordOf(p)] \in Int
                     /\ lowered[p] = Lowered(Stream, Walk)[RecordOf(p)]
    BY SplitOfSettled
  <2>3. P \in SUBSET Settled
    OBVIOUS
  <2> HIDE DEF P, lowered
  <2>4. SumFunctionOnSet(lowered, P) = SumFunctionOnSet(Lowered(Stream, Walk), {RecordOf(p) : p \in P})
    BY <2>2, <2>3, SumOfRecords
  <2> QED
    BY <2>1, <2>4
<1>7. \A r \in R : raised[r] \in Int /\ back[r] \in Int /\ zero[r] = raised[r] + back[r] /\ zero[r] = 0
  <2>1. \A r \in R : r \in Resets
    OBVIOUS
  <2>2. \A r \in R : zero[r] = 0 /\ back[r] = Walk.reset[r.who] - r.balance
    OBVIOUS
  <2> HIDE DEF raised, back, zero, R
  <2> QED
    BY <2>1, <2>2, SplitOfSettled DEF raised
<1>8. SumFunctionOnSet(zero, R) = SumFunctionOnSet(raised, R) + SumFunctionOnSet(back, R)
      /\ SumFunctionOnSet(zero, R) = 0
  <2> HIDE DEF R, zero, raised, back
  <2> QED
    BY <1>2, <1>7, SumPlus, SumZeros
<1>9. /\ SumFunctionOnSet(raised, R) \in Int /\ SumFunctionOnSet(back, R) \in Int
      /\ SumFunctionOnSet(booked, P) \in Int /\ SumFunctionOnSet(lowered, P) \in Int
  <2> HIDE DEF R, P, zero, raised, back, booked, lowered
  <2> QED
    BY <1>2, <1>4, <1>7, SumInt
<1>10. DeltaOn(Stream, Walk, d) = SumFunctionOnSet(raised, R) - SumFunctionOnSet(lowered, P)
  <2>1. Sound(Stream) /\ SoundTerms(Terms) /\ Stream.resets = Resets
    BY StreamSound, TermsSound
  <2>2. DeltaOn(Stream, Walk, d)
          = SumFunctionOnSet(Raised(Stream, Walk), {r \in Stream.resets : r.on = d})
            - SumFunctionOnSet(Lowered(Stream, Walk), {x \in Stream.payments : x.seen = d})
    BY <2>1, DeltaIs DEF Walk
  <2> HIDE DEF lowered
  <2> QED
    BY <1>6, <2>1, <2>2
<1> HIDE DEF R, P, M, zero, raised, back, booked, lowered, all, paid
<1> QED
  BY <1>1, <1>3, <1>5, <1>8, <1>9, <1>10

\* The posted ledger is typed.
LEMMA LedgerTypes ==
    ASSUME FactsInv, Posted
    PROVE  LoanTypeOK
<1>1. cashLegs \in [Days -> Int]
  <2>1. ASSUME NEW d \in Days
        PROVE  CashTarget[d] \in Int
    <3> DEFINE M == {p \in Settled : payments[p].cash # 0 /\ payments[p].day = d}
               paid == [p \in M |-> payments[p].cash]
    <3>1. CashTarget[d] = SumFunctionOnSet(paid, M)
      BY DEF CashTarget, SumFunction
    <3>2. IsFiniteSet(M)
      <4>1. M \in SUBSET Settled /\ IsFiniteSet(Settled)
        BY StreamSound
      <4> QED
        BY <4>1, FS_Subset
    <3>3. \A p \in M : paid[p] \in Int
      BY SettledFacts
    <3> HIDE DEF M, paid
    <3> QED
      BY <3>1, <3>2, <3>3, SumInt
  <2>2. DOMAIN CashTarget = Days /\ CashTarget = [d \in Days |-> CashTarget[d]]
    BY DEF CashTarget
  <2> QED
    BY <2>1, <2>2 DEF Posted
<1>2. corrections \in [Days -> Int]
  <2>1. CASE configured
    <3>1. \A d \in Days : corrections[d] \in Int
      BY <2>1, LedgerOnADay
    <3>2. DOMAIN corrections = Days /\ corrections = [d \in Days |-> corrections[d]]
      BY <2>1 DEF Posted, CorrectionTarget
    <3> QED
      BY <3>1, <3>2
  <2> QED
    BY <2>1 DEF Posted
<1> QED
  BY <1>1, <1>2 DEF LoanTypeOK, FactsInv

\* What is posted is the walk.
LEMMA LedgerHolds == FactsInv /\ Posted => LedgerIsTheWalk
  BY LedgerOnADay DEF LedgerIsTheWalk

\* What is stated reads back.
LEMMA StatementsHold == FactsInv => StatementsReadBack
<1> SUFFICES ASSUME FactsInv, configured, NEW r \in Resets,
                    \A p \in Settled : payments[p].due <= r.on <=> SeenOn(p) <= r.on,
                    \A other \in Resets : other.on = r.on => other.who <= r.who
             PROVE  SumFunction([d \in 0..r.on |-> DeltaOn(Stream, Walk, d)]) = r.balance
  BY DEF StatementsReadBack
<1>1. /\ Sound(Stream) /\ Stream.planned = {} /\ Stream.resets = Resets
      /\ Stream.payments = {RecordOf(p) : p \in Settled}
  BY StreamSound
<1>2. SoundTerms(Terms)
  BY TermsSound
<1>3. \A p \in Stream.payments : p.on <= r.on <=> p.seen <= r.on
  <2>1. \A p \in Settled : RecordOf(p).on = payments[p].due /\ RecordOf(p).seen = SeenOn(p)
    BY DEF RecordOf
  <2> QED
    BY <1>1, <2>1
<1> QED
  BY <1>1, <1>2, <1>3, StatedReadsBack DEF Walk

\* LedgerReadsTheFacts: the linked ledger nets to what the facts replay to on every
\* day, and every stated balance reads back on its own day (loan_posting_service's
\* sync after each door).
THEOREM LedgerAlwaysReadsTheFacts == LoanSpec => []LedgerReadsTheFacts
<1>1. FactsInv /\ Posted => LedgerReadsTheFacts
  BY LedgerTypes, LedgerHolds, StatementsHold DEF LedgerReadsTheFacts
<1> QED
  BY <1>1, FactsAlwaysSound, LedgerAlwaysPosted, PTL

\* The last record of the payments due on a day: all of the day's stand before it.
LEMMA LastOfTheDay ==
    ASSUME FactsInv, NEW p \in Settled
    PROVE  \E x \in Stream.payments :
             x.on = payments[p].due /\ \A y \in Stream.payments : y.on = x.on => y.who <= x.who
<1> DEFINE D == payments[p].due
           S == {q \in Settled : payments[q].due = D}
<1>1. S \in SUBSET Int /\ IsFiniteSet(S) /\ S # {}
  <2>1. S \in SUBSET Settled /\ IsFiniteSet(Settled) /\ p \in S
    BY StreamSound
  <2>2. \A q \in S : q \in Int
    BY SettledFacts
  <2> HIDE DEF S
  <2> QED
    BY <2>1, <2>2, FS_Subset
<1>2. PICK q \in S : \A y \in S : q >= y
  <2> HIDE DEF S
  <2> QED
    BY <1>1, Greatest
<1>3. Stream.payments = {RecordOf(y) : y \in Settled}
  BY StreamSound
<1>4. \A y \in Settled : RecordOf(y).on = payments[y].due /\ RecordOf(y).who = y /\ y \in Int
  BY SettledFacts DEF RecordOf
<1>5. RecordOf(q) \in Stream.payments /\ RecordOf(q).on = D
  BY <1>2, <1>3, <1>4
<1>6. ASSUME NEW y \in Stream.payments, y.on = D
      PROVE  y.who <= RecordOf(q).who
  <2>1. PICK z \in Settled : y = RecordOf(z)
    BY <1>3
  <2>2. z \in S /\ y.who = z
    BY <1>4, <1>6, <2>1
  <2>3. q >= z /\ q \in Int /\ z \in Int /\ RecordOf(q).who = q
    BY <1>1, <1>2, <1>4, <2>2
  <2> QED
    BY <2>2, <2>3
<1> QED
  BY <1>5, <1>6

\* Up to each settled payment no month of escrow is cleared twice.
LEMMA EscrowOnceADay ==
    ASSUME FactsInv, configured, NEW p \in Settled
    PROVE  /\ EscrowPaid(Walk, payments[p].due) <= EscrowCharged(payments[p].due)
           /\ (statements = <<>> /\ Origination < payments[p].due
                /\ \A q \in Settled : payments[q].due <= payments[p].due /\ Origination < payments[q].due
                                        => Walk.payment[q].split.after > 0)
              => EscrowPaid(Walk, payments[p].due) = EscrowCharged(payments[p].due)
<1> DEFINE D == payments[p].due
           s == Stream
           t == Terms
<1>1. /\ Sound(s) /\ SoundTerms(t) /\ s.planned = {} /\ s.resets = Resets
      /\ s.payments = {RecordOf(y) : y \in Settled}
      /\ t.payDay = payDay /\ t.versions = versions /\ Walk = Replay(s, t, 0)
  BY StreamSound, TermsSound DEF Walk
<1>2. PICK x \in s.payments : x.on = D /\ \A y \in s.payments : y.on = x.on => y.who <= x.who
  BY LastOfTheDay
<1> DEFINE i == PaidAt(s, payDay, x)
<1>3. /\ PaidBy(s, payDay, i) = {y \in s.payments : y.on <= D}
      /\ ChargedBy(s, payDay, i) = Installments(payDay, D)
  <2>1. payDay \in PaymentDaysInMonth
    BY <1>1 DEF SoundTerms
  <2> HIDE DEF s
  <2> QED
    BY <1>1, <1>2, <2>1, UpToPayment
<1>4. Len(Ordered(s, payDay)) \in Nat /\ i \in 1..Len(Ordered(s, payDay))
  <2> HIDE DEF s, t
  <2> QED
    BY <1>1, ReplayRecords
<1> DEFINE Q == {q \in Settled : payments[q].due <= D}
           escrow == [q \in Q |-> Walk.payment[q].split.escrow]
           month == [c \in Installments(payDay, D) |-> MonthlyEscrow(versions, Lines, c)]
<1>5. EscrowPaid(Walk, D) = PaidUpTo(s, t, i)
  <2>1. {RecordOf(q) : q \in Q} = {y \in s.payments : y.on <= D}
    <3>1. \A q : RecordOf(q).on = payments[q].due
      BY DEF RecordOf
    <3> QED
      BY <1>1, <3>1
  <2>2. EscrowPaid(Walk, D) = SumFunctionOnSet(escrow, Q)
    BY DEF EscrowPaid, SumFunction
  <2>3. \A q \in Q : /\ EscrowOf(s, Walk)[RecordOf(q)] \in Int
                     /\ escrow[q] = EscrowOf(s, Walk)[RecordOf(q)]
    BY SplitOfSettled
  <2>4. Q \in SUBSET Settled
    OBVIOUS
  <2> HIDE DEF Q, escrow, s, t, D
  <2>5. SumFunctionOnSet(escrow, Q) = SumFunctionOnSet(EscrowOf(s, Walk), {RecordOf(q) : q \in Q})
    BY <2>3, <2>4, SumOfRecords
  <2> QED
    BY <1>1, <1>3, <2>1, <2>2, <2>5 DEF PaidUpTo
<1>6. EscrowCharged(D) = ChargedUpTo(s, t, i)
  <2>1. EscrowCharged(D) = SumFunctionOnSet(month, Installments(payDay, D))
    BY DEF EscrowCharged, SumFunction
  <2>2. IsFiniteSet(Installments(payDay, D))
        /\ \A c \in Installments(payDay, D) : c \in Charges(s, payDay)
    <3>1. payDay \in PaymentDaysInMonth
      BY <1>1 DEF SoundTerms
    <3>2. \A c \in Installments(payDay, D) : c \in Charges(s, payDay)
      BY <1>3 DEF ChargedBy
    <3>3. D \in Nat
      BY SettledFacts
    <3> QED
      BY <3>1, <3>2, <3>3, InstallmentFacts DEF PaymentDaysInMonth
  <2>3. \A c \in Installments(payDay, D) : month[c] = MonthOfLines(s, t)[c]
    BY <1>1, <2>2 DEF MonthOfLines
  <2> HIDE DEF month, s, t
  <2>4. SumFunctionOnSet(month, Installments(payDay, D))
          = SumFunctionOnSet(MonthOfLines(s, t), Installments(payDay, D))
    BY <2>2, <2>3, SumSame
  <2> QED
    BY <1>1, <1>3, <2>1, <2>4 DEF ChargedUpTo
<1>7. PaidUpTo(s, t, i) <= ChargedUpTo(s, t, i)
  <2> HIDE DEF s, t
  <2>1. i \in 0..Len(Ordered(s, payDay))
    BY <1>4
  <2> HIDE DEF i
  <2>2. PaidUpTo(s, t, i) + WalkOf(s, t, 0)[i].due.escrow <= ChargedUpTo(s, t, i)
    BY <1>1, <2>1, EscrowBound
  <2>3. WalkOf(s, t, 0)[i].due.escrow \in Nat
    BY <1>1, <2>1, StatesGood DEF GoodState, DueType
  <2>4. PaidUpTo(s, t, i) \in Nat /\ ChargedUpTo(s, t, i) \in Nat
    <3>1. /\ \A y \in s.payments : EscrowOf(s, Replay(s, t, 0))[y] \in Nat
          /\ \A c \in Charges(s, t.payDay) : MonthOfLines(s, t)[c] \in Nat
          /\ IsFiniteSet(PaidBy(s, t.payDay, i)) /\ IsFiniteSet(ChargedBy(s, t.payDay, i))
      BY <1>1, <2>1, WalkParts
    <3>2. /\ \A y \in PaidBy(s, t.payDay, i) : EscrowOf(s, Replay(s, t, 0))[y] \in Nat
          /\ \A c \in ChargedBy(s, t.payDay, i) : MonthOfLines(s, t)[c] \in Nat
      BY <3>1 DEF PaidBy, ChargedBy
    <3> QED
      BY <3>1, <3>2, SumNat DEF PaidUpTo, ChargedUpTo
  <2> QED
    BY <2>2, <2>3, <2>4
<1>8. ASSUME statements = <<>>, Origination < D,
             \A q \in Settled : payments[q].due <= D /\ Origination < payments[q].due
                                  => Walk.payment[q].split.after > 0
      PROVE  PaidUpTo(s, t, i) = ChargedUpTo(s, t, i)
  <2>1. s.resets = {Opening}
    <3>1. DOMAIN statements = {}
      BY <1>8
    <3>2. Resets = {Opening}
      BY <3>1 DEF Resets, Opening
    <3> QED
      BY <1>1, <3>2
  <2>2. ASSUME NEW y \in PaidBy(s, payDay, i), Origination < y.on
        PROVE  Walk.payment[y.who].split.after > 0
    <3>1. y \in s.payments /\ y.on <= D
      BY <1>3
    <3>2. PICK q \in Settled : y = RecordOf(q)
      BY <1>1, <3>1
    <3>3. y.on = payments[q].due /\ y.who = q
      BY <3>2 DEF RecordOf
    <3> HIDE DEF D
    <3> QED
      BY <1>8, <2>2, <3>1, <3>3
  <2> HIDE DEF s, t, D
  <2>3. \A y \in PaidBy(s, t.payDay, PaidAt(s, t.payDay, x)) :
          Origination < y.on => Replay(s, t, 0).payment[y.who].split.after > 0
    BY <1>1, <2>2
  <2>4. Origination < x.on
    BY <1>2, <1>8
  <2>5. PaidUpTo(s, t, PaidAt(s, t.payDay, x)) = ChargedUpTo(s, t, PaidAt(s, t.payDay, x))
    <3> HIDE DEF i
    <3> QED
      BY <1>1, <2>1, <2>3, <2>4, EscrowExact
  <2> QED
    BY <1>1, <2>5
<1> HIDE DEF i, s, t
<1> QED
  BY <1>5, <1>6, <1>7, <1>8 DEF D

\* NoMonthClearedTwice: no month's escrow is paid twice and, with nothing stated and
\* the debt standing, none is missed (_replay.py).
THEOREM NoMonthEverClearedTwice == LoanSpec => []NoMonthClearedTwice
<1>1. FactsInv => NoMonthClearedTwice
  BY EscrowOnceADay DEF NoMonthClearedTwice
<1> QED
  BY <1>1, FactsAlwaysSound, PTL
----------------------------------------------------------------------------
(* Two walks that begin alike.                                             *)

\* Orders that hold the same events before one they share are alike up to it.
LEMMA SamePlaces ==
    ASSUME NEW E, Orderly(E), NEW F, Orderly(F), NEW e \in E, e \in F, Below(E, e) = Below(F, e)
    PROVE  /\ Place(E, e) = Place(F, e)
           /\ Place(E, e) \in 1..Len(InPlace(E)) /\ Place(E, e) \in 1..Len(InPlace(F))
           /\ Len(InPlace(E)) \in Nat /\ Len(InPlace(F)) \in Nat
           /\ \A i \in 1..Place(E, e) : InPlace(E)[i] = InPlace(F)[i]
<1> DEFINE n == Place(E, e)
<1>1. /\ n = Place(F, e) /\ n \in 1..Len(InPlace(E)) /\ n \in 1..Len(InPlace(F))
      /\ Len(InPlace(E)) \in Nat /\ Len(InPlace(F)) \in Nat
      /\ Len(InPlace(E)) = Cardinality(E) /\ Len(InPlace(F)) = Cardinality(F)
      /\ InPlace(E)[n] = e /\ InPlace(F)[n] = e
  <2>1. Place(E, e) = Place(F, e)
    BY DEF Place
  <2>2. /\ Place(E, e) \in 1..Cardinality(E) /\ InPlace(E)[Place(E, e)] = e
        /\ Len(InPlace(E)) = Cardinality(E) /\ Len(InPlace(E)) \in Nat
    BY InPlaceFacts
  <2>3. /\ Place(F, e) \in 1..Cardinality(F) /\ InPlace(F)[Place(F, e)] = e
        /\ Len(InPlace(F)) = Cardinality(F) /\ Len(InPlace(F)) \in Nat
    BY InPlaceFacts
  <2> QED
    BY <2>1, <2>2, <2>3
<1>2. ASSUME NEW i \in 1..n, i # n
      PROVE  InPlace(E)[i] = InPlace(F)[i]
  <2> DEFINE f == InPlace(E)[i]
  <2>1. i \in 1..Cardinality(E) /\ i < n
    BY <1>1, <1>2
  <2>2. f \in E /\ Place(E, f) = i
    BY <2>1, InPlaceFacts
  <2> HIDE DEF f
  <2>3. Before(f, e)
    BY <2>1, <2>2, PlaceFacts
  <2>4. f \in Below(E, e) /\ f \in F
    BY <2>2, <2>3 DEF Below
  <2>5. Below(E, f) = Below(F, f)
    <3>1. \A g \in E \cup F : g \in EventType
      BY DEF Orderly
    <3>2. \A g \in E \cup F : Before(g, f) => Before(g, e)
      BY <2>2, <2>3, <3>1, BeforeStrict
    <3>3. \A g : g \in E /\ Before(g, e) <=> g \in F /\ Before(g, e)
      BY DEF Below
    <3> QED
      BY <3>2, <3>3 DEF Below
  <2>6. Place(F, f) = i
    BY <2>2, <2>5 DEF Place
  <2>7. InPlace(F)[Place(F, f)] = f
    BY <2>4, InPlaceFacts
  <2> QED
    BY <2>6, <2>7 DEF f
<1> QED
  BY <1>1, <1>2

\* A part that holds everything before what it holds is the beginning of the order.
LEMMA InitialPart ==
    ASSUME NEW F, Orderly(F), NEW E \in SUBSET F, \A e \in E : \A f \in F : Before(f, e) => f \in E
    PROVE  /\ Len(InPlace(E)) \in Nat /\ Len(InPlace(F)) \in Nat
           /\ Len(InPlace(E)) <= Len(InPlace(F))
           /\ \A i \in 1..Len(InPlace(E)) : InPlace(E)[i] = InPlace(F)[i]
           /\ \A i \in 1..Len(InPlace(F)) : i > Len(InPlace(E)) => InPlace(F)[i] \in F \ E
<1>1. Orderly(E)
  BY PartOrderly
<1>2. ASSUME NEW e \in E
      PROVE  Place(E, e) = Place(F, e)
  BY DEF Place, Below
<1>3. /\ Len(InPlace(E)) = Cardinality(E) /\ Len(InPlace(E)) \in Nat
      /\ Len(InPlace(F)) = Cardinality(F) /\ Len(InPlace(F)) \in Nat
      /\ \A i \in 1..Cardinality(E) : InPlace(E)[i] \in E /\ Place(E, InPlace(E)[i]) = i
      /\ \A i \in 1..Cardinality(F) : InPlace(F)[i] \in F /\ Place(F, InPlace(F)[i]) = i
      /\ \A e \in E : Place(E, e) \in 1..Cardinality(E)
      /\ \A e \in F : InPlace(F)[Place(F, e)] = e
  BY <1>1, InPlaceFacts
<1>4. Cardinality(E) <= Cardinality(F)
  BY FS_Subset DEF Orderly
<1>5. ASSUME NEW i \in 1..Len(InPlace(E))
      PROVE  InPlace(E)[i] = InPlace(F)[i]
  BY <1>2, <1>3
<1>6. ASSUME NEW i \in 1..Len(InPlace(F)), i > Len(InPlace(E))
      PROVE  InPlace(F)[i] \in F \ E
  <2>1. InPlace(F)[i] \in F /\ Place(F, InPlace(F)[i]) = i
    BY <1>3
  <2>2. InPlace(F)[i] \in E => i \in 1..Cardinality(E)
    BY <1>2, <1>3, <2>1
  <2> QED
    BY <1>3, <1>6, <2>1, <2>2
<1> QED
  BY <1>3, <1>4, <1>5, <1>6

SameOrder(o, w, n) == \A i \in 1..n : o[i] = w[i]
SameRecharges(s, o, r, w, n) == \A i \in 1..n : Recharges(s, o, i) <=> Recharges(r, w, i)

\* Whether a start charges its installment again is decided before the next payment.
LEMMA RechargesDecided ==
    ASSUME NEW s, NEW r, s.resets = r.resets, NEW o, NEW w, NEW n \in Nat,
           Len(o) \in Nat, Len(w) \in Nat, n <= Len(o), n <= Len(w), SameOrder(o, w, n),
           n = 0 \/ Pays(o[n])
    PROVE  SameRecharges(s, o, r, w, n)
<1>1. RechargeOn(s) = RechargeOn(r)
  BY DEF RechargeOn, FirstTrackingStart, Statements
<1>2. ASSUME NEW a, NEW b, SameOrder(a, b, n), n = 0 \/ Pays(a[n]), Len(a) \in Nat, Len(b) \in Nat,
             n <= Len(a), n <= Len(b), NEW i \in 1..n, i # n, CashBeforeNextCharge(a, i)
      PROVE  CashBeforeNextCharge(b, i)
  <2>1. PICK p \in (i + 1)..Len(a) : /\ Pays(a[p])
                                     /\ \A j \in (i + 1)..(p - 1) : a[j].kind = "reset"
    BY <1>2 DEF CashBeforeNextCharge
  <2>2. CASE p <= n
    <3>1. p \in (i + 1)..Len(b) /\ \A j \in (i + 1)..p : a[j] = b[j]
      BY <1>2, <2>1, <2>2 DEF SameOrder
    <3>2. Pays(b[p])
      <4>1. a[p] = b[p]
        BY <3>1
      <4> QED
        BY <2>1, <4>1
    <3>3. \A j \in (i + 1)..(p - 1) : b[j].kind = "reset"
      BY <2>1, <3>1
    <3> QED
      BY <3>1, <3>2, <3>3 DEF CashBeforeNextCharge
  <2>3. CASE n < p /\ i # n
    <3>1. n \in (i + 1)..(p - 1)
      BY <2>3
    <3>2. a[n].kind = "reset"
      BY <2>1, <3>1
    <3> QED
      BY <1>2, <3>2 DEF Pays
  <2> QED
    BY <1>2, <2>1, <2>2, <2>3
<1>3. ASSUME NEW a, NEW b, SameOrder(a, b, n), NEW i \in 1..n, UnpaidChargeBefore(a, i)
      PROVE  UnpaidChargeBefore(b, i)
  <2>1. PICK c \in 1..(i - 1) : /\ a[c].kind = "charge"
                                /\ \A j \in (c + 1)..(i - 1) : ~Pays(a[j])
    BY <1>3 DEF UnpaidChargeBefore
  <2>2. a[c] = b[c] /\ \A j \in (c + 1)..(i - 1) : a[j] = b[j]
    BY <1>3 DEF SameOrder
  <2>3. b[c].kind = "charge"
    BY <2>1, <2>2
  <2>4. \A j \in (c + 1)..(i - 1) : ~Pays(b[j])
    BY <2>1, <2>2
  <2> QED
    BY <2>3, <2>4 DEF UnpaidChargeBefore
<1>4. SameOrder(w, o, n) /\ (n = 0 \/ Pays(w[n]))
  BY DEF SameOrder
<1>5. ASSUME NEW i \in 1..n
      PROVE  Recharges(s, o, i) <=> Recharges(r, w, i)
  <2>1. o[i] = w[i]
    BY DEF SameOrder
  <2>2. CASE o[i].kind = "reset"
    <3>1. i # n
      BY <2>2 DEF Pays
    <3>2. CashBeforeNextCharge(o, i) <=> CashBeforeNextCharge(w, i)
      BY <1>2, <1>4, <3>1
    <3>3. UnpaidChargeBefore(o, i) <=> UnpaidChargeBefore(w, i)
      BY <1>3, <1>4
    <3> QED
      BY <1>1, <2>1, <3>2, <3>3 DEF Recharges
  <2> QED
    BY <2>1, <2>2 DEF Recharges
<1> QED
  BY <1>5 DEF SameRecharges

\* What the charges up to n cost on any balance.
SameCharges(s, t, x, r, u, y, o, n) ==
    \A i \in 1..n : o[i].kind = "charge" =>
      \A balance \in Int : Accrued(t, Boundary(s), x, o[i].on, balance)
                             = Accrued(u, Boundary(r), y, o[i].on, balance)

\* What WalkStep says of one step.
Stepped(s, t, x, o, W, i) ==
    LET e == o[i]
        st == W[i - 1]
        next == W[i]
    IN  /\ e.kind = "charge" =>
             /\ next.balance = st.balance /\ next.standing = e.on
             /\ next.payment = st.payment /\ next.reset = st.reset
             /\ next.due = Plus(Kept(t, FirstTrackingStart(s), st, e),
                                Accrued(t, Boundary(s), x, e.on, st.balance))
        /\ e.kind \in {"payment", "planned"} =>
             /\ next.balance = SplitAt(st, e).after /\ next.due = NothingDue
             /\ next.standing = st.standing /\ next.reset = st.reset
        /\ e.kind = "payment" => next.payment = Noted(st.payment, e.who, EntryAt(st, e))
        /\ e.kind = "planned" => next.payment = st.payment
        /\ e.kind = "reset" =>
             /\ next.balance = e.figure /\ next.due = Owed(s, t, x, o, i, st)
             /\ next.standing = st.standing /\ next.payment = st.payment
             /\ next.reset = Noted(st.reset, e.who, st.balance)

\* Every step of a walk is what its event makes of it.
LEMMA WalkSteps ==
    ASSUME NEW s, Sound(s), NEW t, SoundTerms(t), NEW x \in Nat
    PROVE  \A i \in 1..Len(Ordered(s, t.payDay)) :
             Stepped(s, t, x, Ordered(s, t.payDay), WalkOf(s, t, x), i)
<1> SUFFICES ASSUME NEW i \in 1..Len(Ordered(s, t.payDay))
             PROVE  Stepped(s, t, x, Ordered(s, t.payDay), WalkOf(s, t, x), i)
  OBVIOUS
<1> USE DEF Stepped
<1> QED
  BY WalkStep

\* Two walks over the same events, statements and charges are alike.
LEMMA WalksAgree ==
    ASSUME NEW s, Sound(s), NEW t, SoundTerms(t), NEW x \in Nat,
           NEW r, Sound(r), NEW u, SoundTerms(u), NEW y \in Nat, s.resets = r.resets,
           NEW n \in Nat, n <= Len(Ordered(s, t.payDay)), n <= Len(Ordered(r, u.payDay)),
           SameOrder(Ordered(s, t.payDay), Ordered(r, u.payDay), n),
           SameRecharges(s, Ordered(s, t.payDay), r, Ordered(r, u.payDay), n),
           SameCharges(s, t, x, r, u, y, Ordered(s, t.payDay), n)
    PROVE  \A k \in 0..n : WalkOf(s, t, x)[k] = WalkOf(r, u, y)[k]
<1> DEFINE o == Ordered(s, t.payDay)
           w == Ordered(r, u.payDay)
           V == WalkOf(s, t, x)
           W == WalkOf(r, u, y)
           P == {k \in 0..n : V[k] = W[k]}
<1>1. Len(o) \in Nat /\ Len(w) \in Nat
  BY ReplayRecords
<1>2. 0 \in P
  BY <1>1, StatesStep DEF WalkOf
<1>3. FirstTrackingStart(s) = FirstTrackingStart(r)
  BY DEF FirstTrackingStart, Statements
<1>4. ASSUME NEW k \in 0..n, V[k] = W[k], NEW m \in 1..n, m = k + 1
      PROVE  V[m] = W[m]
  <2> DEFINE e == o[m]
             st == V[k]
  <2>1. /\ m \in 1..Len(o) /\ m \in 1..Len(w) /\ m - 1 = k /\ k \in 0..Len(o) /\ k \in 0..Len(w)
        /\ m \in 0..Len(o) /\ m \in 0..Len(w)
    BY <1>1, <1>4
  <2>2. w[m] = e
    BY DEF SameOrder
  <2>3. e.kind \in {"charge", "payment", "planned", "reset"}
    BY <2>1, KindFacts DEF SoundTerms
  <2>4. IsState(V[m]) /\ IsState(W[m]) /\ st.balance \in Int
    <3>1. GoodState(V[m], x) /\ GoodState(V[k], x)
      BY <2>1, StatesGood
    <3>2. GoodState(W[m], y)
      BY <2>1, StatesGood
    <3> QED
      BY <3>1, <3>2 DEF GoodState
  <2>a. /\ Stepped(s, t, x, o, V, m)
        /\ Stepped(r, u, y, w, W, m)
    BY <2>1, WalkSteps
  <2>c. e.kind = "reset" => e.figure \in Int
    <3>1. e.kind = "reset" => e.figure \in Nat
      BY <2>1, KindFacts DEF SoundTerms
    <3> QED
      BY <3>1
  <2>s. \A c \in 1..k : o[c].kind = "charge" =>
          \E l \in c..k : o[l].kind = "charge" /\ st.standing = o[l].on
    BY <2>1, StandingCharge
  <2>h. /\ SameOrder(o, w, n) /\ SameRecharges(s, o, r, w, n)
        /\ SameCharges(s, t, x, r, u, y, o, n)
    OBVIOUS
  <2> HIDE DEF o, w, V, W
  <2>5. ASSUME e.kind = "charge"
        PROVE  /\ V[m].balance = W[m].balance /\ V[m].due = W[m].due
               /\ V[m].standing = W[m].standing /\ V[m].payment = W[m].payment
               /\ V[m].reset = W[m].reset
    <3>1. /\ V[m].balance = st.balance /\ V[m].standing = e.on
          /\ V[m].payment = st.payment /\ V[m].reset = st.reset
          /\ V[m].due = Plus(Kept(t, FirstTrackingStart(s), st, e),
                             Accrued(t, Boundary(s), x, e.on, st.balance))
      BY <2>1, <2>5, <2>a DEF Stepped
    <3>2. /\ W[m].balance = W[k].balance /\ W[m].standing = e.on
          /\ W[m].payment = W[k].payment /\ W[m].reset = W[k].reset
          /\ W[m].due = Plus(Kept(u, FirstTrackingStart(r), W[k], e),
                             Accrued(u, Boundary(r), y, e.on, W[k].balance))
      BY <2>1, <2>2, <2>5, <2>a DEF Stepped
    <3>3. Accrued(t, Boundary(s), x, e.on, st.balance) = Accrued(u, Boundary(r), y, e.on, st.balance)
      BY <2>4, <2>5, <2>h DEF SameCharges
    <3>4. Kept(t, FirstTrackingStart(s), st, e) = Kept(u, FirstTrackingStart(r), W[k], e)
      BY <1>3, <1>4 DEF Kept
    <3> QED
      BY <1>4, <3>1, <3>2, <3>3, <3>4
  <2>6. ASSUME e.kind \in {"payment", "planned"}
        PROVE  /\ V[m].balance = W[m].balance /\ V[m].due = W[m].due
               /\ V[m].standing = W[m].standing /\ V[m].payment = W[m].payment
               /\ V[m].reset = W[m].reset
    <3>1. /\ V[m].balance = SplitAt(st, e).after /\ V[m].due = NothingDue
          /\ V[m].standing = st.standing /\ V[m].reset = st.reset
          /\ e.kind = "payment" => V[m].payment = Noted(st.payment, e.who, EntryAt(st, e))
          /\ e.kind = "planned" => V[m].payment = st.payment
      BY <2>1, <2>6, <2>a DEF Stepped
    <3>2. /\ W[m].balance = SplitAt(W[k], e).after /\ W[m].due = NothingDue
          /\ W[m].standing = W[k].standing /\ W[m].reset = W[k].reset
          /\ e.kind = "payment" => W[m].payment = Noted(W[k].payment, e.who, EntryAt(W[k], e))
          /\ e.kind = "planned" => W[m].payment = W[k].payment
      BY <2>1, <2>2, <2>6, <2>a DEF Stepped
    <3> QED
      BY <1>4, <2>6, <3>1, <3>2
  <2>7. ASSUME e.kind = "reset"
        PROVE  /\ V[m].balance = W[m].balance /\ V[m].due = W[m].due
               /\ V[m].standing = W[m].standing /\ V[m].payment = W[m].payment
               /\ V[m].reset = W[m].reset
    <3>1. /\ V[m].balance = e.figure /\ V[m].due = Owed(s, t, x, o, m, st)
          /\ V[m].standing = st.standing /\ V[m].payment = st.payment
          /\ V[m].reset = Noted(st.reset, e.who, st.balance)
      BY <2>1, <2>7, <2>a DEF Stepped
    <3>2. /\ W[m].balance = e.figure /\ W[m].due = Owed(r, u, y, w, m, W[k])
          /\ W[m].standing = W[k].standing /\ W[m].payment = W[k].payment
          /\ W[m].reset = Noted(W[k].reset, e.who, W[k].balance)
      BY <2>1, <2>2, <2>7, <2>a DEF Stepped
    <3>3. Recharges(s, o, m) <=> Recharges(r, w, m)
      BY <2>h DEF SameRecharges
    <3>4. ASSUME Recharges(s, o, m)
          PROVE  Accrued(t, Boundary(s), x, st.standing, e.figure)
                   = Accrued(u, Boundary(r), y, st.standing, e.figure)
      <4>1. PICK c \in 1..k : o[c].kind = "charge"
        BY <2>1, <3>4 DEF Recharges, UnpaidChargeBefore
      <4>2. PICK l \in c..k : o[l].kind = "charge" /\ st.standing = o[l].on
        BY <2>s, <4>1
      <4>3. l \in 1..n
        BY <4>1, <4>2
      <4> QED
        BY <2>7, <2>c, <2>h, <4>2, <4>3 DEF SameCharges
    <3>5. Owed(s, t, x, o, m, st) = Owed(r, u, y, w, m, W[k])
      BY <1>4, <2>2, <3>3, <3>4 DEF Owed
    <3> QED
      BY <1>4, <3>1, <3>2, <3>5
  <2>8. /\ V[m].balance = W[m].balance /\ V[m].due = W[m].due
        /\ V[m].standing = W[m].standing /\ V[m].payment = W[m].payment
        /\ V[m].reset = W[m].reset
    <3> HIDE DEF e
    <3> QED
      BY <2>3, <2>5, <2>6, <2>7
  <2> QED
    BY <2>4, <2>8 DEF IsState
<1>5. ASSUME NEW k \in 0..n, k # n, k \in P
      PROVE  k + 1 \in P
  <2> DEFINE m == k + 1
  <2>1. m \in 1..n /\ m \in 0..n /\ V[k] = W[k] /\ m = k + 1
    BY <1>5
  <2> HIDE DEF m, V, W
  <2>2. V[m] = W[m]
    BY <1>4, <2>1
  <2> QED
    BY <2>1, <2>2 DEF m
<1>6. \A k \in 0..n : k \in P
  <2> HIDE DEF P
  <2> QED
    BY <1>2, <1>5, UpTo
<1> QED
  BY <1>6

\* Where no recorded payment walks, what the payments split into stands.
LEMMA PaymentsStand ==
    ASSUME NEW s, Sound(s), NEW t, SoundTerms(t), NEW x \in Nat,
           NEW n \in 0..Len(Ordered(s, t.payDay)),
           \A i \in 1..Len(Ordered(s, t.payDay)) :
             n < i => Ordered(s, t.payDay)[i].kind # "payment"
    PROVE  Replay(s, t, x).payment = WalkOf(s, t, x)[n].payment
<1> DEFINE o == Ordered(s, t.payDay)
           W == WalkOf(s, t, x)
           N == Len(o)
           P == {k \in 0..N : n <= k => W[k].payment = W[n].payment}
<1>1. N \in Nat /\ Replay(s, t, x) = W[N]
  BY ReplayRecords
<1>2. 0 \in P
  BY <1>1
<1>3. ASSUME NEW k \in 0..N, k # N, k \in P
      PROVE  k + 1 \in P
  <2> DEFINE m == k + 1
  <2>1. m \in 1..N /\ m - 1 = k /\ m \in 0..N
    BY <1>1, <1>3
  <2>2. CASE n < m
    <3>1. o[m].kind \in {"charge", "planned", "reset"}
      <4>1. o[m].kind \in {"charge", "payment", "planned", "reset"}
        BY <2>1, KindFacts DEF SoundTerms
      <4> QED
        BY <2>1, <2>2, <4>1
    <3>2. W[m].payment = W[m - 1].payment
      BY <2>1, <3>1, WalkStep
    <3>3. n <= k
      BY <2>1, <2>2
    <3> HIDE DEF W, N
    <3> QED
      BY <1>3, <2>1, <3>2, <3>3
  <2>3. CASE ~(n < m)
    <3> HIDE DEF W, N
    <3>1. n = m \/ ~(n <= m)
      BY <2>1, <2>3
    <3> QED
      BY <2>1, <3>1
  <2> QED
    BY <2>2, <2>3
<1>4. \A k \in 0..N : k \in P
  <2> HIDE DEF P, N
  <2> QED
    BY <1>1, <1>2, <1>3, UpTo
<1>5. N \in P /\ n <= N
  BY <1>1, <1>4
<1>6. W[N].payment = W[n].payment
  <2> HIDE DEF W, N
  <2> QED
    BY <1>5
<1>7. Replay(s, t, x).payment = W[N].payment
  BY <1>1
<1> QED
  BY <1>6, <1>7

\* The last recorded payment of an order, if there is one.
LEMMA LastPayment ==
    ASSUME NEW s, Sound(s), NEW day \in PaymentDaysInMonth
    PROVE  LET o == Ordered(s, day)
               N == Len(o)
           IN  \E n \in 0..N : /\ n = 0 \/ (n \in 1..N /\ o[n].kind = "payment")
                               /\ \A i \in 1..N : n < i => o[i].kind # "payment"
<1> DEFINE o == Ordered(s, day)
           N == Len(o)
           S == {i \in 1..N : o[i].kind = "payment"}
<1> SUFFICES \E n \in 0..N : /\ n = 0 \/ (n \in 1..N /\ o[n].kind = "payment")
                             /\ \A i \in 1..N : n < i => o[i].kind # "payment"
  OBVIOUS
<1>1. N \in Nat
  BY OrderFacts
<1>2. CASE S = {}
  <2>1. \A i \in 1..N : o[i].kind # "payment"
    BY <1>2
  <2>2. 0 \in 0..N
    BY <1>1
  <2> HIDE DEF N, o
  <2> QED
    BY <2>1, <2>2
<1>3. CASE S # {}
  <2>1. S \in SUBSET Int /\ IsFiniteSet(S)
    <3>1. S \in SUBSET (1..N) /\ IsFiniteSet(1..N)
      BY <1>1, FS_Interval
    <3>2. \A i \in S : i \in Int
      BY <1>1, <3>1
    <3> HIDE DEF S
    <3> QED
      BY <3>1, <3>2, FS_Subset
  <2>2. PICK n \in S : \A i \in S : n >= i
    <3> HIDE DEF S
    <3> QED
      BY <1>3, <2>1, Greatest
  <2>3. n \in 1..N /\ o[n].kind = "payment" /\ n \in 0..N
    BY <1>1, <2>2
  <2>4. \A i \in 1..N : n < i => o[i].kind # "payment"
    <3>1. \A i \in 1..N : o[i].kind = "payment" => i \in S
      OBVIOUS
    <3> HIDE DEF S, o, N
    <3> QED
      BY <1>1, <2>2, <2>3, <3>1
  <2> HIDE DEF N, o, S
  <2> QED
    BY <2>3, <2>4
<1> QED
  BY <1>2, <1>3

\* The installments up to a recorded payment cost the same escrow under either terms.
EscrowStands(s, t, u) ==
    \A p \in s.payments, c \in Nat :
      c <= p.on => MonthlyEscrow(t.versions, Lines, c) = MonthlyEscrow(u.versions, Lines, c)

\* Escrow lines that cost the same up to every recorded payment split them the same.
LEMMA SplitsStandEscrow ==
    ASSUME NEW s, Sound(s), NEW t, SoundTerms(t), NEW u, SoundTerms(u),
           t.payDay = u.payDay, t.rates = u.rates, EscrowStands(s, t, u)
    PROVE  Replay(s, t, 0).payment = Replay(s, u, 0).payment
<1> DEFINE day == t.payDay
           o == Ordered(s, day)
           N == Len(o)
<1>1. N \in Nat /\ day \in PaymentDaysInMonth
  BY ReplayRecords DEF SoundTerms
<1>2. PICK n \in 0..N : /\ n = 0 \/ (n \in 1..N /\ o[n].kind = "payment")
                        /\ \A i \in 1..N : n < i => o[i].kind # "payment"
  BY <1>1, LastPayment
<1>3. n \in Nat /\ n <= N
  BY <1>1, <1>2
<1>4. SameOrder(o, o, n)
  BY DEF SameOrder
<1>5. SameRecharges(s, o, s, o, n)
  BY DEF SameRecharges
<1>6. SameCharges(s, t, 0, s, u, 0, o, n)
  <2> SUFFICES ASSUME NEW i \in 1..n, o[i].kind = "charge", NEW balance \in Int
               PROVE  Accrued(t, Boundary(s), 0, o[i].on, balance)
                        = Accrued(u, Boundary(s), 0, o[i].on, balance)
    BY DEF SameCharges
  <2>1. n \in 1..N /\ i \in 1..N /\ i < n /\ o[n].kind = "payment"
    <3>1. n \in 1..N /\ o[n].kind = "payment" /\ i \in 1..N /\ i <= n
      BY <1>1, <1>2, <1>3
    <3>2. i # n
      BY <3>1
    <3> QED
      BY <3>1, <3>2
  <2>2. Before(o[i], o[n])
    BY <1>1, <2>1, OrderFacts
  <2>3. o[n] \in PaymentEvents(s) /\ o[i] \in ChargeEvents(s, day) /\ o[i].on \in Nat
    BY <1>1, <2>1, KindFacts
  <2>4. /\ o[n].at = o[n].on /\ o[i].at = o[i].on
        /\ o[n] \in EventType /\ o[i] \in EventType
        /\ \E p \in s.payments : o[n].on = p.on
    BY <1>1, <2>3, EventsByKind
  <2>5. o[i].on <= o[n].on
    BY <2>2, <2>4 DEF Before, EventType
  <2>6. PICK p \in s.payments : o[n].on = p.on
    BY <2>4
  <2>7. MonthlyEscrow(t.versions, Lines, o[i].on) = MonthlyEscrow(u.versions, Lines, o[i].on)
    <3> HIDE DEF o
    <3> QED
      BY <2>3, <2>5, <2>6 DEF EscrowStands
  <2> QED
    BY <2>7 DEF Accrued
<1>7. \A k \in 0..n : WalkOf(s, t, 0)[k] = WalkOf(s, u, 0)[k]
  BY <1>3, <1>4, <1>5, <1>6, WalksAgree
<1>8. Replay(s, t, 0).payment = WalkOf(s, t, 0)[n].payment
  BY <1>2, PaymentsStand
<1>9. Replay(s, u, 0).payment = WalkOf(s, u, 0)[n].payment
  BY <1>2, PaymentsStand
<1>10. WalkOf(s, t, 0)[n] = WalkOf(s, u, 0)[n]
  BY <1>3, <1>7
<1> QED
  BY <1>8, <1>9, <1>10

SamePaymentsUpTo(s, r, day) ==
    \A e : e.at <= day => (e \in PaymentEvents(s) <=> e \in PaymentEvents(r))

\* One payment in two streams that record the same up to it and plan nothing.
Alike(s, r, p, q) ==
    /\ s.resets = r.resets /\ s.planned = {} /\ r.planned = {}
    /\ p \in s.payments /\ q \in r.payments
    /\ p.who = q.who /\ p.on = q.on /\ p.cash = q.cash
    /\ SamePaymentsUpTo(s, r, p.on)

\* A recorded payment is split by the events that stand before it alone.
LEMMA SplitStands ==
    ASSUME NEW s, Sound(s), NEW r, Sound(r), NEW t, SoundTerms(t), NEW p, NEW q, Alike(s, r, p, q)
    PROVE  Replay(s, t, 0).payment[p.who] = Replay(r, t, 0).payment[p.who]
<1>a. /\ s.resets = r.resets /\ s.planned = {} /\ r.planned = {}
      /\ p \in s.payments /\ q \in r.payments
      /\ p.who = q.who /\ p.on = q.on /\ p.cash = q.cash
      /\ SamePaymentsUpTo(s, r, p.on)
  BY DEF Alike
<1> USE <1>a
<1> DEFINE day == t.payDay
           E == Events(s, day)
           F == Events(r, day)
           o == Ordered(s, day)
           w == Ordered(r, day)
           e == Event("payment", p.on, p.on, p.who, p.cash)
           n == Place(E, e)
<1>1. day \in PaymentDaysInMonth
  BY DEF SoundTerms
<1>2. Orderly(E) /\ Orderly(F) /\ o = InPlace(E) /\ w = InPlace(F)
  BY <1>1, OrderFacts
<1>3. e \in E /\ e \in F /\ e.at = p.on /\ p.on \in Nat
  <2>1. e \in PaymentEvents(s) /\ e \in PaymentEvents(r)
    BY DEF PaymentEvents
  <2>2. p.on \in Nat
    BY SoundTypes
  <2> QED
    BY <1>1, <2>1, <2>2, EventsByKind DEF Event
<1>4. ASSUME NEW f, f.at <= p.on
      PROVE  f \in E <=> f \in F
  <2>1. f \in ChargeEvents(s, day) <=> f \in ChargeEvents(r, day)
    <3>1. Installments(day, p.on) = {c \in Charges(s, day) : c <= p.on}
      <4>1. p.on \in RecordedDays(s)
        BY DEF RecordedDays
      <4>2. p.on \in 0..Max(RecordedDays(s))
        BY <1>3, <4>1, RecordedFacts, DaysFinite
      <4> QED
        BY <1>1, <4>2, ChargeFacts
    <3>2. Installments(day, p.on) = {c \in Charges(r, day) : c <= p.on}
      <4>1. p.on \in RecordedDays(r)
        BY DEF RecordedDays
      <4>2. p.on \in 0..Max(RecordedDays(r))
        BY <1>3, <4>1, RecordedFacts, DaysFinite
      <4> QED
        BY <1>1, <4>2, ChargeFacts
    <3>3. \A c : Event("charge", c, c, 0, 0).at = c
      BY DEF Event
    <3>4. \A c : c <= p.on => (c \in Charges(s, day) <=> c \in Charges(r, day))
      BY <3>1, <3>2
    <3> QED
      BY <1>4, <3>3, <3>4 DEF ChargeEvents
  <2>2. f \in PaymentEvents(s) <=> f \in PaymentEvents(r)
    BY <1>4 DEF SamePaymentsUpTo
  <2>3. ResetEvents(s) = ResetEvents(r)
    BY DEF ResetEvents
  <2>4. PlannedEvents(s) = {} /\ PlannedEvents(r) = {}
    BY DEF PlannedEvents
  <2>5. /\ E = ChargeEvents(s, day) \cup PaymentEvents(s) \cup ResetEvents(s) \cup PlannedEvents(s)
        /\ F = ChargeEvents(r, day) \cup PaymentEvents(r) \cup ResetEvents(r) \cup PlannedEvents(r)
    BY <1>1, EventsByKind
  <2> HIDE DEF E, F
  <2> QED
    BY <2>1, <2>2, <2>3, <2>4, <2>5
<1>5. Below(E, e) = Below(F, e)
  <2>1. \A f \in E \cup F : Before(f, e) => f.at <= p.on
    <3>1. \A f \in E \cup F : f \in EventType
      BY <1>2 DEF Orderly
    <3>2. \A f \in EventType : Before(f, e) => f.at <= e.at
      <4>1. e \in EventType
        BY <1>3, <3>1
      <4> HIDE DEF e
      <4> QED
        BY <4>1 DEF Before, EventType
    <3> QED
      BY <1>3, <3>1, <3>2
  <2> HIDE DEF E, F, e
  <2> QED
    BY <1>4, <2>1 DEF Below
<1>6. /\ n = Place(F, e) /\ n \in 1..Len(o) /\ n \in 1..Len(w)
      /\ Len(o) \in Nat /\ Len(w) \in Nat /\ SameOrder(o, w, n)
  <2> HIDE DEF E, F, e, o, w
  <2> QED
    BY <1>2, <1>3, <1>5, SamePlaces DEF SameOrder
<1>7. n = PaidAt(s, day, p) /\ n = PaidAt(r, day, q)
  BY <1>6 DEF PaidAt
<1>8. o[n] = e /\ w[n] = e
  <2> HIDE DEF E, F, e, o, w
  <2> QED
    BY <1>2, <1>3, <1>6, InPlaceFacts
<1>9. Pays(o[n]) /\ n \in Nat /\ n <= Len(o) /\ n <= Len(w)
  BY <1>6, <1>8 DEF Pays, Event
<1>10. SameRecharges(s, o, r, w, n)
  <2> HIDE DEF o, w, n
  <2> QED
    BY <1>6, <1>9, RechargesDecided
<1>11. SameCharges(s, t, 0, r, t, 0, o, n)
  BY DEF SameCharges, Accrued
<1>12. \A k \in 0..n : WalkOf(s, t, 0)[k] = WalkOf(r, t, 0)[k]
  <2> HIDE DEF n
  <2> QED
    BY <1>6, <1>9, <1>10, <1>11, WalksAgree
<1>13. WalkOf(s, t, 0)[n - 1] = WalkOf(r, t, 0)[n - 1]
  <2>1. n - 1 \in 0..n
    BY <1>6
  <2> HIDE DEF n
  <2> QED
    BY <1>12, <2>1
<1>14. Replay(s, t, 0).payment[p.who] = EntryAt(WalkOf(s, t, 0)[n - 1], o[n])
  BY <1>7, ReplayRecords
<1>15. Replay(r, t, 0).payment[q.who] = EntryAt(WalkOf(r, t, 0)[n - 1], w[n])
  BY <1>7, ReplayRecords
<1> HIDE DEF n, o, w, e
<1> QED
  BY <1>8, <1>13, <1>14, <1>15
----------------------------------------------------------------------------
(* What the doors leave of the splits.                                     *)

\* What the walks of the facts before and after a door both need.
SoundNow ==
    /\ Sound(Stream) /\ Stream.planned = {} /\ Stream.resets = Resets
    /\ Stream.payments = {RecordOf(p) : p \in Settled}
    /\ configured => SoundTerms(Terms)

\* loan_event_stream: whatever the owner does, the facts are a stream the replay
\* can walk, and a loan that is set up has the terms to walk it by.
THEOREM FactsAlwaysWalk == LoanSpec => []SoundNow
<1>1. FactsInv => SoundNow
  BY StreamSound, TermsSound DEF SoundNow
<1> QED
  BY <1>1, FactsAlwaysSound, PTL

\* A settled payment's due date is locked, whatever happens to it.
LEMMA DueIsLocked ==
    ASSUME FactsInv, PaymentDoors
    PROVE  \E p \in Payments : \E row : OnPayment(p, row) /\ (p \in Settled => row.due = payments[p].due)
<1> DEFINE Fits(p, row) == OnPayment(p, row) /\ (p \in Settled => row.due = payments[p].due)
<1>1. PICK p \in Payments :
        \/ \E due \in DueDays : Plan(p, due) \/ ReDue(p, due)
        \/ \E cash \in Cash, day \in PaidDays :
             \/ Settle(p, cash, day)
             \/ \E due \in DueDays : Record(p, due, cash, day)
        \/ \E cash \in Cash : ReFigure(p, cash)
        \/ \E day \in PaidDays : ReDay(p, day)
        \/ Revert(p)
        \/ \E place \in {"deleted", "elsewhere"} : Leave(p, place)
        \/ Return(p)
  BY DEF PaymentDoors
<1>2. payments[p] \in PaymentRow
  BY DEF FactsInv, FactsTyped, PaymentRow
<1>3. ASSUME NEW row \in PaymentRow, NEW cash, NEW day
      PROVE  Recorded(row, cash, day).due = row.due
  BY DEF Recorded, PaymentRow
<1>4. \A due : [NoPayment EXCEPT !.status = "planned", !.due = due].due = due
  BY DEF NoPayment
<1>5. ASSUME NEW due \in DueDays, Plan(p, due) \/ ReDue(p, due)
      PROVE  \E row : Fits(p, row)
  <2>1. p \notin Settled
    BY <1>5 DEF Plan, ReDue, Here, Settled
  <2> QED
    BY <1>5, <2>1 DEF Plan, ReDue
<1>6. ASSUME NEW cash \in Cash, NEW day \in PaidDays, Settle(p, cash, day)
      PROVE  \E row : Fits(p, row)
  BY <1>2, <1>3, <1>6 DEF Settle
<1>7. ASSUME NEW cash \in Cash, NEW day \in PaidDays, NEW due \in DueDays, Record(p, due, cash, day)
      PROVE  \E row : Fits(p, row)
  <2>1. p \notin Settled
    BY <1>7 DEF Record, Settled
  <2> QED
    BY <1>7, <2>1 DEF Record
<1>8. ASSUME NEW cash \in Cash, ReFigure(p, cash)
      PROVE  \E row : Fits(p, row)
  BY <1>2, <1>3, <1>8 DEF ReFigure
<1>9. ASSUME NEW day \in PaidDays, ReDay(p, day)
      PROVE  \E row : Fits(p, row)
  <2>1. [payments[p] EXCEPT !.day = day].due = payments[p].due
    BY <1>2 DEF PaymentRow
  <2> QED
    BY <1>9, <2>1 DEF ReDay
<1>10. ASSUME Revert(p)
       PROVE  \E row : Fits(p, row)
  BY <1>4, <1>10 DEF Revert
<1>11. ASSUME NEW place \in {"deleted", "elsewhere"}, Leave(p, place)
       PROVE  \E row : Fits(p, row)
  <2>1. [payments[p] EXCEPT !.place = place].due = payments[p].due
    BY <1>2 DEF PaymentRow
  <2> QED
    BY <1>11, <2>1 DEF Leave
<1>12. ASSUME Return(p)
       PROVE  \E row : Fits(p, row)
  <2>1. [payments[p] EXCEPT !.place = "loan"].due = payments[p].due
    BY <1>2 DEF PaymentRow
  <2> QED
    BY <1>12, <2>1 DEF Return
<1>13. \E row : Fits(p, row)
  <2> HIDE DEF Fits
  <2> QED
    BY <1>1, <1>5, <1>6, <1>7, <1>8, <1>9, <1>10, <1>11, <1>12
<1> QED
  BY <1>13

\* Nothing that happens to a payment due later, and no day money moved, re-splits one.
LEMMA LaterPaymentStep ==
    ASSUME FactsInv, FactsInv', SoundNow, SoundNow', [LoanNext]_loanVars, configured,
           payments' # payments, NEW p \in Settled \cap Settled',
           \A q \in Payments : payments'[q] # payments[q] =>
             \/ payments'[q] = [payments[q] EXCEPT !.day = payments'[q].day]
             \/ payments[p].due < payments'[q].due
    PROVE  Walk'.payment[p] = Walk.payment[p]
<1>1. PaymentDoors
  <2>1. ASSUME StatementDoors
        PROVE  payments' = payments
    BY <2>1 DEF StatementDoors, Configure, RecordBalance, TrackFrom, State
  <2>2. ASSUME TermDoors
        PROVE  payments' = payments
    BY <2>2 DEF TermDoors, AddRate, UpdateTerms
  <2>3. ASSUME EscrowDoors
        PROVE  payments' = payments
    BY <2>3, EscrowDoorVersions DEF OnEscrow
  <2>4. ASSUME NextDay \/ UNCHANGED loanVars
        PROVE  payments' = payments
    BY <2>4 DEF NextDay, loanVars, loanFacts
  <2> QED
    BY <2>1, <2>2, <2>3, <2>4 DEF LoanNext
<1>a. PICK q \in Payments :
        \E row : OnPayment(q, row) /\ (q \in Settled => row.due = payments[q].due)
  BY <1>1, DueIsLocked
<1>2. PICK row : OnPayment(q, row) /\ (q \in Settled => row.due = payments[q].due)
  BY <1>a
<1>3. /\ configured' = configured /\ payDay' = payDay /\ rates' = rates /\ versions' = versions
      /\ statements' = statements /\ payments' = [payments EXCEPT ![q] = row]
  BY <1>2 DEF OnPayment
<1>4. /\ \A y \in Payments : payments[y] \in PaymentRow /\ payments'[y] \in PaymentRow
      /\ DOMAIN payments = Payments /\ DOMAIN payments' = Payments
  BY DEF FactsInv, FactsTyped, PaymentRow
<1>5. /\ \A y \in Payments : y # q => payments'[y] = payments[y]
      /\ payments'[q] = row
  BY <1>3, <1>4
<1>6. \A y \in Payments : payments[y].due \in Int /\ payments'[y].due \in Int
  <2>1. \A y \in Payments : payments[y].due \in DueDays \cup {0} /\ payments'[y].due \in DueDays \cup {0}
    BY <1>4 DEF PaymentRow
  <2>2. \A d \in DueDays \cup {0} : d \in Int
    BY DaysTyped, DaysFinite
  <2> QED
    BY <2>1, <2>2
<1> DEFINE DayOnly(y) == /\ payments'[y].status = payments[y].status
                         /\ payments'[y].place = payments[y].place
                         /\ payments'[y].due = payments[y].due /\ payments'[y].cash = payments[y].cash
<1>7. \A y \in Payments : DayOnly(y) \/ payments[p].due < payments'[y].due
  <2> SUFFICES ASSUME NEW y \in Payments
               PROVE  DayOnly(y) \/ payments[p].due < payments'[y].due
    OBVIOUS
  <2>1. CASE payments'[y] = payments[y]
    BY <2>1
  <2>2. CASE payments'[y] = [payments[y] EXCEPT !.day = payments'[y].day]
    <3>1. payments[y] \in PaymentRow
      BY <1>4
    <3>2. ASSUME NEW d
          PROVE  LET new == [payments[y] EXCEPT !.day = d]
                 IN  /\ new.status = payments[y].status /\ new.place = payments[y].place
                     /\ new.due = payments[y].due /\ new.cash = payments[y].cash
      BY <3>1 DEF PaymentRow
    <3> QED
      BY <2>2, <3>2
  <2> QED
    BY <2>1, <2>2
<1>8. ASSUME NEW y \in Payments, y \in Settled
      PROVE  payments'[y].due = payments[y].due
  BY <1>2, <1>5, <1>8
<1>9. /\ p \in Payments /\ DayOnly(p)
  <2>1. p \in Payments
    BY DEF Settled
  <2>2. payments'[p].due = payments[p].due
    BY <1>8, <2>1
  <2> QED
    BY <1>6, <1>7, <2>1, <2>2
<1>10. ASSUME NEW y \in Settled, payments[y].due <= payments[p].due
       PROVE  y \in Settled' /\ DayOnly(y)
  <2>1. y \in Payments /\ payments[y].status = "settled" /\ payments[y].place = "loan"
    BY DEF Settled
  <2>2. payments'[y].due = payments[y].due
    BY <1>8, <2>1
  <2>3. DayOnly(y)
    BY <1>6, <1>7, <1>9, <1>10, <2>1, <2>2
  <2> QED
    BY <2>1, <2>3 DEF Settled
<1>11. ASSUME NEW y \in Settled', payments'[y].due <= payments[p].due
       PROVE  y \in Settled /\ DayOnly(y)
  <2>1. y \in Payments /\ payments'[y].status = "settled" /\ payments'[y].place = "loan"
    BY DEF Settled
  <2>2. DayOnly(y)
    BY <1>6, <1>7, <1>9, <1>11, <2>1
  <2> QED
    BY <2>1, <2>2 DEF Settled
<1>12. /\ Stream.payments = {RecordOf(y) : y \in Settled}
       /\ Stream'.payments = {RecordOf(y)' : y \in Settled'}
       /\ Stream'.planned = {} /\ Stream.planned = {} /\ Stream'.resets = Stream.resets
       /\ Sound(Stream) /\ Sound(Stream') /\ SoundTerms(Terms) /\ Terms' = Terms
  <2>1. Resets' = Resets
    BY <1>3 DEF Resets
  <2>2. Terms' = Terms
    BY <1>3 DEF Terms
  <2> QED
    BY <2>1, <2>2 DEF SoundNow
<1>13. \A y : /\ RecordOf(y).who = y /\ RecordOf(y).on = payments[y].due
              /\ RecordOf(y).cash = payments[y].cash
              /\ RecordOf(y)'.who = y /\ RecordOf(y)'.on = payments'[y].due
              /\ RecordOf(y)'.cash = payments'[y].cash
  BY DEF RecordOf
<1> DEFINE Ev(who, on, cash) == Event("payment", on, on, who, cash)
<1>14. PaymentEvents(Stream) = {Ev(y, payments[y].due, payments[y].cash) : y \in Settled}
  BY <1>12, <1>13 DEF PaymentEvents
<1>15. PaymentEvents(Stream') = {Ev(y, payments'[y].due, payments'[y].cash) : y \in Settled'}
  BY <1>12, <1>13 DEF PaymentEvents
<1>16. ASSUME NEW e, e.at <= payments[p].due
       PROVE  e \in PaymentEvents(Stream) <=> e \in PaymentEvents(Stream')
  <2>0. \A who, on, cash : Ev(who, on, cash).at = on
    BY DEF Event
  <2>1. ASSUME e \in PaymentEvents(Stream)
        PROVE  e \in PaymentEvents(Stream')
    <3>1. PICK y \in Settled : e = Ev(y, payments[y].due, payments[y].cash)
      BY <1>14, <2>1
    <3> HIDE DEF Ev
    <3>2. payments[y].due <= payments[p].due
      BY <1>16, <2>0, <3>1
    <3>3. y \in Settled' /\ DayOnly(y)
      BY <1>10, <3>2
    <3> QED
      BY <1>15, <3>1, <3>3
  <2>2. ASSUME e \in PaymentEvents(Stream')
        PROVE  e \in PaymentEvents(Stream)
    <3>1. PICK y \in Settled' : e = Ev(y, payments'[y].due, payments'[y].cash)
      BY <1>15, <2>2
    <3> HIDE DEF Ev
    <3>2. payments'[y].due <= payments[p].due
      BY <1>16, <2>0, <3>1
    <3>3. y \in Settled /\ DayOnly(y)
      BY <1>11, <3>2
    <3> QED
      BY <1>14, <3>1, <3>3
  <2> QED
    BY <2>1, <2>2
<1>17. Walk = Replay(Stream, Terms, 0) /\ Walk' = Replay(Stream', Terms', 0)
  BY DEF Walk
<1> DEFINE s == Stream
           r == Stream'
           x == RecordOf(p)
           z == RecordOf(p)'
<1>18. x \in s.payments /\ z \in r.payments /\ x.who = p /\ z.who = p /\ x.on = z.on /\ x.cash = z.cash
       /\ x.on = payments[p].due
  BY <1>9, <1>12, <1>13
<1>19. SamePaymentsUpTo(s, r, x.on)
  BY <1>16, <1>18 DEF SamePaymentsUpTo
<1> HIDE DEF s, r, x, z
<1>20. Replay(s, Terms, 0).payment[x.who] = Replay(r, Terms, 0).payment[x.who]
  <2>1. /\ Sound(s) /\ Sound(r) /\ s.resets = r.resets /\ s.planned = {} /\ r.planned = {}
        /\ SoundTerms(Terms)
    BY <1>12 DEF s, r
  <2>2. x \in s.payments /\ z \in r.payments /\ x.who = z.who /\ x.on = z.on /\ x.cash = z.cash
    BY <1>18
  <2>3. Alike(s, r, x, z)
    BY <1>19, <2>1, <2>2 DEF Alike
  <2> QED
    BY <2>1, <2>3, SplitStands
<1> QED
  BY <1>12, <1>17, <1>18, <1>20 DEF s, r

\* LaterPaymentsMoveNoSplit: loan_event_stream keeps contract time.
THEOREM LaterPaymentsNeverMoveASplit == LoanSpec => LaterPaymentsMoveNoSplit
<1> DEFINE Unmoved ==
             configured /\ payments' # payments =>
               LET changed == {q \in Payments : payments'[q] # payments[q]}
                   unmoved == {p \in Settled \cap Settled' :
                                 \A q \in changed :
                                   \/ payments'[q] = [payments[q] EXCEPT !.day = payments'[q].day]
                                   \/ payments[p].due < payments'[q].due}
               IN  unmoved # {} =>
                     \A before \in {Walk}, after \in {Walk'}, p \in unmoved :
                       after.payment[p] = before.payment[p]
<1>1. FactsInv /\ FactsInv' /\ SoundNow /\ SoundNow' /\ [LoanNext]_loanVars => Unmoved
  BY LaterPaymentStep
<1>2. LoanSpec => [][Unmoved]_loanVars
  <2> HIDE DEF Unmoved
  <2> QED
    BY <1>1, FactsAlwaysSound, FactsAlwaysWalk, PTL DEF LoanSpec
<1>3. [][Unmoved]_loanVars <=> LaterPaymentsMoveNoSplit
  BY DEF LaterPaymentsMoveNoSplit
<1> HIDE DEF Unmoved
<1> QED
  BY <1>2, <1>3

\* Two histories alike up to a day are in effect alike on it.
LEMMA EffectStands ==
    ASSUME NEW f, DOMAIN f = Days, NEW g, DOMAIN g = Days, NEW day,
           \A d \in Days : d <= day => f[d] = g[d]
    PROVE  InEffectOn(f, day) = InEffectOn(g, day)
<1>1. {d \in Days : d <= day /\ f[d] # None} = {d \in Days : d <= day /\ g[d] # None}
  OBVIOUS
<1>2. CASE {d \in Days : d <= day /\ f[d] # None} = {}
  BY <1>1, <1>2 DEF InEffectOn
<1>3. CASE {d \in Days : d <= day /\ f[d] # None} # {}
  <2> DEFINE upTo == {d \in Days : d <= day /\ f[d] # None}
  <2>1. upTo \in SUBSET Int /\ IsFiniteSet(upTo) /\ upTo # {}
    BY <1>3, DaysFinite
  <2>2. Max(upTo) \in upTo
    <3> HIDE DEF upTo
    <3> QED
      BY <2>1, MaxFacts
  <2>3. f[Max(upTo)] = g[Max(upTo)]
    BY <2>2
  <2>4. InEffectOn(f, day) = f[Max(upTo)]
    BY <1>3 DEF InEffectOn
  <2>5. InEffectOn(g, day) = g[Max(upTo)]
    BY <1>1, <1>3 DEF InEffectOn
  <2> QED
    BY <2>3, <2>4, <2>5
<1> QED
  BY <1>2, <1>3

\* An effective history with nothing dated between two days stands from one to the other.
LEMMA EffectLasts ==
    ASSUME NEW f, DOMAIN f = Days, NEW from \in Nat, NEW day \in Nat, from <= day,
           \A d \in Days : from < d /\ d <= day => f[d] = None
    PROVE  InEffectOn(f, day) = InEffectOn(f, from)
<1>1. {d \in Days : d <= day /\ f[d] # None} = {d \in Days : d <= from /\ f[d] # None}
  <2>1. \A d \in Days : d \in Int
    BY DaysFinite
  <2> QED
    BY <2>1
<1> QED
  BY <1>1 DEF InEffectOn

\* A month's escrow is read off the lines in force and their amounts alone.
LEMMA MonthlySame ==
    ASSUME NEW v, NEW S, NEW c, NEW w, NEW T, NEW d,
           ActiveLines(v, S, c) = ActiveLines(w, T, d),
           \A l \in ActiveLines(v, S, c) : InEffectOn(v[l], c) = InEffectOn(w[l], d)
    PROVE  MonthlyEscrow(v, S, c) = MonthlyEscrow(w, T, d)
<1>1. [l \in ActiveLines(v, S, c) |-> InEffectOn(v[l], c)]
        = [l \in ActiveLines(w, T, d) |-> InEffectOn(w[l], d)]
  OBVIOUS
<1> QED
  BY <1>1 DEF MonthlyEscrow

\* Each line's history is an amount, a removal or nothing on every day.
LEMMA HistoriesTyped ==
    ASSUME FactsInv
    PROVE  \A l \in Lines : /\ DOMAIN versions[l] = Days
                            /\ \A d \in Days : versions[l][d] \in Nat \cup {None, Removed}
<1>1. versions \in [Lines -> [Days -> Amounts \cup {None, Removed}]]
  BY DEF FactsInv, FactsTyped
<1>2. \A a \in Amounts : a \in Nat
  BY DaysTyped
<1> QED
  BY <1>1, <1>2

\* Every escrow door but the merge changes the lines after the last settled due date.
LEMMA EscrowDoorsAfterPaid ==
    ASSUME FactsInv, configured, EscrowDoors, ~ \E a, b \in Lines : MergeLines(a, b)
    PROVE  \A l \in Lines, d \in Days : versions'[l][d] # versions[l][d] =>
             \A p \in Settled : payments[p].due < d
<1> DEFINE After(d) == \A p \in Settled : payments[p].due < d
           Changes(new) == \A l \in Lines, d \in Days : new[l][d] # versions[l][d] => After(d)
<1>1. versions \in [Lines -> [Days -> Amounts \cup {None, Removed}]] /\ today \in Days
  BY DEF FactsInv, FactsTyped
<1>2. PICK l \in Lines :
        \/ \E on \in EscrowDays, amount \in Amounts :
             \/ AddLine(l, on, amount) \/ AddVersion(l, on, amount)
             \/ \E from \in EscrowDays : EditVersion(l, from, on, amount)
        \/ \E on \in EscrowDays : DeleteVersion(l, on)
        \/ RemoveLine(l)
  BY DEF EscrowDoors
<1>3. ASSUME NEW on \in Days, NEW entry, After(on)
      PROVE  Changes(With(l, on, entry))
  BY <1>1, <1>3 DEF With
<1>4. \A on : AfterPaid(on) <=> After(on)
  BY DEF AfterPaid
<1>5. ASSUME NEW on \in EscrowDays, NEW amount, AddLine(l, on, amount) \/ AddVersion(l, on, amount)
      PROVE  Changes(versions')
  <2>1. on \in Days /\ After(on) /\ versions' = With(l, on, amount)
    BY <1>4, <1>5, DaysTyped DEF AddLine, AddVersion, EffectiveAllowed, OnEscrow
  <2> HIDE DEF Changes
  <2> QED
    BY <1>3, <2>1
<1>6. ASSUME NEW on \in EscrowDays, NEW from \in EscrowDays, NEW amount,
             EditVersion(l, from, on, amount)
      PROVE  Changes(versions')
  <2>1. After(from) /\ After(on) /\ on \in Days /\ from \in Days
    BY <1>4, <1>6, DaysTyped DEF EditVersion, EffectiveAllowed
  <2>2. versions' = [versions EXCEPT ![l] = [@ EXCEPT ![from] = None, ![on] = amount]]
    BY <1>6 DEF EditVersion, OnEscrow
  <2>3. ASSUME NEW m \in Lines, NEW d \in Days, d # from, d # on
        PROVE  versions'[m][d] = versions[m][d]
    BY <1>1, <2>1, <2>2, <2>3
  <2> QED
    BY <2>1, <2>3
<1>7. ASSUME NEW on \in EscrowDays, DeleteVersion(l, on)
      PROVE  Changes(versions')
  <2>1. on \in Days /\ After(on) /\ versions' = With(l, on, None)
    BY <1>4, <1>7, DaysTyped DEF DeleteVersion, DeleteAllowed, OnEscrow
  <2> HIDE DEF Changes
  <2> QED
    BY <1>3, <2>1
<1>8. ASSUME RemoveLine(l)
      PROVE  Changes(versions')
  <2>1. After(today) /\ (versions' = With(l, today, Removed) \/ versions' = versions)
    BY <1>4, <1>8 DEF RemoveLine, EffectiveAllowed, OnEscrow
  <2>2. Changes(With(l, today, Removed)) /\ Changes(versions)
    BY <1>1, <1>3, <2>1
  <2> HIDE DEF Changes
  <2> QED
    BY <2>1, <2>2
<1>9. Changes(versions')
  <2> HIDE DEF Changes
  <2> QED
    BY <1>2, <1>5, <1>6, <1>7, <1>8
<1> QED
  BY <1>9

\* Histories that change after the last settled due date alone move no split.
LEMMA LaterVersionsStand ==
    ASSUME FactsInv, FactsInv', SoundNow,
           \A l \in Lines, d \in Days : versions'[l][d] # versions[l][d] =>
             \A p \in Settled : payments[p].due < d,
           NEW p \in Settled, NEW c \in Nat, c <= payments[p].due
    PROVE  MonthlyEscrow(versions, Lines, c) = MonthlyEscrow(versions', Lines, c)
<1>1. \A l \in Lines : DOMAIN versions[l] = Days /\ DOMAIN versions'[l] = Days
  BY DEF FactsInv, FactsTyped
<1>2. payments[p].due \in Int /\ \A d \in Days : d \in Int
  BY SettledFacts, DaysFinite
<1>3. ASSUME NEW l \in Lines
      PROVE  InEffectOn(versions[l], c) = InEffectOn(versions'[l], c)
  <2>1. \A d \in Days : d <= c => versions[l][d] = versions'[l][d]
    BY <1>2
  <2> QED
    BY <1>1, <2>1, EffectStands
<1>4. ActiveLines(versions, Lines, c) = ActiveLines(versions', Lines, c)
  BY <1>3 DEF ActiveLines
<1>5. \A l \in ActiveLines(versions, Lines, c) : l \in Lines
  BY DEF ActiveLines
<1> QED
  BY <1>3, <1>4, <1>5, MonthlySame

\* What each line costs a year on a day.
YearOf(v, day) ==
    [l \in Lines |-> IF InEffectOn(v[l], day) \in {None, Removed} THEN 0 ELSE InEffectOn(v[l], day)]

\* Amounts entered by the month add up without rounding.
LEMMA MonthlyByTheMonth ==
    ASSUME MonthsPerYear = 1, NEW v, NEW S \in SUBSET Lines, NEW day \in Nat,
           \A l \in Lines : /\ DOMAIN v[l] = Days
                            /\ \A d \in Days : v[l][d] \in Nat \cup {None, Removed}
    PROVE  /\ MonthlyEscrow(v, S, day) = SumFunctionOnSet(YearOf(v, day), S)
           /\ \A l \in Lines : YearOf(v, day)[l] \in Nat
<1> DEFINE A == ActiveLines(v, S, day)
           f == [l \in A |-> InEffectOn(v[l], day)]
           g == YearOf(v, day)
<1>1. A \in SUBSET S /\ IsFiniteSet(A) /\ IsFiniteSet(S) /\ \A l \in A : f[l] \in Nat
  <2>1. /\ ActiveLines(v, S, day) \in SUBSET S /\ IsFiniteSet(ActiveLines(v, S, day))
        /\ \A l \in ActiveLines(v, S, day) : InEffectOn(v[l], day) \in Nat
    BY ActiveFacts
  <2>2. IsFiniteSet(S)
    BY LoanAssumption, FS_Subset
  <2> QED
    BY <2>1, <2>2
<1>2. \A l \in S : g[l] = IF l \in A THEN f[l] ELSE 0
  BY DEF YearOf, ActiveLines
<1>3. \A l \in A : f[l] \in Int
  BY <1>1
<1>4. MonthlyEscrow(v, S, day) = Rounded(SumFunctionOnSet(f, A), 1)
  BY DEF MonthlyEscrow, SumFunction
<1>5. \A l \in Lines : g[l] \in Nat
  <2> SUFFICES ASSUME NEW l \in Lines
               PROVE  g[l] \in Nat
    OBVIOUS
  <2>1. l \in ActiveLines(v, Lines, day) => InEffectOn(v[l], day) \in Nat
    BY ActiveFacts
  <2> QED
    BY <2>1 DEF YearOf, ActiveLines
<1> HIDE DEF A, f, g
<1>6. SumFunctionOnSet(f, A) = SumFunctionOnSet(g, S)
  BY <1>1, <1>2, <1>3, SumFilter
<1>7. SumFunctionOnSet(f, A) \in Nat
  BY <1>1, SumNat
<1> QED
  BY <1>4, <1>5, <1>6, <1>7, RoundedWhole DEF g

\* A merge leaves every month's escrow as it was, when amounts are entered by the
\* month or the two lines are all there are.
LEMMA MergeKeepsMonths ==
    ASSUME FactsInv, NEW a \in Lines, NEW b \in Lines, MergeLines(a, b),
           MonthsPerYear = 1 \/ Lines = {a, b}, NEW c \in Nat
    PROVE  MonthlyEscrow(versions, Lines, c) = MonthlyEscrow(versions', Lines, c)
<1> DEFINE v == versions
           one == [versions EXCEPT ![b] = MergedVersions(a, b)]
           w == [versions EXCEPT ![b] = MergedVersions(a, b), ![a] = [d \in Days |-> None]]
<1>1. /\ v \in [Lines -> [Days -> Amounts \cup {None, Removed}]]
      /\ versions' = w /\ a # b
      /\ \A d \in Days : v[a][d] # None \/ v[b][d] # None =>
           MonthlyEscrow(v, {a, b}, d) = MonthlyEscrow(one, {b}, d)
  BY DEF FactsInv, FactsTyped, MergeLines, MergeAllowed, OnEscrow
<1>2. /\ \A l \in Lines : l # a /\ l # b => w[l] = v[l]
      /\ w[b] = MergedVersions(a, b) /\ w[a] = [d \in Days |-> None] /\ one[b] = w[b]
      /\ \A l \in Lines : /\ DOMAIN v[l] = Days /\ DOMAIN w[l] = Days
                          /\ \A d \in Days : v[l][d] \in Nat \cup {None, Removed}
                          /\ \A d \in Days : w[l][d] \in Nat \cup {None, Removed}
  <2>1. \A l \in Lines : l # a /\ l # b => w[l] = v[l]
    BY <1>1
  <2>2. w[b] = MergedVersions(a, b) /\ w[a] = [d \in Days |-> None] /\ one[b] = MergedVersions(a, b)
    BY <1>1
  <2>3. \A l \in Lines : DOMAIN v[l] = Days /\ \A d \in Days : v[l][d] \in Nat \cup {None, Removed}
    BY HistoriesTyped
  <2>4. DOMAIN MergedVersions(a, b) = Days
        /\ \A d \in Days : MergedVersions(a, b)[d] \in Nat \cup {None, Removed}
    BY <2>3 DEF MergedVersions
  <2> HIDE DEF v, w, one
  <2>5. \A l \in Lines : DOMAIN w[l] = Days /\ \A d \in Days : w[l][d] \in Nat \cup {None, Removed}
    BY <2>1, <2>2, <2>3, <2>4
  <2> QED
    BY <2>1, <2>2, <2>3, <2>5
<1>3. \A d \in Days : /\ w[a][d] = None
                      /\ w[b][d] # None <=> v[a][d] # None \/ v[b][d] # None
  BY <1>2 DEF MergedVersions
<1> HIDE DEF v, w, one
<1>4. \A day : InEffectOn(w[a], day) = None
  BY <1>2, <1>3 DEF InEffectOn
<1> DEFINE D == {d \in Days : d <= c /\ w[b][d] # None}
<1>5. CASE D = {}
  <2>1. InEffectOn(w[b], c) = None /\ InEffectOn(v[a], c) = None /\ InEffectOn(v[b], c) = None
    <3>1. /\ {d \in DOMAIN w[b] : d <= c /\ w[b][d] # None} = {}
          /\ {d \in DOMAIN v[a] : d <= c /\ v[a][d] # None} = {}
          /\ {d \in DOMAIN v[b] : d <= c /\ v[b][d] # None} = {}
      BY <1>2, <1>3, <1>5
    <3> QED
      BY <3>1 DEF InEffectOn
  <2>2. \A l \in Lines : InEffectOn(v[l], c) = InEffectOn(w[l], c)
    BY <1>2, <1>4, <2>1
  <2>3. ActiveLines(v, Lines, c) = ActiveLines(w, Lines, c)
        /\ \A l \in ActiveLines(v, Lines, c) : l \in Lines
    BY <2>2 DEF ActiveLines
  <2>4. MonthlyEscrow(v, Lines, c) = MonthlyEscrow(w, Lines, c)
    BY <2>2, <2>3, MonthlySame
  <2> QED
    BY <1>1, <2>4 DEF v
<1>6. CASE D # {}
  <2>1. D \in SUBSET Int /\ IsFiniteSet(D)
    BY DaysFinite
  <2>2. PICK d \in D : \A e \in D : d >= e
    <3> HIDE DEF D
    <3> QED
      BY <1>6, <2>1, Greatest
  <2>3. d \in Days /\ d \in Nat /\ d <= c /\ (v[a][d] # None \/ v[b][d] # None)
    BY <1>3, <2>2, DaysFinite
  <2>4. \A e \in Days : d < e /\ e <= c => w[b][e] = None /\ v[a][e] = None /\ v[b][e] = None
    <3>1. \A e \in Days : d < e /\ e <= c => e \notin D
      BY <2>2, <2>3, DaysFinite
    <3> QED
      BY <1>3, <3>1
  <2>5. /\ InEffectOn(w[b], c) = InEffectOn(w[b], d)
        /\ InEffectOn(v[a], c) = InEffectOn(v[a], d)
        /\ InEffectOn(v[b], c) = InEffectOn(v[b], d)
    BY <1>2, <2>3, <2>4, EffectLasts
  <2>6. MonthlyEscrow(v, {a, b}, d) = MonthlyEscrow(w, {b}, d)
    <3>1. ActiveLines(one, {b}, d) = ActiveLines(w, {b}, d)
          /\ \A l \in ActiveLines(one, {b}, d) : InEffectOn(one[l], d) = InEffectOn(w[l], d)
      BY <1>2 DEF ActiveLines
    <3>2. MonthlyEscrow(one, {b}, d) = MonthlyEscrow(w, {b}, d)
      BY <3>1, MonthlySame
    <3> QED
      BY <1>1, <2>3, <3>2
  <2>7. CASE Lines = {a, b}
    <3>1. ActiveLines(v, Lines, c) = ActiveLines(v, {a, b}, d)
          /\ \A l \in ActiveLines(v, Lines, c) : InEffectOn(v[l], c) = InEffectOn(v[l], d)
      BY <2>5, <2>7 DEF ActiveLines
    <3>2. MonthlyEscrow(v, Lines, c) = MonthlyEscrow(v, {a, b}, d)
      BY <3>1, MonthlySame
    <3>3. ActiveLines(w, Lines, c) = ActiveLines(w, {b}, d)
          /\ \A l \in ActiveLines(w, Lines, c) : InEffectOn(w[l], c) = InEffectOn(w[l], d)
      BY <1>4, <2>5, <2>7 DEF ActiveLines
    <3>4. MonthlyEscrow(w, Lines, c) = MonthlyEscrow(w, {b}, d)
      BY <3>3, MonthlySame
    <3> QED
      BY <1>1, <2>6, <3>2, <3>4 DEF v
  <2>8. CASE MonthsPerYear = 1
    <3> DEFINE vc == YearOf(v, c)
               vd == YearOf(v, d)
               wc == YearOf(w, c)
               wd == YearOf(w, d)
               rest == (Lines \ {a}) \ {b}
    <3>1. /\ MonthlyEscrow(v, Lines, c) = SumFunctionOnSet(vc, Lines)
          /\ MonthlyEscrow(v, {a, b}, d) = SumFunctionOnSet(vd, {a, b})
          /\ \A l \in Lines : vc[l] \in Int /\ vd[l] \in Int
      <4>1. /\ MonthlyEscrow(v, Lines, c) = SumFunctionOnSet(YearOf(v, c), Lines)
            /\ \A l \in Lines : YearOf(v, c)[l] \in Nat
        BY <1>2, <2>8, MonthlyByTheMonth
      <4>2. /\ MonthlyEscrow(v, {a, b}, d) = SumFunctionOnSet(YearOf(v, d), {a, b})
            /\ \A l \in Lines : YearOf(v, d)[l] \in Nat
        <5>1. {a, b} \in SUBSET Lines
          OBVIOUS
        <5> QED
          BY <1>2, <2>3, <2>8, <5>1, MonthlyByTheMonth
      <4> QED
        BY <4>1, <4>2
    <3>2. /\ MonthlyEscrow(w, Lines, c) = SumFunctionOnSet(wc, Lines)
          /\ MonthlyEscrow(w, {b}, d) = SumFunctionOnSet(wd, {b})
          /\ \A l \in Lines : wc[l] \in Int /\ wd[l] \in Int
      <4>1. /\ MonthlyEscrow(w, Lines, c) = SumFunctionOnSet(YearOf(w, c), Lines)
            /\ \A l \in Lines : YearOf(w, c)[l] \in Nat
        BY <1>2, <2>8, MonthlyByTheMonth
      <4>2. /\ MonthlyEscrow(w, {b}, d) = SumFunctionOnSet(YearOf(w, d), {b})
            /\ \A l \in Lines : YearOf(w, d)[l] \in Nat
        <5>1. {b} \in SUBSET Lines
          OBVIOUS
        <5> QED
          BY <1>2, <2>3, <2>8, <5>1, MonthlyByTheMonth
      <4> QED
        BY <4>1, <4>2
    <3>3. /\ vc[a] = vd[a] /\ vc[b] = vd[b] /\ wc[b] = wd[b] /\ wc[a] = 0
          /\ \A l \in rest : vc[l] = wc[l]
      BY <1>2, <1>4, <2>5 DEF YearOf
    <3>4. IsFiniteSet(Lines) /\ IsFiniteSet(Lines \ {a}) /\ IsFiniteSet(rest) /\ IsFiniteSet({a, b})
          /\ IsFiniteSet({b})
      <4>1. IsFiniteSet(Lines)
        BY LoanAssumption
      <4>2. \A T \in SUBSET Lines : IsFiniteSet(T)
        BY <4>1, FS_Subset
      <4>3. Lines \ {a} \in SUBSET Lines /\ rest \in SUBSET Lines /\ {a, b} \in SUBSET Lines
            /\ {b} \in SUBSET Lines
        OBVIOUS
      <4> QED
        BY <4>1, <4>2, <4>3
    <3> HIDE DEF vc, vd, wc, wd, rest
    <3>5. ASSUME NEW f, \A l \in Lines : f[l] \in Int
          PROVE  SumFunctionOnSet(f, Lines) = f[a] + (f[b] + SumFunctionOnSet(f, rest))
                 /\ SumFunctionOnSet(f, rest) \in Int
      <4>1. SumFunctionOnSet(f, Lines) = f[a] + SumFunctionOnSet(f, Lines \ {a})
        BY <3>4, <3>5, SumRemove
      <4>2. SumFunctionOnSet(f, Lines \ {a}) = f[b] + SumFunctionOnSet(f, rest)
        <5>1. b \in Lines \ {a} /\ \A l \in Lines \ {a} : f[l] \in Int
          BY <1>1, <3>5
        <5> QED
          BY <3>4, <5>1, SumRemove DEF rest
      <4>3. SumFunctionOnSet(f, rest) \in Int
        <5>1. \A l \in rest : f[l] \in Int
          BY <3>5 DEF rest
        <5> QED
          BY <3>4, <5>1, SumInt
      <4> QED
        BY <4>1, <4>2, <4>3
    <3>6. SumFunctionOnSet(vd, {a, b}) = vd[a] + vd[b]
      <4>1. a \in {a, b} /\ (\A l \in {a, b} : vd[l] \in Int) /\ {a, b} \ {a} = {b}
        BY <1>1, <3>1
      <4>2. SumFunctionOnSet(vd, {a, b}) = vd[a] + SumFunctionOnSet(vd, {b})
        BY <3>4, <4>1, SumRemove
      <4>3. SumFunctionOnSet(vd, {b}) = vd[b]
        BY <3>1, <3>4, SumSingle
      <4> QED
        BY <4>2, <4>3
    <3>7. SumFunctionOnSet(wd, {b}) = wd[b]
      BY <3>2, <3>4, SumSingle
    <3>8. SumFunctionOnSet(vc, rest) = SumFunctionOnSet(wc, rest)
      BY <3>3, <3>4, SumSame
    <3>9. vd[a] + vd[b] = wd[b]
      BY <2>6, <3>1, <3>2, <3>6, <3>7
    <3>10. SumFunctionOnSet(vc, Lines) = SumFunctionOnSet(wc, Lines)
      <4>1. /\ SumFunctionOnSet(vc, Lines) = vc[a] + (vc[b] + SumFunctionOnSet(vc, rest))
            /\ SumFunctionOnSet(vc, rest) \in Int
        BY <3>1, <3>5
      <4>2. SumFunctionOnSet(wc, Lines) = wc[a] + (wc[b] + SumFunctionOnSet(wc, rest))
        BY <3>2, <3>5
      <4>3. vc[a] \in Int /\ vc[b] \in Int /\ wc[b] \in Int /\ wc[a] = 0
        BY <3>1, <3>2, <3>3
      <4>4. vc[a] + vc[b] = wc[b]
        BY <3>3, <3>9
      <4> QED
        BY <3>8, <4>1, <4>2, <4>3, <4>4
    <3>11. MonthlyEscrow(v, Lines, c) = MonthlyEscrow(w, Lines, c)
      BY <3>1, <3>2, <3>10
    <3> QED
      BY <1>1, <3>11 DEF v
  <2> QED
    BY <2>7, <2>8
<1> QED
  BY <1>5, <1>6

\* A door that leaves the escrow of every installment up to a settled payment leaves
\* the splits.
LEMMA EscrowDoorStep ==
    ASSUME SoundNow, SoundNow', configured, EscrowDoors, FactsInv,
           \A p \in Settled, c \in Nat : c <= payments[p].due =>
             MonthlyEscrow(versions, Lines, c) = MonthlyEscrow(versions', Lines, c)
    PROVE  Walk'.payment = Walk.payment
<1>1. /\ configured' = configured /\ payDay' = payDay /\ rates' = rates
      /\ statements' = statements /\ payments' = payments
  BY EscrowDoorVersions DEF OnEscrow
<1>2. Settled' = Settled /\ Resets' = Resets /\ \A p : SeenOn(p)' = SeenOn(p)
  BY <1>1 DEF Settled, Resets, SeenOn
<1>3. Stream' = Stream
  BY <1>1, <1>2 DEF Stream
<1> DEFINE s == Stream
           t == Terms
           u == Terms'
<1>4. /\ Sound(s) /\ SoundTerms(t) /\ SoundTerms(u) /\ s.payments = {RecordOf(p) : p \in Settled}
  BY <1>1 DEF SoundNow
<1>5. /\ t.payDay = u.payDay /\ t.rates = u.rates /\ t.versions = versions /\ u.versions = versions'
  BY <1>1 DEF Terms
<1>6. EscrowStands(s, t, u)
  <2>1. \A p : RecordOf(p).on = payments[p].due
    BY DEF RecordOf
  <2> HIDE DEF s, t, u
  <2> QED
    BY <1>4, <1>5, <2>1 DEF EscrowStands
<1>7. Walk = Replay(s, t, 0) /\ Walk' = Replay(s, u, 0)
  BY <1>3 DEF Walk
<1> HIDE DEF s, t, u
<1> QED
  BY <1>4, <1>5, <1>6, <1>7, SplitsStandEscrow

\* Only an escrow door changes the lines' histories.
LEMMA EscrowDoorsAlone ==
    ASSUME FactsInv, [LoanNext]_loanVars, versions' # versions
    PROVE  EscrowDoors
<1>1. loanVars' = loanVars => versions' = versions
  BY DEF loanVars, loanFacts
<1>2. StatementDoors => versions' = versions
  BY DEF StatementDoors, Configure, RecordBalance, TrackFrom, State
<1>3. TermDoors => versions' = versions
  BY DEF TermDoors, AddRate, UpdateTerms
<1>4. PaymentDoors => versions' = versions
  BY PaymentDoorRows DEF OnPayment
<1>5. NextDay => versions' = versions
  BY DEF NextDay, loanFacts
<1> QED
  BY <1>1, <1>2, <1>3, <1>4, <1>5 DEF LoanNext

\* A merge of two of three lines rounds the third's share with another sum.
Merging == \E a, b \in Lines : MergeLines(a, b)

\* No escrow door moves a split, save perhaps a merge of two of three lines.
LEMMA EscrowSplitsStand ==
    ASSUME FactsInv, FactsInv', SoundNow, SoundNow', [LoanNext]_loanVars,
           configured, versions' # versions,
           Merging => MonthsPerYear = 1 \/ \A a, b \in Lines : a # b => Lines = {a, b}
    PROVE  Walk'.payment = Walk.payment
<1>1. EscrowDoors
  BY EscrowDoorsAlone
<1>2. \A p \in Settled, c \in Nat : c <= payments[p].due =>
        MonthlyEscrow(versions, Lines, c) = MonthlyEscrow(versions', Lines, c)
  <2>1. CASE Merging
    <3>1. PICK a \in Lines, b \in Lines : MergeLines(a, b)
      BY <2>1 DEF Merging
    <3>2. MonthsPerYear = 1 \/ Lines = {a, b}
      BY <2>1, <3>1 DEF MergeLines, MergeAllowed
    <3> QED
      BY <3>1, <3>2, MergeKeepsMonths
  <2>2. CASE ~Merging
    <3>1. \A l \in Lines, d \in Days : versions'[l][d] # versions[l][d] =>
            \A p \in Settled : payments[p].due < d
      BY <1>1, <2>2, EscrowDoorsAfterPaid DEF Merging
    <3> QED
      BY <3>1, LaterVersionsStand
  <2> QED
    BY <2>1, <2>2
<1> QED
  BY <1>1, <1>2, EscrowDoorStep

\* _forward_boundary: whatever the lines and however amounts are divided, an escrow
\* line added, changed or removed moves no settled payment's split.
THEOREM EscrowChangesNeverMoveASplit ==
    LoanSpec => [][configured /\ versions' # versions /\ ~Merging
                     => Walk'.payment = Walk.payment]_loanVars
<1> DEFINE Unmoved == configured /\ versions' # versions /\ ~Merging
                        => Walk'.payment = Walk.payment
<1>1. FactsInv /\ FactsInv' /\ SoundNow /\ SoundNow' /\ [LoanNext]_loanVars => Unmoved
  BY EscrowSplitsStand
<1>2. LoanSpec => [][Unmoved]_loanVars
  <2> HIDE DEF Unmoved
  <2> QED
    BY <1>1, FactsAlwaysSound, FactsAlwaysWalk, PTL DEF LoanSpec
<1>3. [][Unmoved]_loanVars <=> [][configured /\ versions' # versions /\ ~Merging
                                    => Walk'.payment = Walk.payment]_loanVars
  OBVIOUS
<1> HIDE DEF Unmoved
<1> QED
  BY <1>2, <1>3

\* EscrowDoorsMoveNoSplit, merges included, when amounts are entered by the month or
\* a merge joins the only two lines there are.
THEOREM EscrowDoorsNeverMoveASplit ==
    ASSUME MonthsPerYear = 1 \/ \A a, b \in Lines : a # b => Lines = {a, b}
    PROVE  LoanSpec => EscrowDoorsMoveNoSplit
<1> DEFINE Unmoved == configured /\ versions' # versions => Walk'.payment = Walk.payment
<1>1. FactsInv /\ FactsInv' /\ SoundNow /\ SoundNow' /\ [LoanNext]_loanVars => Unmoved
  BY EscrowSplitsStand
<1>2. LoanSpec => [][Unmoved]_loanVars
  <2> HIDE DEF Unmoved
  <2> QED
    BY <1>1, FactsAlwaysSound, FactsAlwaysWalk, PTL DEF LoanSpec
<1>3. [][Unmoved]_loanVars <=> EscrowDoorsMoveNoSplit
  BY DEF EscrowDoorsMoveNoSplit
<1> HIDE DEF Unmoved
<1> QED
  BY <1>2, <1>3
----------------------------------------------------------------------------
(* What is planned walks behind the record.                                *)

\* Two streams of the same record, one of them with a plan.
PlanAdded(s, r) ==
    s.payments = r.payments /\ s.resets = r.resets /\ s.planned = {}

\* projection_boundary: a plan adds only charges and planned payments, all of them
\* on or after the boundary, and the record's own events all come before it.
LEMMA PlanBehind ==
    ASSUME NEW s, Sound(s), NEW r, Sound(r), PlanAdded(s, r), NEW day \in PaymentDaysInMonth
    PROVE  /\ Boundary(s) = Boundary(r) /\ Boundary(s) \in Int
           /\ \A e \in Events(s, day) : e \in Events(r, day) /\ e.at < Boundary(s)
           /\ \A e \in Events(r, day) : /\ e.at < Boundary(s) => e \in Events(s, day)
                                        /\ e \notin Events(s, day) => e.kind \in {"charge", "planned"}
           /\ \A c \in Charges(s, day) : c < Boundary(s)
<1> DEFINE last == Max(RecordedDays(s))
<1>1. /\ RecordedDays(s) = RecordedDays(r) /\ last = Max(RecordedDays(r))
      /\ Boundary(s) = last + 1 /\ Boundary(r) = last + 1
      /\ last \in Days /\ last \in Nat /\ last \in 0..last /\ s.planned = {}
      /\ \A d \in RecordedDays(s) : d < Boundary(s)
  <2>1. RecordedDays(s) = RecordedDays(r)
    BY DEF PlanAdded, RecordedDays
  <2>2. last \in Days /\ \A d \in RecordedDays(s) : d < Boundary(s)
    BY RecordedFacts
  <2>3. last \in Nat
    BY <2>2, DaysFinite
  <2> HIDE DEF last
  <2>4. Boundary(s) = last + 1 /\ Boundary(r) = last + 1
    BY <2>1 DEF last, Boundary
  <2> QED
    BY <2>1, <2>2, <2>3, <2>4 DEF last, PlanAdded
<1>2. /\ Charges(s, day) = Installments(day, last)
      /\ Installments(day, last) = {c \in Charges(r, day) : c <= last}
      /\ \A c \in Charges(r, day) : c \in Nat
  <2>1. Charges(s, day) = Installments(day, last)
    BY <1>1, ChargeFacts
  <2>2. /\ \A through \in 0..Max(RecordedDays(r)) :
             Installments(day, through) = {c \in Charges(r, day) : c <= through}
        /\ \A c \in Charges(r, day) : c \in Nat
    BY ChargeFacts
  <2> HIDE DEF last
  <2> QED
    BY <1>1, <2>1, <2>2
<1> HIDE DEF last
<1>3. \A c : c \in Charges(s, day) <=> c \in Charges(r, day) /\ c < last + 1
  BY <1>1, <1>2
<1>4. /\ PaymentEvents(s) = PaymentEvents(r) /\ ResetEvents(s) = ResetEvents(r)
      /\ PlannedEvents(s) = {}
      /\ \A e : e \in ChargeEvents(s, day) <=> e \in ChargeEvents(r, day) /\ e.at < last + 1
  <2>1. \A e : e \in ChargeEvents(s, day) <=> e \in ChargeEvents(r, day) /\ e.at < last + 1
    <3>1. \A c : Event("charge", c, c, 0, 0).at = c
      BY DEF Event
    <3> QED
      BY <1>3, <3>1 DEF ChargeEvents
  <2>2. PaymentEvents(s) = PaymentEvents(r) /\ ResetEvents(s) = ResetEvents(r)
    BY DEF PlanAdded, PaymentEvents, ResetEvents
  <2>3. PlannedEvents(s) = {}
    BY <1>1 DEF PlannedEvents
  <2> QED
    BY <2>1, <2>2, <2>3
<1>5. \A e \in PaymentEvents(s) \cup ResetEvents(s) : e.at < last + 1
  <2>1. ASSUME NEW e \in PaymentEvents(s)
        PROVE  e.at < last + 1
    <3>1. PICK p \in s.payments : e.on = p.on /\ e.at = p.on
      BY <2>1, EventsByKind
    <3>2. p.on \in RecordedDays(s)
      BY <3>1 DEF RecordedDays
    <3> QED
      BY <1>1, <3>1, <3>2
  <2>2. ASSUME NEW e \in ResetEvents(s)
        PROVE  e.at < last + 1
    <3>1. PICK p \in s.resets : e.on = p.on /\ e.at = p.on
      BY <2>2, EventsByKind
    <3>2. p.on \in RecordedDays(s)
      BY <3>1 DEF RecordedDays
    <3> QED
      BY <1>1, <3>1, <3>2
  <2> QED
    BY <2>1, <2>2
<1>6. /\ Events(s, day) = ChargeEvents(s, day) \cup PaymentEvents(s) \cup ResetEvents(s)
                            \cup PlannedEvents(s)
      /\ Events(r, day) = ChargeEvents(r, day) \cup PaymentEvents(r) \cup ResetEvents(r)
                            \cup PlannedEvents(r)
      /\ \A e \in ChargeEvents(r, day) : e.kind = "charge"
      /\ \A e \in PlannedEvents(r) : e.kind = "planned" /\ e.at >= last + 1 /\ e.at \in Int
  <2>1. /\ Events(s, day) = ChargeEvents(s, day) \cup PaymentEvents(s) \cup ResetEvents(s)
                              \cup PlannedEvents(s)
        /\ Events(r, day) = ChargeEvents(r, day) \cup PaymentEvents(r) \cup ResetEvents(r)
                              \cup PlannedEvents(r)
    BY EventsByKind
  <2>2. \A e \in ChargeEvents(r, day) : e.kind = "charge"
    BY EventsByKind
  <2>3. \A e \in PlannedEvents(r) : e \in EventType /\ e.kind = "planned" /\ e.at >= Boundary(r)
    BY EventsByKind
  <2> QED
    BY <1>1, <2>1, <2>2, <2>3 DEF EventType
<1>7. \A e \in Events(s, day) : e \in Events(r, day) /\ e.at < last + 1
  BY <1>4, <1>5, <1>6
<1>8. \A e \in Events(r, day) : /\ e.at < last + 1 => e \in Events(s, day)
                                /\ e \notin Events(s, day) => e.kind \in {"charge", "planned"}
  <2>1. \A e \in PlannedEvents(r) : ~(e.at < last + 1)
    BY <1>1, <1>6
  <2> QED
    BY <1>4, <1>6, <2>1
<1>9. \A c \in Charges(s, day) : c < last + 1
  BY <1>3
<1> QED
  BY <1>1, <1>7, <1>8, <1>9

\* merged_stream: with the plan behind it, the record is walked in the same order.
LEMMA PlanOrder ==
    ASSUME NEW s, Sound(s), NEW r, Sound(r), PlanAdded(s, r), NEW day \in PaymentDaysInMonth
    PROVE  LET o == Ordered(s, day)
               w == Ordered(r, day)
           IN  /\ Len(o) \in Nat /\ Len(w) \in Nat /\ Len(o) <= Len(w)
               /\ SameOrder(o, w, Len(o))
               /\ \A i \in 1..Len(w) : i > Len(o) => w[i].kind \in {"charge", "planned"}
<1> DEFINE E == Events(s, day)
           F == Events(r, day)
<1>1. /\ Ordered(s, day) = InPlace(E) /\ Ordered(r, day) = InPlace(F)
      /\ Orderly(E) /\ Orderly(F)
  BY OrderFacts
<1>2. /\ Boundary(s) \in Int
      /\ \A e \in E : e \in F /\ e.at < Boundary(s)
      /\ \A e \in F : /\ e.at < Boundary(s) => e \in E
                      /\ e \notin E => e.kind \in {"charge", "planned"}
  BY PlanBehind
<1> HIDE DEF E, F
<1>3. E \in SUBSET F
  BY <1>2
<1>4. ASSUME NEW e \in E, NEW f \in F, Before(f, e)
      PROVE  f \in E
  <2>1. e.at \in Int /\ f.at \in Int
    BY <1>1, <1>2 DEF Orderly, EventType
  <2>2. f.at <= e.at
    BY <1>4, <2>1 DEF Before
  <2>3. e.at < Boundary(s)
    BY <1>2
  <2>4. f.at < Boundary(s)
    BY <1>2, <2>1, <2>2, <2>3
  <2> QED
    BY <1>2, <2>4
<1>5. /\ Len(InPlace(E)) \in Nat /\ Len(InPlace(F)) \in Nat /\ Len(InPlace(E)) <= Len(InPlace(F))
      /\ \A i \in 1..Len(InPlace(E)) : InPlace(E)[i] = InPlace(F)[i]
      /\ \A i \in 1..Len(InPlace(F)) : i > Len(InPlace(E)) => InPlace(F)[i] \in F \ E
  BY <1>1, <1>3, <1>4, InitialPart
<1>6. \A i \in 1..Len(InPlace(F)) : i > Len(InPlace(E)) => InPlace(F)[i].kind \in {"charge", "planned"}
  BY <1>2, <1>5
<1>7. SameOrder(InPlace(E), InPlace(F), Len(InPlace(E)))
  BY <1>5 DEF SameOrder
<1> QED
  BY <1>1, <1>5, <1>6, <1>7

\* What a walk has recorded and owes the debt.
SameRecord(st, next) ==
    st.payment = next.payment /\ st.reset = next.reset

\* No cash comes after n, up to m.
ChargesAndStatements(o, n, m) ==
    \A i \in 1..m : n < i => o[i].kind \in {"charge", "reset"}

\* Behind the last payment a charge or a statement records the same whatever is due.
LEMMA RecordsAgree ==
    ASSUME NEW s, Sound(s), NEW t, SoundTerms(t), NEW x \in Nat,
           NEW r, Sound(r), NEW y \in Nat,
           NEW n \in Nat, NEW m \in Nat, n <= m,
           m <= Len(Ordered(s, t.payDay)), m <= Len(Ordered(r, t.payDay)),
           SameOrder(Ordered(s, t.payDay), Ordered(r, t.payDay), m),
           ChargesAndStatements(Ordered(s, t.payDay), n, m),
           WalkOf(s, t, x)[n] = WalkOf(r, t, y)[n]
    PROVE  SameRecord(WalkOf(s, t, x)[m], WalkOf(r, t, y)[m])
<1> DEFINE o == Ordered(s, t.payDay)
           w == Ordered(r, t.payDay)
           V == WalkOf(s, t, x)
           W == WalkOf(r, t, y)
           Same(k) == SameRecord(V[k], W[k]) /\ V[k].balance = W[k].balance
           P == {k \in 0..m : n <= k => Same(k)}
<1>1. Len(o) \in Nat /\ Len(w) \in Nat
  BY ReplayRecords
<1>2. 0 \in P
  <2>1. n <= 0 => n = 0
    OBVIOUS
  <2>2. 0 \in 0..m
    OBVIOUS
  <2> QED
    BY <2>1, <2>2 DEF SameRecord
<1>3. ASSUME NEW k \in 0..m, k # m, n <= k, Same(k)
      PROVE  Same(k + 1)
  <2> DEFINE i == k + 1
             e == o[i]
  <2>1. i \in 1..Len(o) /\ i \in 1..Len(w) /\ i \in 1..m /\ i - 1 = k /\ n < i
    BY <1>1, <1>3
  <2>2. w[i] = e /\ e.kind \in {"charge", "reset"}
    BY <2>1 DEF SameOrder, ChargesAndStatements
  <2>3. Stepped(s, t, x, o, V, i) /\ Stepped(r, t, y, w, W, i)
    BY <2>1, WalkSteps
  <2> HIDE DEF o, w, V, W, i
  <2>4. CASE e.kind = "charge"
    <3>1. V[i].balance = V[k].balance /\ V[i].payment = V[k].payment /\ V[i].reset = V[k].reset
      BY <2>1, <2>3, <2>4 DEF Stepped
    <3>2. W[i].balance = W[k].balance /\ W[i].payment = W[k].payment /\ W[i].reset = W[k].reset
      BY <2>1, <2>2, <2>3, <2>4 DEF Stepped
    <3>3. Same(i)
      BY <1>3, <3>1, <3>2 DEF SameRecord
    <3> QED
      BY <3>3 DEF i
  <2>5. CASE e.kind = "reset"
    <3>1. /\ V[i].balance = e.figure /\ V[i].payment = V[k].payment
          /\ V[i].reset = Noted(V[k].reset, e.who, V[k].balance)
      BY <2>1, <2>3, <2>5 DEF Stepped
    <3>2. /\ W[i].balance = e.figure /\ W[i].payment = W[k].payment
          /\ W[i].reset = Noted(W[k].reset, e.who, W[k].balance)
      BY <2>1, <2>2, <2>3, <2>5 DEF Stepped
    <3>3. Same(i)
      BY <1>3, <3>1, <3>2 DEF SameRecord
    <3> QED
      BY <3>3 DEF i
  <2> HIDE DEF e
  <2> QED
    BY <2>2, <2>4, <2>5
<1>4. ASSUME NEW k \in 0..m, k # m, k \in P
      PROVE  k + 1 \in P
  <2> HIDE DEF Same
  <2>1. k + 1 \in 0..m
    BY <1>4
  <2>2. CASE n <= k
    <3>1. Same(k)
      BY <1>4, <2>2
    <3>2. Same(k + 1)
      BY <1>3, <1>4, <2>2, <3>1
    <3> QED
      BY <2>1, <3>2
  <2>3. CASE ~(n <= k)
    <3>1. n <= k + 1 => n = k + 1
      BY <2>3
    <3>2. Same(n)
      BY DEF Same, SameRecord
    <3> QED
      BY <2>1, <3>1, <3>2
  <2> QED
    BY <2>2, <2>3
<1>5. \A k \in 0..m : k \in P
  <2> HIDE DEF P
  <2> QED
    BY <1>2, <1>4, UpTo
<1>6. m \in P
  BY <1>5
<1> QED
  BY <1>6

\* Nothing planned records anything.
LEMMA PlanRecordsNothing ==
    ASSUME NEW r, Sound(r), NEW t, SoundTerms(t), NEW y \in Nat,
           NEW n \in 0..Len(Ordered(r, t.payDay)),
           \A i \in 1..Len(Ordered(r, t.payDay)) :
             i > n => Ordered(r, t.payDay)[i].kind \in {"charge", "planned"}
    PROVE  SameRecord(Replay(r, t, y), WalkOf(r, t, y)[n])
<1> DEFINE o == Ordered(r, t.payDay)
           W == WalkOf(r, t, y)
           N == Len(o)
           Same(k) == SameRecord(W[k], W[n])
           P == {k \in 0..N : n <= k => Same(k)}
<1>1. N \in Nat /\ Replay(r, t, y) = W[N] /\ n \in Nat /\ n <= N
  BY ReplayRecords
<1> HIDE DEF N
<1>2. 0 \in P
  <2>1. n <= 0 => n = 0
    BY <1>1
  <2> QED
    BY <1>1, <2>1 DEF SameRecord
<1>3. ASSUME NEW k \in 0..N, k # N, n <= k, Same(k)
      PROVE  Same(k + 1)
  <2> DEFINE i == k + 1
  <2>1. i \in 1..N /\ i - 1 = k /\ i > n
    BY <1>1, <1>3
  <2>2. o[i].kind \in {"charge", "planned"}
    BY <2>1 DEF N
  <2>3. Stepped(r, t, y, o, W, i)
    BY <2>1, WalkSteps DEF N
  <2> HIDE DEF o, W, i
  <2>4. W[i].payment = W[k].payment /\ W[i].reset = W[k].reset
    BY <2>1, <2>2, <2>3 DEF Stepped
  <2>5. Same(i)
    BY <1>3, <2>4 DEF SameRecord
  <2> QED
    BY <2>5 DEF i
<1>4. ASSUME NEW k \in 0..N, k # N, k \in P
      PROVE  k + 1 \in P
  <2> HIDE DEF Same
  <2>1. k + 1 \in 0..N
    BY <1>1, <1>4
  <2>2. CASE n <= k
    <3>1. Same(k)
      BY <1>4, <2>2
    <3>2. Same(k + 1)
      BY <1>3, <1>4, <2>2, <3>1
    <3> QED
      BY <2>1, <3>2
  <2>3. CASE ~(n <= k)
    <3>1. n <= k + 1 => n = k + 1
      BY <1>1, <2>3
    <3>2. Same(n)
      BY DEF Same, SameRecord
    <3> QED
      BY <2>1, <3>1, <3>2
  <2> QED
    BY <2>2, <2>3
<1>5. \A k \in 0..N : k \in P
  <2> HIDE DEF P
  <2> QED
    BY <1>1, <1>2, <1>4, UpTo
<1>6. N \in P
  BY <1>1, <1>5
<1> QED
  BY <1>1, <1>6

\* A plan moves nothing the record says, whatever extra it adds to each month.
LEMMA PlanStands ==
    ASSUME NEW s, Sound(s), NEW r, Sound(r), PlanAdded(s, r), NEW t, SoundTerms(t), NEW x \in Nat
    PROVE  SameRecord(Replay(r, t, x), Replay(s, t, 0))
<1> DEFINE day == t.payDay
           o == Ordered(s, day)
           w == Ordered(r, day)
           N == Len(o)
<1>1. day \in PaymentDaysInMonth /\ s.resets = r.resets /\ s.planned = {}
  BY DEF SoundTerms, PlanAdded
<1>2. /\ N \in Nat /\ Len(w) \in Nat /\ N <= Len(w) /\ SameOrder(o, w, N)
      /\ \A i \in 1..Len(w) : i > N => w[i].kind \in {"charge", "planned"}
  BY <1>1, PlanOrder
<1>3. PICK n \in 0..N : /\ n = 0 \/ (n \in 1..N /\ o[n].kind = "payment")
                        /\ \A i \in 1..N : n < i => o[i].kind # "payment"
  BY <1>1, LastPayment
<1>4. n \in Nat /\ n <= N /\ n <= Len(w) /\ SameOrder(o, w, n)
  BY <1>2, <1>3 DEF SameOrder
<1>5. ChargesAndStatements(o, n, N)
  <2>1. ASSUME NEW i \in 1..N
        PROVE  o[i].kind \in {"charge", "payment", "reset"}
    <3>1. /\ o[i].kind \in {"charge", "payment", "planned", "reset"}
          /\ o[i].kind = "planned" <=> o[i] \in PlannedEvents(s)
      BY <1>1, <2>1, KindFacts
    <3>2. o[i] \notin PlannedEvents(s)
      BY <1>1 DEF PlannedEvents
    <3> QED
      BY <3>1, <3>2
  <2> HIDE DEF o, N
  <2> QED
    BY <1>3, <2>1 DEF ChargesAndStatements
<1>6. SameRecharges(s, o, r, w, n)
  <2>1. n = 0 \/ Pays(o[n])
    BY <1>3 DEF Pays
  <2> HIDE DEF o, w
  <2> QED
    BY <1>1, <1>2, <1>4, <2>1, RechargesDecided
<1>7. SameCharges(s, t, 0, r, t, x, o, n)
  <2> SUFFICES ASSUME NEW i \in 1..n, o[i].kind = "charge", NEW balance \in Int
               PROVE  Accrued(t, Boundary(s), 0, o[i].on, balance)
                        = Accrued(t, Boundary(r), x, o[i].on, balance)
    BY DEF SameCharges
  <2>1. i \in 1..N
    BY <1>2, <1>4
  <2>2. o[i] \in ChargeEvents(s, day) /\ o[i].on \in Nat
    BY <1>1, <2>1, KindFacts
  <2>3. o[i].on \in Charges(s, day)
    BY <1>1, <2>2, EventsByKind
  <2>4. Boundary(s) = Boundary(r) /\ Boundary(s) \in Int /\ o[i].on < Boundary(s)
    BY <1>1, <2>3, PlanBehind
  <2>5. ~(o[i].on >= Boundary(s))
    BY <2>2, <2>4
  <2> QED
    BY <2>4, <2>5 DEF Accrued
<1>8. WalkOf(s, t, 0)[n] = WalkOf(r, t, x)[n]
  <2>1. \A k \in 0..n : WalkOf(s, t, 0)[k] = WalkOf(r, t, x)[k]
    BY <1>1, <1>4, <1>6, <1>7, WalksAgree
  <2> QED
    BY <1>4, <2>1
<1>9. SameRecord(WalkOf(s, t, 0)[N], WalkOf(r, t, x)[N])
  BY <1>2, <1>4, <1>5, <1>8, RecordsAgree
<1>10. Replay(s, t, 0) = WalkOf(s, t, 0)[N]
  BY ReplayRecords
<1>11. SameRecord(Replay(r, t, x), WalkOf(r, t, x)[N])
  <2>1. N \in 0..Len(w)
    BY <1>2
  <2> QED
    BY <1>2, <2>1, PlanRecordsNothing
<1> QED
  BY <1>9, <1>10, <1>11 DEF SameRecord

\* The plan's rows and estimates are told apart by their number and their day.
LEMMA PlannedSound ==
    ASSUME FactsInv, SoundNow, configured
    PROVE  /\ IsFiniteSet(Planned(today))
           /\ Planned(today) \subseteq [who : Nat, on : Nat, cash : Nat, seen : Nat]
           /\ \A p, q \in Planned(today) : p.who = q.who /\ p.on = q.on => p = q
<1> DEFINE rows == {p \in Payments : payments[p].status = "planned" /\ payments[p].place = "loan"}
           dues == {payments[p].due : p \in rows \cup Settled}
           covered == {InstallmentPaidBy(payDay, due) : due \in dues}
           I == Installments(payDay, LastDay + MonthLength)
           lastStated == Max({r.on : r \in Resets})
           estimated == {c \in I : c >= today /\ c \notin covered}
           seen(due) == Max({due, today + 1})
           event(who, due) == [who |-> who, on |-> due, cash |-> PlannedCash, seen |-> seen(due)]
           guess == Max(Payments \cup {0}) + 1
           R == {q \in rows : payments[q].due > lastStated}
           C == {c \in estimated : c > lastStated}
           A == {event(p, payments[p].due) : p \in R}
           B == {event(guess, c) : c \in C}
<1>1. Planned(today) = A \cup B
  BY DEF Planned
<1>2. /\ today \in Nat /\ PlannedCash \in Nat /\ payDay \in PaymentDaysInMonth
      /\ \A p \in Payments : p \in Nat /\ p \in Int /\ payments[p].due \in Nat
      /\ IsFiniteSet(Payments)
  <2>1. /\ today \in Days /\ payDay \in PayDays
        /\ \A p \in Payments : payments[p].due \in DueDays \cup {0}
    BY DEF FactsInv, FactsTyped
  <2>2. PayDays \subseteq PaymentDaysInMonth
    BY BooksAssumption DEF PaymentDaysInMonth
  <2>3. \A d \in DueDays : d \in Nat
    BY DaysTyped, DaysFinite
  <2>4. \A p \in Payments : p \in Nat
    BY BooksAssumption
  <2> QED
    BY <2>1, <2>2, <2>3, <2>4, BooksAssumption, DaysFinite
<1>3. guess \in Nat /\ \A p \in Payments : p # guess
  <2> DEFINE S == Payments \cup {0}
  <2>1. IsFiniteSet(S) /\ S # {} /\ S \in SUBSET Int /\ \A p \in S : p \in Nat
    <3>1. IsFiniteSet({0})
      BY FS_Singleton
    <3>2. IsFiniteSet(Payments \cup {0})
      BY <1>2, <3>1, FS_Union
    <3> QED
      BY <1>2, <3>2
  <2> HIDE DEF S
  <2>2. Max(S) \in S /\ \A p \in S : p <= Max(S)
    BY <2>1, MaxFacts
  <2> DEFINE top == Max(S)
  <2>3. top \in Nat /\ \A p \in S : p <= top /\ p \in Nat
    BY <2>1, <2>2
  <2> HIDE DEF top
  <2>4. top + 1 \in Nat /\ \A p \in S : p # top + 1
    BY <2>3
  <2> QED
    BY <2>4 DEF top, S
<1>4. ASSUME NEW due \in Nat
      PROVE  seen(due) \in Nat
  <2> DEFINE S == {due, today + 1}
  <2>1. IsFiniteSet(S) /\ S # {} /\ S \in SUBSET Int /\ \A d \in S : d \in Nat
    <3>1. IsFiniteSet({due} \cup {today + 1})
      BY FS_Singleton, FS_Union
    <3>2. S = {due} \cup {today + 1}
      OBVIOUS
    <3>3. today + 1 \in Nat
      BY <1>2
    <3>4. \A d \in S : d \in Nat /\ d \in Int
      BY <1>4, <3>3
    <3>5. due \in S
      OBVIOUS
    <3> HIDE DEF S
    <3>6. IsFiniteSet(S)
      BY <3>1, <3>2
    <3> QED
      BY <3>4, <3>5, <3>6
  <2> HIDE DEF S
  <2>2. Max(S) \in S
    BY <2>1, MaxFacts
  <2>3. Max(S) \in Nat
    BY <2>1, <2>2
  <2> QED
    BY <2>3 DEF S
<1>5. IsFiniteSet(I) /\ \A c \in I : c \in Nat
  <2>1. LastDay + MonthLength \in Nat
    BY LoanAssumption
  <2>2. payDay \in 0..(MonthLength - 1)
    BY <1>2 DEF PaymentDaysInMonth
  <2> QED
    BY <2>1, <2>2, InstallmentFacts
<1> HIDE DEF I, guess, lastStated, seen, rows, covered
<1>6. /\ R \in SUBSET Payments /\ C \in SUBSET I
  <2>1. rows \in SUBSET Payments
    BY DEF rows
  <2> QED
    BY <2>1
<1>7. IsFiniteSet(R) /\ IsFiniteSet(C) /\ \A c \in C : c \in Nat
  BY <1>2, <1>5, <1>6, FS_Subset
<1> HIDE DEF R, C
<1>8. IsFiniteSet(A) /\ IsFiniteSet(B)
  <2> DEFINE f == [p \in R |-> event(p, payments[p].due)]
             g == [c \in C |-> event(guess, c)]
  <2>1. A = {f[p] : p \in R} /\ B = {g[c] : c \in C}
    OBVIOUS
  <2> HIDE DEF f, g, A, B
  <2>2. IsFiniteSet({f[p] : p \in R}) /\ IsFiniteSet({g[c] : c \in C})
    BY <1>7, ImageFinite
  <2> QED
    BY <2>1, <2>2
<1>9. \A e \in A : \E p \in Payments : e = event(p, payments[p].due)
  BY <1>6
<1>10. \A e \in B : \E c \in Nat : e = event(guess, c)
  BY <1>7
<1> HIDE DEF A, B
<1>11. IsFiniteSet(A \cup B)
  BY <1>8, FS_Union
<1>12. ASSUME NEW e \in A \cup B
       PROVE  e \in [who : Nat, on : Nat, cash : Nat, seen : Nat]
  BY <1>2, <1>3, <1>4, <1>9, <1>10
<1>13. ASSUME NEW e \in A \cup B, NEW f \in A \cup B, e.who = f.who, e.on = f.on
       PROVE  e = f
  <2>1. \A g \in A \cup B : \E who, due : g = event(who, due)
    BY <1>9, <1>10
  <2>2. PICK who, due : e = event(who, due)
    BY <2>1
  <2>3. PICK who2, due2 : f = event(who2, due2)
    BY <2>1
  <2> QED
    BY <1>13, <2>2, <2>3
<1> QED
  BY <1>1, <1>11, <1>12, <1>13

\* merged_stream: today's facts with the plan appended are a stream to replay.
LEMMA MergedSound ==
    ASSUME FactsInv, SoundNow, configured
    PROVE  Sound(Merged(today)) /\ PlanAdded(Stream, Merged(today))
<1> DEFINE s == Stream
           r == Merged(today)
<1>1. /\ r.payments = s.payments /\ r.resets = s.resets /\ r.planned = Planned(today)
  BY DEF Merged, Stream
<1>2. Sound(s) /\ s.planned = {}
  BY DEF SoundNow
<1>3. /\ IsFiniteSet(Planned(today))
      /\ Planned(today) \subseteq [who : Nat, on : Nat, cash : Nat, seen : Nat]
      /\ \A p, q \in Planned(today) : p.who = q.who /\ p.on = q.on => p = q
  BY PlannedSound
<1> HIDE DEF s, r
<1>4. Sound(r)
  BY <1>1, <1>2, <1>3 DEF Sound
<1>5. PlanAdded(s, r)
  BY <1>1, <1>2 DEF PlanAdded
<1> QED
  BY <1>4, <1>5 DEF s, r

\* PlanLeavesTheRecordAlone: merged_stream walks every planned payment behind the
\* recorded facts, so no plan and no what-if re-splits what is posted.
THEOREM PlanAlwaysLeavesTheRecordAlone == LoanSpec => []PlanLeavesTheRecordAlone
<1>1. FactsInv /\ SoundNow => PlanLeavesTheRecordAlone
  <2> SUFFICES ASSUME FactsInv, SoundNow, configured, NEW extra \in {0, 1}
               PROVE  SameRecord(Replay(Merged(today), Terms, extra), Walk)
    BY DEF PlanLeavesTheRecordAlone, SameRecord
  <2>1. Sound(Stream) /\ SoundTerms(Terms) /\ extra \in Nat
    BY DEF SoundNow
  <2>2. Sound(Merged(today)) /\ PlanAdded(Stream, Merged(today))
    BY MergedSound
  <2> QED
    BY <2>1, <2>2, PlanStands DEF Walk
<1> QED
  BY <1>1, FactsAlwaysSound, FactsAlwaysWalk, PTL
=============================================================================
