------------------------ MODULE RequestTransactions ------------------------
(***************************************************************************)
(* The database transactions of a web request, and the owner write lock.   *)
(*                                                                         *)
(* app/db_transaction.py decides, for every transaction a request opens,   *)
(* whether it is one read-only snapshot (GET, HEAD: a QUERY) or a writable  *)
(* READ COMMITTED transaction (a COMMAND), binds the audit actor on it and  *)
(* takes the owner's advisory lock (services/user_write_lock.py).  Signing  *)
(* in and the deploy reconciles take the same lock by their own doors.      *)
(*                                                                         *)
(* What the lock protects is abstracted to two pieces of owner state:       *)
(*   facts[o]   the rows a handler edits (a transaction, an anchor, ...);   *)
(*   posted[o]  the net of the append-only ledger, which every handler      *)
(*              brings back to Target(facts[o]) by appending the DELTA      *)
(*              Target - posted, both read in earlier statements;           *)
(* and one piece of user state, userRow[u], a counter the sign-in and       *)
(* password doors update by read-modify-write (failed_login_count).         *)
(***************************************************************************)
EXTENDS Integers, FiniteSets

CONSTANTS
    Threads,        \* gunicorn worker threads, each serving one request at a time
    Deployers,      \* processes that run the deploy reconciles
    Users,          \* auth.users ids
    OwnerOf,        \* User.data_owner_id: whose data the user acts on
    Rows,           \* an owner's fact rows
    Values,         \* values a fact row may take
    Target(_),      \* what the ledger must net to, given an owner's facts
    NoOwner,        \* data_owner_id is None
    NoProc,         \* an advisory lock nobody holds
    MaxWork,        \* bound: writes and commits one request makes
    MaxCount        \* bound: value of the user-row counter

Procs == Threads \cup Deployers

ASSUME UsersAssumption == Users \subseteq Nat /\ IsFiniteSet(Users)
ASSUME OwnerAssumption == /\ NoOwner \notin Users
                          /\ OwnerOf \in [Users -> Users \cup {NoOwner}]
ASSUME ProcAssumption == /\ NoProc \notin Procs
                         /\ Threads \cap Deployers = {}
ASSUME ValuesAssumption == Values \subseteq Nat /\ 0 \in Values
ASSUME TargetAssumption == \A f \in [Rows -> Values] : Target(f) \in Int
ASSUME BoundAssumption == MaxWork \in Nat /\ MaxCount \in Nat

Unset == -1         \* a row, counter or figure that is not set
Nobody == -1        \* no user

VARIABLES
    \* committed database
    facts, posted, userRow,
    tally,          \* history: how often each user row was updated by a commit
    \* the database's table of advisory locks
    lock,           \* owner -> the process holding its advisory lock
    \* the request: program counter and the keys of flask.g
    pc, mode, user, actor, pending, armed, block, left,
    \* the open transaction
    inTx, txActor, snap, staged, delta, bumped,
    \* Python memory of the handler and its ORM session
    pend, cached, goal, subject, seenFacts, seenPosted, todo

db == <<facts, posted, userRow, tally>>
request == <<user, actor, pending, armed>>
tx == <<inTx, txActor, snap, staged, delta, bumped>>
reads == <<seenFacts, seenPosted>>
recon == <<goal, subject, todo>>
vars == <<db, lock, pc, mode, request, block, left, tx, pend, cached,
          recon, reads>>

NothingStaged == [w \in Rows |-> Unset]
NoDelta == [o \in Users |-> 0]

\* The facts a transaction of p reads: committed rows under its own writes.
Overlay(p, o) == [w \in Rows |->
    IF o = armed[p] /\ staged[p][w] # Unset THEN staged[p][w] ELSE facts[o][w]]

\* A row written and not yet committed is locked by the transaction of its writer.
HoldsRow(q, o, w) == armed[q] = o /\ staged[q][w] # Unset

\* The row of its owner p is about to write is not locked by another.
RowFree(p, w) == \A q \in Procs \ {p} : ~HoldsRow(q, armed[p], w)

\* The snapshot a query's transaction reads from.
Snapshot == [facts |-> facts, posted |-> posted]
NoSnapshot == [facts |-> <<>>, posted |-> <<>>]

(***************************************************************************)
(* Transactions.                                                           *)
(***************************************************************************)

\* The advisory lock is reentrant for the transaction that holds it.
LockFree(p, o) == lock[o] \in {NoProc, p}

\* take_owner_write_lock: pg_advisory_xact_lock, held until the transaction ends.
TakeOwnerLock(p, o) == LockFree(p, o) /\ lock' = [lock EXCEPT ![o] = p]

\* Mutant of EndTx: a session-level advisory lock, which no commit releases.
EndTxKeepsLock(p) ==
    /\ inTx' = [inTx EXCEPT ![p] = FALSE]
    /\ txActor' = [txActor EXCEPT ![p] = Nobody]
    /\ snap' = [snap EXCEPT ![p] = NoSnapshot]
    /\ staged' = [staged EXCEPT ![p] = NothingStaged]
    /\ delta' = [delta EXCEPT ![p] = NoDelta]
    /\ bumped' = [bumped EXCEPT ![p] = Unset]
    /\ pend' = [pend EXCEPT ![p] = {}]
    /\ cached' = [cached EXCEPT ![p] = Unset]
    /\ seenFacts' = [seenFacts EXCEPT ![p] = {}]
    /\ seenPosted' = [seenPosted EXCEPT ![p] = {}]
    /\ UNCHANGED lock

\* The end of a transaction, however it ends: its locks are released, the ORM
\* session expires every row it holds and what was not committed is gone.
EndTx(p) ==
    /\ lock' = [o \in Users |-> IF lock[o] = p THEN NoProc ELSE lock[o]]
    /\ inTx' = [inTx EXCEPT ![p] = FALSE]
    /\ txActor' = [txActor EXCEPT ![p] = Nobody]
    /\ snap' = [snap EXCEPT ![p] = NoSnapshot]
    /\ staged' = [staged EXCEPT ![p] = NothingStaged]
    /\ delta' = [delta EXCEPT ![p] = NoDelta]
    /\ bumped' = [bumped EXCEPT ![p] = Unset]
    /\ pend' = [pend EXCEPT ![p] = {}]
    /\ cached' = [cached EXCEPT ![p] = Unset]
    /\ seenFacts' = [seenFacts EXCEPT ![p] = {}]
    /\ seenPosted' = [seenPosted EXCEPT ![p] = {}]

\* Mutant of BeginTx: only the request's first transaction is locked.
BeginTxUnlocked(p) ==
    /\ ~inTx[p]
    /\ inTx' = [inTx EXCEPT ![p] = TRUE]
    /\ snap' = [snap EXCEPT ![p] = IF mode[p] = "query" THEN Snapshot ELSE @]
    /\ txActor' = [txActor EXCEPT ![p] = IF mode[p] = "query" THEN @ ELSE actor[p]]
    /\ UNCHANGED <<lock, staged, delta, bumped>>

\* Mutant of BeginTx: only the request's first transaction is told its actor.
BeginTxNoActor(p) ==
    /\ ~inTx[p]
    /\ inTx' = [inTx EXCEPT ![p] = TRUE]
    /\ snap' = [snap EXCEPT ![p] = IF mode[p] = "query" THEN Snapshot ELSE @]
    /\ IF mode[p] = "query" \/ armed[p] = NoOwner THEN UNCHANGED lock
                                                 ELSE TakeOwnerLock(p, armed[p])
    /\ UNCHANGED <<txActor, staged, delta, bumped>>

\* _bind_transaction_mode: the first statement of a transaction.  A query gets
\* its snapshot; a command's transaction is told its actor and, before any
\* other statement of it, takes the lock of the armed owner.
BeginTx(p) ==
    /\ ~inTx[p]
    /\ inTx' = [inTx EXCEPT ![p] = TRUE]
    /\ IF mode[p] = "query"
       THEN /\ snap' = [snap EXCEPT ![p] = Snapshot]
            /\ UNCHANGED <<txActor, lock>>
       ELSE /\ txActor' = [txActor EXCEPT ![p] = actor[p]]
            /\ IF armed[p] = NoOwner THEN UNCHANGED lock
                                     ELSE TakeOwnerLock(p, armed[p])
            /\ UNCHANGED snap
    /\ UNCHANGED <<staged, delta, bumped>>

\* Mutant of LockOpenTx: the user row read before the lock is kept.
LockOpenTxKeepsRow(p, o) ==
    /\ IF o # NoOwner /\ mode[p] = "command" /\ inTx[p]
       THEN TakeOwnerLock(p, o)
       ELSE UNCHANGED lock
    /\ armed' = [armed EXCEPT ![p] = IF o = NoOwner THEN @ ELSE o]
    /\ UNCHANGED cached

\* _lock_the_open_transaction: lock the command transaction open now, expire
\* the user row read before the lock, and arm every later transaction.
LockOpenTx(p, o) ==
    IF o = NoOwner
    THEN UNCHANGED <<lock, cached, armed>>
    ELSE /\ IF mode[p] = "command" /\ inTx[p]
            THEN /\ TakeOwnerLock(p, o)
                 /\ cached' = [cached EXCEPT ![p] = Unset]
            ELSE UNCHANGED <<lock, cached>>
         /\ armed' = [armed EXCEPT ![p] = o]

(***************************************************************************)
(* A request, from dispatch to the handler.                                *)
(***************************************************************************)

\* _open_this_request_s_own_transaction: the method decides the kind.  The
\* session cookie names the signed-in user, or nobody.
StartRequest(p) ==
    /\ pc[p] = "idle"
    /\ \E m \in {"query", "command"}, u \in Users \cup {Nobody} :
          /\ mode' = [mode EXCEPT ![p] = m]
          /\ user' = [user EXCEPT ![p] = u]
    /\ pc' = [pc EXCEPT ![p] = "started"]
    /\ left' = [left EXCEPT ![p] = MaxWork]
    /\ UNCHANGED <<db, lock, actor, pending, armed, block, tx, pend,
                   cached, recon, reads>>

\* bind_request_actor: tell the open command transaction who acts, remember the
\* actor for every later one, and note the owner whose lock is still to be taken.
BindActor(p, u) ==
    /\ txActor' = [txActor EXCEPT ![p] = IF mode[p] = "query" THEN Nobody ELSE u]
    /\ actor' = [actor EXCEPT ![p] = u]
    /\ pending' = [pending EXCEPT ![p] = OwnerOf[u]]
    /\ UNCHANGED <<lock, armed>>

\* _attach_request_id, the first before-request hook: loading current_user
\* opens the transaction, before any owner is known.
LoadUser(p) ==
    /\ pc[p] = "started"
    /\ pc' = [pc EXCEPT ![p] = "loaded"]
    /\ IF user[p] = Nobody
       THEN UNCHANGED <<inTx, snap, cached, txActor, actor, pending, lock, armed>>
       ELSE /\ inTx' = [inTx EXCEPT ![p] = TRUE]
            /\ snap' = [snap EXCEPT ![p] =
                           IF mode[p] = "query" THEN Snapshot ELSE NoSnapshot]
            /\ cached' = [cached EXCEPT ![p] = userRow[user[p]]]
            /\ BindActor(p, user[p])
    /\ UNCHANGED <<db, mode, user, block, left, staged, delta, bumped,
                   pend, recon, reads>>

\* The form-token and rate-limit hooks registered between the two: admit or
\* refuse.  A refused request goes straight to its teardown.
Guard(p) ==
    /\ pc[p] = "loaded"
    /\ \E verdict \in {"admitted", "refused"} :
          pc' = [pc EXCEPT ![p] = verdict]
    /\ UNCHANGED <<db, lock, mode, request, block, left, tx, pend,
                   cached, recon, reads>>

\* _take_the_request_owner_s_lock, the last before-request hook.
TakeRequestLock(p) ==
    /\ pc[p] = "admitted"
    /\ LockOpenTx(p, pending[p])
    /\ pending' = [pending EXCEPT ![p] = NoOwner]
    /\ pc' = [pc EXCEPT ![p] = "handler"]
    /\ UNCHANGED <<db, mode, user, actor, block, left, tx, pend,
                   recon, reads>>

\* A sign-in door (login, mfa_verify): nobody is signed in, and the account is
\* found by e-mail or by the pending-MFA session key.
FindAccount(p) ==
    /\ pc[p] = "handler"
    /\ mode[p] = "command"
    /\ user[p] = Nobody
    /\ BeginTx(p)
    /\ \E u \in Users : /\ user' = [user EXCEPT ![p] = u]
                        /\ cached' = [cached EXCEPT ![p] = userRow[u]]
    /\ pc' = [pc EXCEPT ![p] = "found"]
    /\ UNCHANGED <<db, mode, actor, pending, armed, block, left, pend,
                   recon, reads>>

\* bind_sign_in_owner: lock before the codes or the failed count are read.
BindSignInOwner(p) ==
    /\ pc[p] = "found"
    /\ LockOpenTx(p, OwnerOf[user[p]])
    /\ pc' = [pc EXCEPT ![p] = "handler"]
    /\ UNCHANGED <<db, mode, user, actor, pending, block, left, tx,
                   pend, recon, reads>>

(***************************************************************************)
(* The handler.                                                            *)
(***************************************************************************)

\* A statement issued while no transaction is open begins one.
BeginStatement(p) ==
    /\ pc[p] = "handler"
    /\ user[p] # Nobody
    /\ BeginTx(p)
    /\ UNCHANGED <<db, pc, mode, request, block, left, pend, cached,
                   recon, reads>>

\* session.add or an attribute set: a change held in the ORM session, which
\* needs no transaction yet.  A door that edits owner data has an owner.
Stage(p) ==
    /\ pc[p] = "handler"
    /\ mode[p] = "command"
    /\ armed[p] # NoOwner
    /\ left[p] > 0
    /\ pend[p] = {}
    /\ \E w \in Rows, v \in Values : pend' = [pend EXCEPT ![p] = {<<w, v>>}]
    /\ left' = [left EXCEPT ![p] = @ - 1]
    /\ UNCHANGED <<db, lock, pc, mode, request, block, tx, cached,
                   recon, reads>>

\* The flush sends the staged change: the row lock is held to the end.
Flush(p) ==
    /\ pc[p] = "handler"
    /\ inTx[p]
    /\ \E e \in pend[p] : /\ RowFree(p, e[1])
                          /\ staged' = [staged EXCEPT ![p][e[1]] = e[2]]
    /\ pend' = [pend EXCEPT ![p] = {}]
    /\ subject' = [subject EXCEPT ![p] = armed[p]]
    /\ pc' = [pc EXCEPT ![p] = "reconcile"]
    /\ UNCHANGED <<db, lock, mode, request, block, left, inTx, txActor, snap,
                   delta, bumped, cached, goal, todo, reads>>

\* A reconcile reads the facts and derives what the ledger must hold ...
ReadTarget(p) ==
    /\ pc[p] = "reconcile"
    /\ goal' = [goal EXCEPT ![p] = Target(Overlay(p, subject[p]))]
    /\ pc' = [pc EXCEPT ![p] = "emit"]
    /\ UNCHANGED <<db, lock, mode, request, block, left, tx, pend,
                   cached, subject, todo, reads>>

\* ... and, in later statements, reads what is posted and appends the delta.
EmitDelta(p) ==
    /\ pc[p] = "emit"
    /\ LET o == subject[p]
       IN delta' = [delta EXCEPT ![p][o] = @ + (goal[p] - (posted[o] + @))]
    /\ pc' = [pc EXCEPT ![p] = IF p \in Deployers THEN "deploy" ELSE "handler"]
    /\ UNCHANGED <<db, lock, mode, request, block, left, inTx, txActor,
                   snap, staged, bumped, pend, cached, recon, reads>>

\* authenticate and the password doors: the user row's counter is read, unless
\* the session still holds the loaded row, and written back one higher.
BumpUser(p) ==
    /\ pc[p] = "handler"
    /\ mode[p] = "command"
    /\ user[p] # Nobody
    /\ inTx[p]
    /\ left[p] > 0
    /\ bumped[p] = Unset
    /\ LET read == IF cached[p] = Unset THEN userRow[user[p]] ELSE cached[p]
       IN /\ read < MaxCount
          /\ bumped' = [bumped EXCEPT ![p] = read + 1]
          /\ cached' = [cached EXCEPT ![p] = read + 1]
    /\ left' = [left EXCEPT ![p] = @ - 1]
    /\ UNCHANGED <<db, lock, pc, mode, request, block, inTx, txActor,
                   snap, staged, delta, pend, recon, reads>>

\* What a commit of p installs.
Install(p) ==
    /\ facts' = [o \in Users |-> Overlay(p, o)]
    /\ posted' = [o \in Users |-> posted[o] + delta[p][o]]
    /\ IF bumped[p] = Unset
       THEN UNCHANGED <<userRow, tally>>
       ELSE /\ userRow' = [userRow EXCEPT ![user[p]] = bumped[p]]
            /\ tally' = [tally EXCEPT ![user[p]] = @ + 1]

\* session.commit() in a command's handler, or the end of write_transaction's
\* block, which puts the request back in query mode.
Commit(p) ==
    /\ pc[p] = "handler"
    /\ mode[p] = "command"
    /\ inTx[p]
    /\ pend[p] = {}
    /\ left[p] > 0
    /\ Install(p)
    /\ EndTx(p)
    /\ left' = [left EXCEPT ![p] = @ - 1]
    /\ mode' = [mode EXCEPT ![p] = IF block[p] THEN "query" ELSE "command"]
    /\ block' = [block EXCEPT ![p] = FALSE]
    /\ UNCHANGED <<pc, request, recon>>

\* A query's handler reads facts and ledger, in separate statements.
ReadFacts(p) ==
    /\ pc[p] = "handler"
    /\ mode[p] = "query"
    /\ inTx[p]
    /\ armed[p] # NoOwner
    /\ seenFacts' = [seenFacts EXCEPT ![p] = @ \cup {snap[p].facts[armed[p]]}]
    /\ UNCHANGED <<db, lock, pc, mode, request, block, left, tx, pend,
                   cached, recon, seenPosted>>

\* Mutant of ReadPosted: the render runs at READ COMMITTED.
ReadPostedCommitted(p) ==
    /\ pc[p] = "handler"
    /\ mode[p] = "query"
    /\ inTx[p]
    /\ armed[p] # NoOwner
    /\ seenPosted' = [seenPosted EXCEPT ![p] = @ \cup {posted[armed[p]]}]
    /\ UNCHANGED <<db, lock, pc, mode, request, block, left, tx, pend,
                   cached, recon, seenFacts>>

ReadPosted(p) ==
    /\ pc[p] = "handler"
    /\ mode[p] = "query"
    /\ inTx[p]
    /\ armed[p] # NoOwner
    /\ seenPosted' = [seenPosted EXCEPT ![p] = @ \cup {snap[p].posted[armed[p]]}]
    /\ UNCHANGED <<db, lock, pc, mode, request, block, left, tx, pend,
                   cached, recon, seenFacts>>

\* write_transaction: a query that must write leaves its snapshot.
EnterBlock(p) ==
    /\ pc[p] = "handler"
    /\ mode[p] = "query"
    /\ user[p] # Nobody
    /\ left[p] > 0
    /\ EndTx(p)
    /\ mode' = [mode EXCEPT ![p] = "command"]
    /\ block' = [block EXCEPT ![p] = TRUE]
    /\ left' = [left EXCEPT ![p] = @ - 1]
    /\ UNCHANGED <<db, pc, request, recon>>

\* _close_this_request_s_own_transaction: roll back what is open, drop g's keys.
Teardown(p) ==
    /\ EndTx(p)
    /\ pc' = [pc EXCEPT ![p] = "idle"]
    /\ mode' = [mode EXCEPT ![p] = "none"]
    /\ user' = [user EXCEPT ![p] = Nobody]
    /\ actor' = [actor EXCEPT ![p] = Nobody]
    /\ pending' = [pending EXCEPT ![p] = NoOwner]
    /\ armed' = [armed EXCEPT ![p] = NoOwner]
    /\ block' = [block EXCEPT ![p] = FALSE]
    /\ left' = [left EXCEPT ![p] = 0]
    /\ goal' = [goal EXCEPT ![p] = 0]
    /\ subject' = [subject EXCEPT ![p] = NoOwner]
    /\ UNCHANGED <<db, todo>>

\* The response is returned.
Respond(p) == pc[p] \in {"handler", "refused"} /\ Teardown(p)

\* An exception leaves the handler in the middle of its work.
Raise(p) == pc[p] \in {"reconcile", "emit"} /\ p \in Threads /\ Teardown(p)

(***************************************************************************)
(* The deploy reconciles (resync_all_cash_postings and its two twins).      *)
(***************************************************************************)

StartDeploy(p) ==
    /\ pc[p] = "idle"
    /\ pc' = [pc EXCEPT ![p] = "locking"]
    /\ inTx' = [inTx EXCEPT ![p] = TRUE]
    /\ todo' = [todo EXCEPT ![p] = Users]
    /\ UNCHANGED <<db, lock, mode, request, block, left, txActor, snap,
                   staged, delta, bumped, pend, cached, goal, subject, reads>>

\* Mutant of NextToLock: the users come in no particular order.
AnyToLock(p, o) == o \in todo[p]

\* The order lock_every_user_writes takes the locks in: ascending user id.
NextToLock(p, o) == o \in todo[p] /\ \A u \in todo[p] : o <= u

\* Mutant of LockNextUser: the reconcile starts without the locks.
LockNobody(p) ==
    /\ pc[p] = "locking"
    /\ pc' = [pc EXCEPT ![p] = "deploy"]
    /\ UNCHANGED <<db, lock, mode, request, block, left, tx, pend,
                   cached, recon, reads>>

LockNextUser(p) ==
    /\ pc[p] = "locking"
    /\ \E o \in Users :
          /\ NextToLock(p, o)
          /\ TakeOwnerLock(p, o)
          /\ LET rest == todo[p] \ {o}
             IN IF rest = {}
                THEN /\ todo' = [todo EXCEPT ![p] = Users]
                     /\ pc' = [pc EXCEPT ![p] = "deploy"]
                ELSE /\ todo' = [todo EXCEPT ![p] = rest]
                     /\ UNCHANGED pc
    /\ UNCHANGED <<db, mode, request, block, left, tx, pend, cached,
                   goal, subject, reads>>

\* Bring one more owner's ledger to its target.
ReconcileNext(p) ==
    /\ pc[p] = "deploy"
    /\ \E o \in todo[p] : /\ subject' = [subject EXCEPT ![p] = o]
                          /\ todo' = [todo EXCEPT ![p] = @ \ {o}]
    /\ pc' = [pc EXCEPT ![p] = "reconcile"]
    /\ UNCHANGED <<db, lock, mode, request, block, left, tx, pend,
                   cached, goal, reads>>

\* One commit for every owner.
CommitDeploy(p) ==
    /\ pc[p] = "deploy"
    /\ todo[p] = {}
    /\ Install(p)
    /\ EndTx(p)
    /\ pc' = [pc EXCEPT ![p] = "idle"]
    /\ goal' = [goal EXCEPT ![p] = 0]
    /\ subject' = [subject EXCEPT ![p] = NoOwner]
    /\ UNCHANGED <<mode, request, block, left, todo>>

(***************************************************************************)
(* The specification.                                                      *)
(***************************************************************************)

Init ==
    /\ facts = [o \in Users |-> [w \in Rows |-> 0]]
    /\ posted = [o \in Users |-> Target(facts[o])]
    /\ userRow = [u \in Users |-> 0]
    /\ tally = [u \in Users |-> 0]
    /\ lock = [o \in Users |-> NoProc]
    /\ pc = [p \in Procs |-> "idle"]
    /\ mode = [p \in Procs |-> "none"]
    /\ user = [p \in Procs |-> Nobody]
    /\ actor = [p \in Procs |-> Nobody]
    /\ pending = [p \in Procs |-> NoOwner]
    /\ armed = [p \in Procs |-> NoOwner]
    /\ block = [p \in Procs |-> FALSE]
    /\ left = [p \in Procs |-> 0]
    /\ inTx = [p \in Procs |-> FALSE]
    /\ txActor = [p \in Procs |-> Nobody]
    /\ snap = [p \in Procs |-> NoSnapshot]
    /\ staged = [p \in Procs |-> NothingStaged]
    /\ delta = [p \in Procs |-> NoDelta]
    /\ bumped = [p \in Procs |-> Unset]
    /\ pend = [p \in Procs |-> {}]
    /\ cached = [p \in Procs |-> Unset]
    /\ goal = [p \in Procs |-> 0]
    /\ subject = [p \in Procs |-> NoOwner]
    /\ seenFacts = [p \in Procs |-> {}]
    /\ seenPosted = [p \in Procs |-> {}]
    /\ todo = [p \in Procs |-> {}]

\* What a request or a deploy does once started, short of an exception.
Progress(p) ==
    \/ p \in Threads /\ (\/ LoadUser(p) \/ Guard(p) \/ TakeRequestLock(p)
                         \/ FindAccount(p) \/ BindSignInOwner(p)
                         \/ BeginStatement(p) \/ Stage(p) \/ Flush(p)
                         \/ BumpUser(p) \/ Commit(p)
                         \/ ReadFacts(p) \/ ReadPosted(p) \/ EnterBlock(p)
                         \/ Respond(p))
    \/ ReadTarget(p) \/ EmitDelta(p)
    \/ p \in Deployers /\ (\/ LockNextUser(p) \/ ReconcileNext(p)
                           \/ CommitDeploy(p))

Next ==
    \/ \E p \in Procs : Progress(p)
    \/ \E p \in Threads : StartRequest(p) \/ Raise(p)
    \/ \E p \in Deployers : StartDeploy(p)

\* A started request goes on; PostgreSQL queues the waiters of a lock in
\* order, so one whose lock keeps coming free gets it: strong fairness.
Fairness == \A p \in Procs : SF_vars(Progress(p))

Spec == Init /\ [][Next]_vars

FairSpec == Spec /\ Fairness

(***************************************************************************)
(* Properties.                                                             *)
(***************************************************************************)

Kinds == {"none", "query", "command"}
Points == {"idle", "started", "loaded", "refused", "admitted", "found",
           "handler", "reconcile", "emit", "locking", "deploy"}

\* Every variable holds a value of its kind.
TypeOK ==
    /\ facts \in [Users -> [Rows -> Values]]
    /\ posted \in [Users -> Int]
    /\ userRow \in [Users -> Nat]
    /\ tally \in [Users -> Nat]
    /\ lock \in [Users -> Procs \cup {NoProc}]
    /\ pc \in [Procs -> Points]
    /\ mode \in [Procs -> Kinds]
    /\ user \in [Procs -> Users \cup {Nobody}]
    /\ actor \in [Procs -> Users \cup {Nobody}]
    /\ pending \in [Procs -> Users \cup {NoOwner}]
    /\ armed \in [Procs -> Users \cup {NoOwner}]
    /\ block \in [Procs -> BOOLEAN]
    /\ left \in [Procs -> 0..MaxWork]
    /\ inTx \in [Procs -> BOOLEAN]
    /\ txActor \in [Procs -> Users \cup {Nobody}]
    /\ staged \in [Procs -> [Rows -> Values \cup {Unset}]]
    /\ delta \in [Procs -> [Users -> Int]]
    /\ bumped \in [Procs -> Nat \cup {Unset}]
    /\ pend \in [Procs -> SUBSET (Rows \X Values)]
    /\ cached \in [Procs -> Nat \cup {Unset}]
    /\ goal \in [Procs -> Int]
    /\ subject \in [Procs -> Users \cup {NoOwner}]
    /\ todo \in [Procs -> SUBSET Users]

\* In every committed state each owner's ledger nets to what its facts
\* demand, although every writer appends a delta it computed from reads made
\* in earlier statements: no reconcile is lost, none is posted twice.
LedgerMatchesFacts == \A o \in Users : posted[o] = Target(facts[o])

\* No update of a user's row is lost (two wrong passwords count twice), though
\* the row is first read before the lock: for every user with an owner to lock.
NoLostUserUpdate ==
    \A u \in Users : OwnerOf[u] # NoOwner => userRow[u] = tally[u]

\* Whatever a render reads of facts and ledger, in whatever order and however
\* many commits fall in between, fits together.
RenderIsConsistent ==
    \A p \in Threads : \A f \in seenFacts[p], n \in seenPosted[p] : n = Target(f)

\* A request the form-token or rate-limit hook refuses, and a query outside a
\* write_transaction block, holds no owner's lock.
ReadersAndRefusedHoldNoLock ==
    \A p \in Threads :
        pc[p] = "refused" \/ mode[p] = "query" => \A o \in Users : lock[o] # p

\* Every write of a signed-in request is made by a transaction that was told
\* its actor, whichever of the request's transactions it is.
WritesCarryTheirActor ==
    \A p \in Threads :
        actor[p] # Nobody /\ (staged[p] # NothingStaged \/ bumped[p] # Unset)
            => txActor[p] = actor[p]

\* A request acts as the one it was bound to: only a command let in holds its
\* owner's lock, and whatever it writes names it (bind_request_actor).
RequestsActAsBound == TypeOK /\ ReadersAndRefusedHoldNoLock /\ WritesCarryTheirActor

\* The owner whose lock p needs for its next step.
Wanted(p) ==
    CASE pc[p] = "admitted" /\ mode[p] = "command" /\ inTx[p] -> {pending[p]} \ {NoOwner}
      [] pc[p] = "found" -> {OwnerOf[user[p]]} \ {NoOwner}
      [] pc[p] = "locking" -> {o \in Users : NextToLock(p, o)}
      [] pc[p] = "handler" /\ mode[p] = "command" /\ ~inTx[p] -> {armed[p]} \ {NoOwner}
      [] OTHER -> {}

WaitsFor(p, q) ==
    \/ \E o \in Wanted(p) : lock[o] = q
    \/ pc[p] = "handler" /\ inTx[p]
       /\ \E e \in pend[p] : HoldsRow(q, armed[p], e[1])

\* Transactions never wait in a circle, whatever locks and row locks each
\* holds: the owner lock comes first, and many owners' locks come in id order.
NoWaitCycle ==
    \A S \in (SUBSET Procs) \ {{}} :
        \E p \in S : \A q \in S : q = p \/ ~WaitsFor(p, q)

\* Facts and ledger of an owner change only in a step that gives up the lock
\* of that owner: a commit of the transaction that held it.
OnlyTheHolderWrites ==
    [][\A o \in Users :
          facts'[o] # facts[o] \/ posted'[o] # posted[o]
              => lock[o] # NoProc /\ lock'[o] = NoProc]_vars

\* Every request and every deploy that starts ends.
EveryRequestEnds == \A p \in Procs : pc[p] # "idle" ~> pc[p] = "idle"
=============================================================================
