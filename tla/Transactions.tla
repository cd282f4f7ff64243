---------------------------- MODULE Transactions ----------------------------
(***************************************************************************)
(* Client transactions: the transaction manager                            *)
(* (api/TransactionManager.cpp), the context in which a transaction keeps  *)
(* what it read and wrote (Transactions.h) and the transactional paths of  *)
(* the cache (api/RemoteCacheBase.cpp), up to the PREPARE, COMMIT and      *)
(* ROLLBACK requests (operations/TransactionOperations.cpp).               *)
(*                                                                         *)
(* A thread has one transaction at a time.  Caches are addresses: the maps *)
(* of a transaction are ordered by them.  A value is abstracted to what    *)
(* the properties tell apart: Null, Own (written by the transaction) or    *)
(* the version under which the server stored it.  The server is external:  *)
(* it validates the versions a PREPARE carries, locks the keys and answers *)
(* with an XA status; its answer may get lost, be an error or be           *)
(* heuristic, and such transactions are marked as faulty.                  *)
(***************************************************************************)
EXTENDS Integers, FiniteSets

CONSTANTS
    Thread,
    Cache,             \* the addresses of the transactional caches
    Key,
    forceReturnValue,  \* of each cache
    CachesOf,          \* the caches that each thread uses in its transactions
    Unreliable,        \* the threads that meet lost answers, errors and heuristics
    MaxTx,             \* bound: transactions of one thread
    MaxVersion,        \* bound: versions of a key of each cache by writes outside transactions
    MaxAccess          \* bound: reads and writes of one transaction of each thread

ASSUME CachesAssumption ==
    /\ Cache \subseteq Nat
    /\ forceReturnValue \in [Cache -> BOOLEAN]
    /\ CachesOf \in [Thread -> SUBSET Cache]
    /\ Unreliable \subseteq Thread
ASSUME BoundsAssumption ==
    /\ MaxTx \in Nat \ {0}
    /\ MaxVersion \in [Cache -> Nat]
    /\ MaxAccess \in [Thread -> Nat]

VARIABLES
    store,    \* (external) the entry of each key at each cache
    branch,   \* (external) the branch of each transaction at each cache
    txn,      \* currentTransactions: the Transaction of each thread
    call,     \* the locals of each thread's commit() or rollback()
    accesses, \* of each thread's transaction, against MaxAccess
    up,       \* the process has not crashed
    \* history
    view,     \* what each thread's transaction last read or wrote, by cache and key
    reads,    \* the versions that each transaction read at the server
    voted,    \* the caches that answered PREPARE with success in the present commit()
    faulty,   \* an answer to the transaction was lost, an error or heuristic
    report    \* what commit() or rollback() told the caller

vars == <<store, branch, txn, call, accesses, up, view, reads, voted, faulty, report>>
clientVars == <<view, reads>>
history == <<view, reads, voted, faulty, report>>

Xid == Thread \X (1 .. MaxTx)
Null == 0
Own == -1
ControlBit == {"NOT_READ", "NON_EXISTING", "REMOVE_OP"}

ContextEntry ==
    [action : {"SET", "DELETED"}, value : {Own} \cup Nat, origMeta : Nat, meta : Nat,
     controlByte : SUBSET ControlBit,
     valueMarshaller : BOOLEAN]

\* The entry that the map's operator[] creates.
EmptyEntry ==
    [action |-> "SET", value |-> Null, origMeta |-> 0, meta |-> 0, controlByte |-> {},
     valueMarshaller |-> FALSE]

Empty == [k \in {} |-> EmptyEntry]
PutAt(map, k, e) == [j \in DOMAIN map \cup {k} |-> IF j = k THEN e ELSE map[j]]
Least(S) == CHOOSE c \in S : \A d \in S : c <= d

\* getCurrentTransaction: the object made for a thread that has none.
NewTransaction(t, n) ==
    [status |-> "NO_TRANSACTION", xid |-> <<t, n>>, registeredCache |-> [c \in {} |-> Empty],
     preparedCache |-> {}]

NoCall == [pc |-> "idle", todo |-> {}, saw |-> {}, readOnly |-> TRUE, throws |-> FALSE]
NoView == [c \in Cache |-> [k \in Key |-> {}]]

Init ==
    /\ \E filled \in BOOLEAN :
        store = [c \in Cache |-> [k \in Key |-> [version |-> 1, exists |-> filled]]]
    /\ branch = [c \in Cache |-> [x \in Xid |-> [state |-> "none", entries |-> Empty]]]
    /\ txn = [t \in Thread |-> NewTransaction(t, 1)]
    /\ call = [t \in Thread |-> NoCall]
    /\ accesses = [t \in Thread |-> 0]
    /\ up = TRUE
    /\ view = [t \in Thread |-> NoView]
    /\ reads = [x \in Xid |-> {}]
    /\ voted = [x \in Xid |-> {}]
    /\ faulty = [x \in Xid |-> FALSE]
    /\ report = [x \in Xid |-> "none"]

-----------------------------------------------------------------------------
(* Transaction and TransactionContext *)

canBegin(t) == txn[t].status \in {"NO_TRANSACTION", "COMMITTED"}
canCommit(t) == txn[t].status = "ACTIVE"
canRollback(t) == txn[t].status = "ACTIVE"
needsRollback(t) == txn[t].status = "MARKED_ROLLBACK"
acceptRW(t) == txn[t].status \in {"ACTIVE", "MARKED_ROLLBACK"}
acceptRead(t) == txn[t].status \notin {"COMMITTED", "ROLLEDBACK"}

getTransactionContext(t, c) ==
    IF c \in DOMAIN txn[t].registeredCache THEN txn[t].registeredCache[c] ELSE Empty

hasValue(tc, k) == k \in DOMAIN tc
getEntry(tc, k) == IF hasValue(tc, k) THEN tc[k] ELSE EmptyEntry
getValue(tc, k) ==
    IF getEntry(tc, k).action = "DELETED" THEN Null ELSE getEntry(tc, k).value
addValue(tc, k, v, version, cb) ==
    PutAt(tc, k, [action |-> "SET", value |-> v, origMeta |-> version, meta |-> version,
                  controlByte |-> cb, valueMarshaller |-> TRUE])
\* Mutant of setValue: the action of a deleted entry stays.
setValueKeepsAction(tc, k, v) ==
    PutAt(tc, k, [getEntry(tc, k) EXCEPT !.value = v, !.meta = getEntry(tc, k).origMeta + 1,
                                         !.valueMarshaller = TRUE])

setValue(tc, k, v) ==
    PutAt(tc, k, [getEntry(tc, k) EXCEPT !.action = "SET", !.value = v,
                                         !.meta = getEntry(tc, k).origMeta + 1,
                                         !.valueMarshaller = TRUE])
setValueAsDeleted(tc, k) ==
    PutAt(tc, k, [getEntry(tc, k) EXCEPT !.action = "DELETED", !.value = Null,
                                         !.meta = getEntry(tc, k).origMeta + 1])

-----------------------------------------------------------------------------
(* Reads and writes inside a transaction *)

\* The value and the version that getWithMetadata reads at the server.
RemoteValue(c, k) == IF store[c][k].exists THEN store[c][k].version ELSE Null
RemoteVersion(c, k) == IF store[c][k].exists THEN store[c][k].version ELSE 0

\* Mutant of Fetched: the entry is not marked as read.
FetchedUnread(tc, c, k) ==
    IF hasValue(tc, k) THEN tc
    ELSE addValue(tc, k, RemoteValue(c, k), RemoteVersion(c, k), {"NOT_READ"})

\* The context after transactional_base_get.
Fetched(tc, c, k) ==
    IF hasValue(tc, k) THEN tc
    ELSE addValue(tc, k, RemoteValue(c, k), RemoteVersion(c, k),
                  IF store[c][k].exists THEN {} ELSE {"NON_EXISTING"})

\* The context after transactional_base_put.
Written(tc, c, k, forceRV) ==
    LET got == IF forceRV THEN Fetched(tc, c, k) ELSE tc
    IN  IF hasValue(got, k) THEN setValue(got, k, Own)
        ELSE addValue(got, k, Own, 0, {"NOT_READ"})

\* A call in thread t's transaction on cache c leaves the context tc there.
InContext(t, c, tc) ==
    /\ up /\ call[t].pc = "idle"
    /\ accesses[t] < MaxAccess[t]
    /\ accesses' = [accesses EXCEPT ![t] = @ + 1]
    /\ txn' = [txn EXCEPT ![t].registeredCache = PutAt(txn[t].registeredCache, c, tc)]
    /\ UNCHANGED <<store, branch, call, up, voted, faulty, report>>

\* The history of such a call: it read key k at the server or found it in the context.
Notes(t, c, k, fetches, v) ==
    LET tc == getTransactionContext(t, c)
    IN  /\ view' = [view EXCEPT ![t][c][k] = v]
        /\ reads' = IF fetches /\ ~hasValue(tc, k)
                    THEN [reads EXCEPT ![txn[t].xid] =
                              @ \cup {[cache |-> c, key |-> k, version |-> RemoteVersion(c, k)]}]
                    ELSE reads

\* get, getWithVersion and getWithMetadata.  When the read at the server fails the
\* cache is registered and nothing else has changed: so it is for every other call.
base_get(t, c, k) ==
    LET tc == Fetched(getTransactionContext(t, c), c, k)
    IN  /\ txn[t].status # "NO_TRANSACTION"
        /\ acceptRead(t)
        /\ \/ /\ InContext(t, c, tc)
              /\ Notes(t, c, k, TRUE, {getValue(tc, k)})
           \/ /\ ~hasValue(getTransactionContext(t, c), k)
              /\ InContext(t, c, getTransactionContext(t, c))
              /\ UNCHANGED clientVars

base_put(t, c, k) ==
    /\ txn[t].status # "NO_TRANSACTION"
    /\ acceptRW(t)
    /\ InContext(t, c, Written(getTransactionContext(t, c), c, k, forceReturnValue[c]))
    /\ Notes(t, c, k, forceReturnValue[c], {Own})

base_putIfAbsent(t, c, k) ==
    LET tc == Fetched(getTransactionContext(t, c), c, k)
    IN  /\ txn[t].status # "NO_TRANSACTION"
        /\ acceptRW(t)
        /\ IF getValue(tc, k) = Null
           THEN InContext(t, c, Written(tc, c, k, FALSE)) /\ Notes(t, c, k, TRUE, {Own})
           ELSE InContext(t, c, tc) /\ Notes(t, c, k, TRUE, {getValue(tc, k)})

base_replace(t, c, k) ==
    LET tc == Fetched(getTransactionContext(t, c), c, k)
    IN  /\ txn[t].status # "NO_TRANSACTION"
        /\ acceptRW(t)
        /\ IF getValue(tc, k) # Null
           THEN InContext(t, c, setValue(tc, k, Own)) /\ Notes(t, c, k, TRUE, {Own})
           ELSE InContext(t, c, tc) /\ Notes(t, c, k, TRUE, {Null})

base_remove(t, c, k) ==
    LET tc == getTransactionContext(t, c)
        got == IF forceReturnValue[c] THEN Fetched(tc, c, k) ELSE tc
    IN  /\ txn[t].status # "NO_TRANSACTION"
        /\ acceptRW(t)
        /\ InContext(t, c, setValueAsDeleted(got, k))
        /\ Notes(t, c, k, forceReturnValue[c], {Null})

\* getValue creates the entry that it does not find; the answer is not kept.
base_containsKey(t, c, k) ==
    LET tc == getTransactionContext(t, c)
    IN  /\ txn[t].status # "NO_TRANSACTION"
        /\ acceptRead(t)
        /\ InContext(t, c, PutAt(tc, k, getEntry(tc, k)))
        /\ UNCHANGED clientVars

base_replaceWithVersion(t, c, k, version) ==
    LET tc == Fetched(getTransactionContext(t, c), c, k)
        found == getValue(tc, k) # Null /\ tc[k].meta = version
    IN  /\ txn[t].status # "NO_TRANSACTION"
        /\ acceptRW(t)
        /\ InContext(t, c, IF found THEN setValue(tc, k, Own) ELSE tc)
        /\ Notes(t, c, k, TRUE, {IF found THEN Own ELSE getValue(tc, k)})

base_removeWithVersion(t, c, k, version) ==
    LET tc == Fetched(getTransactionContext(t, c), c, k)
        found == getValue(tc, k) # Null /\ tc[k].meta = version
    IN  /\ txn[t].status # "NO_TRANSACTION"
        /\ acceptRW(t)
        /\ InContext(t, c, IF found THEN setValueAsDeleted(tc, k) ELSE tc)
        /\ Notes(t, c, k, TRUE, {IF found THEN Null ELSE getValue(tc, k)})

\* What it returns is not kept; the cache is registered all the same.
base_getBulk(t, c) ==
    /\ txn[t].status # "NO_TRANSACTION"
    /\ acceptRead(t)
    /\ InContext(t, c, getTransactionContext(t, c))
    /\ UNCHANGED clientVars

-----------------------------------------------------------------------------
(* The server (external) *)

Locked(c, x) ==
    UNION {DOMAIN branch[c][y].entries : y \in {z \in Xid \ {x} : branch[c][z].state = "prepared"}}

Validates(c, x, tc) ==
    \A k \in DOMAIN tc :
        /\ k \notin Locked(c, x)
        /\ "NOT_READ" \notin tc[k].controlByte =>
               IF "NON_EXISTING" \in tc[k].controlByte THEN ~store[c][k].exists
               ELSE RemoteVersion(c, k) = tc[k].origMeta

\* A change that is not part of a transaction: this client's put outside one, or
\* another client's.
NonTxPut(c, k) ==
    /\ up
    /\ k \notin UNION {DOMAIN branch[c][x].entries : x \in {z \in Xid : branch[c][z].state = "prepared"}}
    /\ store[c][k].version < MaxVersion[c]
    /\ store' = [store EXCEPT ![c][k] = [version |-> @.version + 1, exists |-> TRUE]]
    /\ UNCHANGED <<branch, txn, call, accesses, up, history>>

\* Branch x at cache c ends in state s; a commit stores what was prepared.
Branch(c, x, s) ==
    /\ branch' = [branch EXCEPT ![c][x] = [state |-> s, entries |-> Empty]]
    /\ store' = IF s = "committed" /\ branch[c][x].state = "prepared"
                THEN [store EXCEPT ![c] =
                          [k \in Key |-> IF k \in DOMAIN branch[c][x].entries
                                         THEN [version |-> @[k].version + 1, exists |-> TRUE]
                                         ELSE @[k]]]
                ELSE store

-----------------------------------------------------------------------------
(* TransactionManager *)

begin(t) ==
    /\ up /\ call[t].pc = "idle"
    /\ canBegin(t)
    /\ txn[t].xid \in Xid                          \* the bound MaxTx
    /\ txn' = [txn EXCEPT ![t].status = "ACTIVE"]
    /\ UNCHANGED <<store, branch, call, accesses, up, history>>

commit(t) ==
    /\ up /\ call[t].pc = "idle"
    /\ canCommit(t)
    /\ call' = [call EXCEPT ![t] =
                    [NoCall EXCEPT !.pc = IF needsRollback(t) THEN "rollback" ELSE "prepare",
                                   !.throws = TRUE,
                                   !.todo = IF needsRollback(t) THEN txn[t].preparedCache
                                            ELSE DOMAIN txn[t].registeredCache]]
    /\ voted' = [voted EXCEPT ![txn[t].xid] = {}]
    /\ UNCHANGED <<store, branch, txn, accesses, up, view, reads, faulty, report>>

rollback(t) ==
    /\ up /\ call[t].pc = "idle"
    /\ canRollback(t)
    /\ call' = [call EXCEPT ![t] = [NoCall EXCEPT !.pc = "rollback", !.todo = txn[t].preparedCache]]
    /\ UNCHANGED <<store, branch, txn, accesses, up, history>>

\* The call ends with the status s: the adapter is cleared and the thread's
\* transaction is erased.
Finish(t, s) ==
    /\ call' = [call EXCEPT ![t] = NoCall]
    /\ report' = [report EXCEPT ![txn[t].xid] = s]
    /\ txn' = [txn EXCEPT ![t] = NewTransaction(t, @.xid[2] + 1)]
    /\ accesses' = [accesses EXCEPT ![t] = 0]
    /\ view' = [view EXCEPT ![t] = NoView]

\* An exception leaves the call: the transaction stays as it is.
Escape(t) ==
    /\ call' = [call EXCEPT ![t] = NoCall]
    /\ UNCHANGED <<txn, accesses, view, report>>

\* Mutant of CatchAndRollback: the server is not told.
CatchOnly(t, prepared) ==
    /\ call' = [call EXCEPT ![t] = [NoCall EXCEPT !.pc = "rollback", !.throws = TRUE]]
    /\ txn' = [txn EXCEPT ![t].preparedCache = prepared]
    /\ UNCHANGED <<accesses, view, report>>

\* commit() catches an exception of its two phases and rolls back.
CatchAndRollback(t, prepared) ==
    /\ call' = [call EXCEPT ![t] = [NoCall EXCEPT !.pc = "rollback", !.throws = TRUE,
                                                  !.todo = prepared]]
    /\ txn' = [txn EXCEPT ![t].preparedCache = prepared]
    /\ UNCHANGED <<accesses, view, report>>

\* PrepareCommitOperation writes every entry of the context that has not REMOVE_OP.
Unmarshallable(tc) ==
    {k \in DOMAIN tc : "REMOVE_OP" \notin tc[k].controlByte /\ tc[k].value = Null}

\* An empty std::function throws std::bad_function_call, which no one catches; a
\* null pointer is dereferenced.
PrepareFails(t, c) ==
    LET tc == txn[t].registeredCache[c]
    IN  /\ \/ /\ \E k \in Unmarshallable(tc) : ~tc[k].valueMarshaller
              /\ Escape(t)
              /\ UNCHANGED up
           \/ /\ \E k \in Unmarshallable(tc) : tc[k].valueMarshaller
              /\ up' = FALSE
              /\ UNCHANGED <<txn, call, accesses, view, report>>
        /\ UNCHANGED <<store, branch, reads, voted, faulty>>

\* The server's vote and what remotePrepareCommit does with it.
PrepareAnswer(t, c) ==
    LET x == txn[t].xid
        tc == txn[t].registeredCache[c]
        rest == [call[t] EXCEPT !.todo = @ \ {c}]
        prepared == txn[t].preparedCache \cup {c}
        Prepared == branch' = [branch EXCEPT ![c][x] = [state |-> "prepared", entries |-> tc]]
    IN  /\ UNCHANGED <<store, reads>>
        /\ \/ /\ DOMAIN tc # {} /\ branch[c][x].state \in {"none", "prepared"}    \* XA_OK
              /\ Validates(c, x, tc)
              /\ Prepared
              /\ voted' = [voted EXCEPT ![x] = @ \cup {c}]
              /\ txn' = [txn EXCEPT ![t].preparedCache = prepared]
              /\ call' = [call EXCEPT ![t] = [rest EXCEPT !.readOnly = FALSE]]
              /\ UNCHANGED <<accesses, up, view, faulty, report>>
           \/ /\ DOMAIN tc = {}                                                   \* XA_RDONLY
              /\ call' = [call EXCEPT ![t] = rest]
              /\ voted' = [voted EXCEPT ![x] = @ \cup {c}]
              /\ UNCHANGED <<accesses, up, branch, txn, view, faulty, report>>
           \/ /\ branch[c][x].state # "committed"                                 \* XA_RBROLLBACK
              /\ branch' = [branch EXCEPT ![c][x] = [state |-> "rolledback", entries |-> Empty]]
              /\ CatchAndRollback(t, prepared)
              /\ UNCHANGED <<up, voted, faulty>>
           \/ /\ branch[c][x].state \in {"committed", "rolledback"}               \* XAER_NOTA
              /\ \/ CatchAndRollback(t, prepared) /\ UNCHANGED up
                 \/ up' = FALSE /\ UNCHANGED <<txn, call, accesses, view, report>>
              /\ UNCHANGED <<branch, voted, faulty>>
           \/ /\ \/ DOMAIN tc # {} /\ Validates(c, x, tc) /\ branch[c][x].state = "none" /\ Prepared
                 \/ UNCHANGED branch                                  \* HotRodClientException
              /\ t \in Unreliable
              /\ faulty' = [faulty EXCEPT ![x] = TRUE]
              /\ CatchAndRollback(t, txn[t].preparedCache)
              /\ UNCHANGED <<up, voted>>

remotePrepareCommit(t) ==
    LET c == Least(call[t].todo)
    IN  /\ up /\ call[t].pc = "prepare" /\ call[t].todo # {}
        /\ IF Unmarshallable(txn[t].registeredCache[c]) # {} THEN PrepareFails(t, c)
           ELSE PrepareAnswer(t, c)

\* Mutants of PrepareEnds: phase two begins with the first success, or never.
PrepareEndsEarly(t) ==
    /\ up /\ call[t].pc = "prepare" /\ ~call[t].readOnly
    /\ call' = [call EXCEPT ![t].pc = "commit", ![t].todo = DOMAIN txn[t].registeredCache]
    /\ UNCHANGED <<txn, accesses, view, report>>
    /\ UNCHANGED <<store, branch, up, reads, voted, faulty>>

PrepareEndsOnePhase(t) ==
    /\ up /\ call[t].pc = "prepare" /\ call[t].todo = {}
    /\ Finish(t, "COMMITTED")
    /\ UNCHANGED <<store, branch, up, reads, voted, faulty>>

\* Every cache has answered: phase two, unless all were read only.
PrepareEnds(t) ==
    /\ up /\ call[t].pc = "prepare" /\ call[t].todo = {}
    /\ IF call[t].readOnly
       THEN Finish(t, "COMMITTED")
       ELSE /\ call' = [call EXCEPT ![t].pc = "commit", ![t].todo = DOMAIN txn[t].registeredCache]
            /\ UNCHANGED <<txn, accesses, view, report>>
    /\ UNCHANGED <<store, branch, up, reads, voted, faulty>>

\* What remoteCommit makes of a status.
CommitSaw(ret) ==
    CASE ret \in {"XA_OK", "XA_RDONLY", "XA_HEURCOM"} -> {"commit"}
      [] ret = "XAER_NOTA" -> {"forgot"}
      [] ret \in {"XA_HEURMIX", "XA_HEURHAZ"} -> {"commit", "rollback"}
      [] ret = "XA_HEURRB" -> {"rollback"}
      [] OTHER -> {"unknown"}

\* The statuses with which the server answers COMMIT when branch x at cache c ends in
\* state s, and whether the server was in order.
CommitStatus(c, x, s) ==
    CASE branch[c][x].state = "none" /\ s = "none" -> {"XA_OK", "XA_RDONLY", "XAER_NOTA"}
      [] s = "committed" -> {"XA_OK", "XA_HEURCOM", "XA_HEURMIX", "XA_HEURHAZ", "XAER_NOTA", "error"}
      [] s = "rolledback" -> {"XA_HEURRB", "XA_HEURMIX", "XA_HEURHAZ", "XAER_NOTA", "error"}
      [] OTHER -> {"error"}

InOrder(c, x, s, ret) ==
    \/ branch[c][x].state = "none" /\ s = "none"
    \/ branch[c][x].state = "prepared" /\ s = "committed" /\ ret = "XA_OK"

\* COMMIT goes to every registered cache.
remoteCommit(t) ==
    LET x == txn[t].xid
        c == Least(call[t].todo)
        now == branch[c][x].state
    IN  /\ up /\ call[t].pc = "commit" /\ call[t].todo # {}
        /\ \E s \in IF now = "prepared" THEN {"prepared", "committed", "rolledback"} ELSE {now} :
             /\ IF s = now THEN UNCHANGED <<branch, store>> ELSE Branch(c, x, s)
             /\ \/ \E ret \in CommitStatus(c, x, s) :
                     /\ call' = [call EXCEPT ![t].todo = @ \ {c}, ![t].saw = @ \cup CommitSaw(ret)]
                     /\ InOrder(c, x, s, ret) \/ t \in Unreliable
                     /\ faulty' = [faulty EXCEPT ![x] = @ \/ ~InOrder(c, x, s, ret)]
                     /\ UNCHANGED <<txn, accesses, view, report>>
                \/ /\ t \in Unreliable
                   /\ CatchAndRollback(t, txn[t].preparedCache)        \* HotRodClientException
                   /\ faulty' = [faulty EXCEPT ![x] = TRUE]
        /\ UNCHANGED <<up, reads, voted>>

\* The exception that remoteCommit ends with, if any.
CommitThrows(saw) ==
    CASE saw \cap {"commit", "rollback"} = {} ->
             IF "forgot" \in saw THEN "XAER_NOTA"
             ELSE IF "unknown" \in saw THEN "unknown" ELSE "none"
      [] {"commit", "rollback"} \subseteq saw -> "XA_HEURMIX"
      [] "rollback" \in saw /\ "commit" \notin saw -> "XA_HEURRB"
      [] OTHER -> "none"

\* The exception's constructor adds the status to a pointer: for XAER_NOTA, 2^32 - 4.
CommitEnds(t) ==
    LET ex == CommitThrows(call[t].saw)
    IN  /\ up /\ call[t].pc = "commit" /\ call[t].todo = {}
        /\ \/ /\ ex = "none"
              /\ Finish(t, "COMMITTED")
              /\ UNCHANGED up
           \/ /\ ex # "none"
              /\ CatchAndRollback(t, txn[t].preparedCache)
              /\ UNCHANGED up
           \/ /\ ex = "XAER_NOTA"
              /\ up' = FALSE
              /\ UNCHANGED <<txn, call, accesses, view, report>>
        /\ UNCHANGED <<store, branch, reads, voted, faulty>>

\* RollbackOperation reads the status and returns 0 whatever it is.
RollbackOperation(status) == "XA_OK"

RollbackSaw(ret) ==
    CASE ret \in {"XA_OK", "XA_RDONLY", "XA_HEURRB"} -> {"rollback"}
      [] ret = "XAER_NOTA" -> {"forgot"}
      [] ret \in {"XA_HEURMIX", "XA_HEURHAZ"} -> {"commit", "rollback"}
      [] ret = "XA_HEURCOM" -> {"commit"}
      [] OTHER -> {"unknown"}

\* ROLLBACK goes to the caches listed as prepared.  An exception leaves commit()
\* and rollback(), also from a handler.
remoteRollback(t) ==
    LET x == txn[t].xid
        c == Least(call[t].todo)
        now == branch[c][x].state
        status == IF now = "committed" THEN "XA_HEURCOM" ELSE "XA_OK"
    IN  /\ up /\ call[t].pc = "rollback" /\ call[t].todo # {}
        /\ \/ /\ IF now = "prepared" THEN Branch(c, x, "rolledback") ELSE UNCHANGED <<branch, store>>
              /\ call' = [call EXCEPT ![t].todo = @ \ {c},
                                      ![t].saw = @ \cup RollbackSaw(RollbackOperation(status))]
              /\ UNCHANGED <<txn, accesses, view, report, faulty>>
           \/ /\ \/ now = "prepared" /\ Branch(c, x, "rolledback")
                 \/ UNCHANGED <<branch, store>>
              /\ t \in Unreliable
              /\ faulty' = [faulty EXCEPT ![x] = TRUE]
              /\ Escape(t)
        /\ UNCHANGED <<up, reads, voted>>

RollbackThrows(saw) ==
    CASE saw \cap {"commit", "rollback"} = {} -> saw # {}
      [] OTHER -> "commit" \in saw

RollbackEnds(t) ==
    /\ up /\ call[t].pc = "rollback" /\ call[t].todo = {}
    /\ IF RollbackThrows(call[t].saw) THEN Escape(t)
       ELSE Finish(t, IF call[t].throws THEN "HotRodClientRollbackException" ELSE "ROLLEDBACK")
    /\ UNCHANGED <<store, branch, up, reads, voted, faulty>>

-----------------------------------------------------------------------------
Access(t, c, k) ==
    \/ base_get(t, c, k)
    \/ base_put(t, c, k)
    \/ base_putIfAbsent(t, c, k)
    \/ base_replace(t, c, k)
    \/ base_remove(t, c, k)
    \/ base_containsKey(t, c, k)
    \* The version is one that the entry has or had.
    \/ \E v \in 0 .. store[c][k].version : base_replaceWithVersion(t, c, k, v)
    \/ \E v \in 0 .. store[c][k].version : base_removeWithVersion(t, c, k, v)

Next ==
    \/ \E t \in Thread :
        \/ begin(t)
        \/ commit(t)
        \/ rollback(t)
        \/ remotePrepareCommit(t)
        \/ PrepareEnds(t)
        \/ remoteCommit(t)
        \/ CommitEnds(t)
        \/ remoteRollback(t)
        \/ RollbackEnds(t)
        \/ \E c \in CachesOf[t] : base_getBulk(t, c)
        \/ \E c \in CachesOf[t], k \in Key : Access(t, c, k)
    \/ \E c \in Cache, k \in Key : NonTxPut(c, k)

Spec == Init /\ [][Next]_vars

-----------------------------------------------------------------------------
(* Properties *)

\* The types of the variables.
TypeOK ==
    /\ store \in [Cache -> [Key -> [version : Nat, exists : BOOLEAN]]]
    /\ \A c \in Cache, x \in Xid :
        /\ branch[c][x].state \in {"none", "prepared", "committed", "rolledback"}
        /\ \A k \in DOMAIN branch[c][x].entries : k \in Key /\ branch[c][x].entries[k] \in ContextEntry
    /\ \A t \in Thread :
        /\ txn[t].status \in {"NO_TRANSACTION", "ACTIVE"}
        /\ txn[t].xid \in {t} \X (1 .. MaxTx + 1)
        /\ DOMAIN txn[t].registeredCache \subseteq Cache
        /\ \A c \in DOMAIN txn[t].registeredCache :
            \A k \in DOMAIN txn[t].registeredCache[c] :
                k \in Key /\ txn[t].registeredCache[c][k] \in ContextEntry
        /\ txn[t].preparedCache \subseteq DOMAIN txn[t].registeredCache
        /\ call[t].pc \in {"idle", "prepare", "commit", "rollback"}
        /\ call[t].todo \subseteq DOMAIN txn[t].registeredCache
    /\ up \in BOOLEAN

\* What a transaction reads is what it last read or wrote itself, whatever other
\* threads and clients commit meanwhile: get finds it in the context (api/
\* RemoteCacheBase.cpp:61).
ReadYourWrites ==
    \A t \in Thread, c \in Cache, k \in Key :
        view[t][c][k] # {} =>
            /\ c \in DOMAIN txn[t].registeredCache
            /\ hasValue(txn[t].registeredCache[c], k)
            /\ view[t][c][k] = {getValue(txn[t].registeredCache[c], k)}

\* When a branch commits, the keys it writes still have the versions that the
\* transaction read: an update made in between by anyone is not lost.  It rests on
\* the control byte and the version that the context keeps and PREPARE sends.
NoLostUpdate ==
    [][\A c \in Cache, x \in Xid :
        branch[c][x].state = "prepared" /\ branch'[c][x].state = "committed" =>
            \A r \in reads[x] :
                r.cache = c /\ r.key \in DOMAIN branch[c][x].entries =>
                    r.version = RemoteVersion(c, r.key)]_vars

\* No branch commits before every cache of the transaction has answered the
\* PREPARE of the same commit() with success.
CommitNeedsAllVotes ==
    [][\A t \in Thread, c \in Cache :
        LET x == txn[t].xid
        IN  x \in Xid /\ branch[c][x].state = "prepared" /\ branch'[c][x].state = "committed" =>
                DOMAIN txn[t].registeredCache \subseteq voted[x]]_vars

Reported(x, s) == report[x] \in s
RolledBack == {"ROLLEDBACK", "HotRodClientRollbackException"}

\* As long as the server answers in order, the branches of a transaction end alike
\* and as commit() or rollback() said.
AtomicUnlessFaulty ==
    \A x \in Xid : ~faulty[x] =>
        LET states == {branch[c][x].state : c \in Cache}
        IN  /\ ~({"committed", "rolledback"} \subseteq states)
            /\ Reported(x, {"COMMITTED"}) => states \subseteq {"none", "committed"}
            /\ Reported(x, RolledBack) => states \subseteq {"none", "rolledback"}

\* Whatever went wrong: when the caller is told of a rollback, no branch whose
\* PREPARE succeeded is left prepared, with its keys locked.
RollbackReachesPrepared ==
    \A x \in Xid : Reported(x, RolledBack) =>
        \A c \in voted[x] : branch[c][x].state # "prepared"

\* A commit() that throws "Transaction rolled back" has changed nothing, as
\* TransactionTest.cpp expects of it.
RolledBackIsRolledBack ==
    \A x \in Xid : Reported(x, {"HotRodClientRollbackException"}) =>
        \A c \in Cache : branch[c][x].state # "committed"

=============================================================================
