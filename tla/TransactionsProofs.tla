------------------------- MODULE TransactionsProofs -------------------------
(***************************************************************************)
(* Proofs about Transactions, for any threads, caches, keys and bounds.    *)
(***************************************************************************)
EXTENDS Transactions, WellFoundedInduction, TLAPS

(* Types: a context maps keys to entries, a transaction maps caches to contexts. *)

Contexts == UNION {[S -> ContextEntry] : S \in SUBSET Key}
Registrations == UNION {[S -> Contexts] : S \in SUBSET Cache}
Txn == [status : {"NO_TRANSACTION", "ACTIVE"}, xid : Thread \X (1 .. MaxTx + 1),
        registeredCache : Registrations, preparedCache : SUBSET Cache]
Call == [pc : {"idle", "prepare", "commit", "rollback"}, todo : SUBSET Cache,
         saw : SUBSET {"commit", "rollback", "forgot", "unknown"}, readOnly : BOOLEAN,
         throws : BOOLEAN]
Branches == [state : {"none", "prepared", "committed", "rolledback"}, entries : Contexts]
Reading == [cache : Cache, key : Key, version : Nat]

ServerTypes ==
    /\ store \in [Cache -> [Key -> [version : Nat, exists : BOOLEAN]]]
    /\ branch \in [Cache -> [Xid -> Branches]]

ClientTypes ==
    /\ txn \in [Thread -> Txn] /\ \A t \in Thread : txn[t].xid[1] = t
    /\ call \in [Thread -> Call]

HistoryTypes ==
    /\ view \in [Thread -> [Cache -> [Key -> SUBSET ({Own} \cup Nat)]]]
    /\ reads \in [Xid -> SUBSET Reading]
    /\ voted \in [Xid -> SUBSET Cache]
    /\ faulty \in [Xid -> BOOLEAN]
    /\ report \in [Xid -> {"none", "COMMITTED"} \cup RolledBack]

Types == ServerTypes /\ ClientTypes /\ HistoryTypes /\ up \in BOOLEAN

-----------------------------------------------------------------------------
(* The inductive invariant: of a thread and its present transaction *)

\* A call is made in a transaction that was begun, and works on its caches.
CallOf(t) ==
    /\ call[t].pc # "idle" => txn[t].status = "ACTIVE"
    /\ txn[t].status = "ACTIVE" => txn[t].xid \in Xid
    /\ txn[t].status # "ACTIVE" => DOMAIN txn[t].registeredCache = {}
    /\ txn[t].preparedCache \subseteq DOMAIN txn[t].registeredCache
    /\ call[t].todo \subseteq DOMAIN txn[t].registeredCache

\* ReadYourWrites of one thread.
ViewOf(t) ==
    \A c \in Cache, k \in Key :
        view[t][c][k] # {} =>
            /\ c \in DOMAIN txn[t].registeredCache
            /\ k \in DOMAIN txn[t].registeredCache[c]
            /\ view[t][c][k] = {getValue(txn[t].registeredCache[c], k)}

\* Entry e says that version v was read at the server.
Says(e, v) ==
    /\ "NOT_READ" \notin e.controlByte
    /\ IF "NON_EXISTING" \in e.controlByte THEN v = 0 ELSE v = e.origMeta

\* The context keeps what the transaction read.
ReadsOf(t) ==
    txn[t].xid \in Xid =>
        \A r \in reads[txn[t].xid] :
            /\ r.cache \in DOMAIN txn[t].registeredCache
            /\ r.key \in DOMAIN txn[t].registeredCache[r.cache]
            /\ Says(txn[t].registeredCache[r.cache][r.key], r.version)

\* A branch is prepared at a cache of the transaction, whose context has only grown since.
HeldOf(t) ==
    \A c \in Cache :
        txn[t].xid \in Xid /\ branch[c][txn[t].xid].state = "prepared" =>
            /\ c \in DOMAIN txn[t].registeredCache
            /\ DOMAIN branch[c][txn[t].xid].entries \subseteq DOMAIN txn[t].registeredCache[c]

\* While PREPARE goes around, the caches that it has passed have voted and the others have
\* not; all have when COMMIT goes around.
VotesOf(t) ==
    /\ call[t].pc = "prepare" =>
        /\ DOMAIN txn[t].registeredCache \ call[t].todo \subseteq voted[txn[t].xid]
        /\ call[t].todo \cap voted[txn[t].xid] = {}
    /\ call[t].pc = "commit" => DOMAIN txn[t].registeredCache \subseteq voted[txn[t].xid]

\* A branch that voted and is prepared is listed as prepared, and ROLLBACK is still to
\* reach it.
ListedOf(t) ==
    txn[t].xid \in Xid =>
        \A c \in voted[txn[t].xid] : branch[c][txn[t].xid].state = "prepared" =>
            /\ c \in txn[t].preparedCache
            /\ call[t].pc = "rollback" => c \in call[t].todo

\* While the server answers in order: the states of the branches, by phase.
InOrderOf(t) ==
    txn[t].xid \in Xid /\ ~faulty[txn[t].xid] =>
        \A c \in Cache :
            /\ branch[c][txn[t].xid].state = "prepared" => c \in txn[t].preparedCache
            /\ call[t].pc \in {"idle", "prepare"} =>
                   branch[c][txn[t].xid].state \in {"none", "prepared"}
            /\ call[t].pc = "commit" =>
                   /\ branch[c][txn[t].xid].state # "rolledback"
                   /\ branch[c][txn[t].xid].state = "prepared" => c \in call[t].todo
                   /\ branch[c][txn[t].xid].state = "committed" => "commit" \in call[t].saw
            /\ call[t].pc = "rollback" =>
                   /\ branch[c][txn[t].xid].state # "committed"
                   /\ branch[c][txn[t].xid].state = "prepared" => c \in call[t].todo

\* What the two loops make of the answers.
SawOf(t) ==
    /\ call[t].pc = "prepare" => call[t].saw = {}
    /\ call[t].pc = "commit" /\ ~faulty[txn[t].xid] => call[t].saw \subseteq {"commit", "forgot"}
    /\ call[t].pc = "rollback" => call[t].saw \subseteq {"rollback"}

\* A commit() that is still read only has passed empty contexts.
ReadOnlyOf(t) ==
    call[t].pc = "prepare" /\ call[t].readOnly =>
        \A c \in DOMAIN txn[t].registeredCache \ call[t].todo :
            DOMAIN txn[t].registeredCache[c] = {}

ThreadInv(t) ==
    /\ CallOf(t) /\ ViewOf(t) /\ ReadsOf(t) /\ HeldOf(t)
    /\ VotesOf(t) /\ ListedOf(t) /\ InOrderOf(t) /\ SawOf(t) /\ ReadOnlyOf(t)

-----------------------------------------------------------------------------
(* The inductive invariant: of a transaction, present, past or to come *)

\* The transactions of a thread are numbered in turn: x is over, or has not begun.
Over(x) == x[2] < txn[x[1]].xid[2]
Ahead(x) == x[2] > txn[x[1]].xid[2] \/ (x = txn[x[1]].xid /\ txn[x[1]].status # "ACTIVE")

\* Nothing was read, prepared or voted for a transaction that has not begun; nothing was
\* reported of one that is not over.
AheadOf(x) ==
    /\ Ahead(x) => reads[x] = {} /\ voted[x] = {} /\ \A c \in Cache : branch[c][x].state = "none"
    /\ ~Over(x) => report[x] = "none"

\* A prepared branch has something to write and keeps what was read.
PreparedOf(x) ==
    \A c \in Cache : branch[c][x].state = "prepared" =>
        /\ DOMAIN branch[c][x].entries # {}
        /\ \A r \in reads[x] :
            r.cache = c /\ r.key \in DOMAIN branch[c][x].entries =>
                Says(branch[c][x].entries[r.key], r.version)

\* RollbackReachesPrepared and AtomicUnlessFaulty of one transaction.
ReachedOf(x) ==
    report[x] \in RolledBack => \A c \in voted[x] : branch[c][x].state # "prepared"

AtomicOf(x) ==
    ~faulty[x] =>
        /\ \A c, d \in Cache : ~(branch[c][x].state = "committed" /\ branch[d][x].state = "rolledback")
        /\ report[x] = "COMMITTED" => \A c \in Cache : branch[c][x].state \in {"none", "committed"}
        /\ report[x] \in RolledBack => \A c \in Cache : branch[c][x].state \in {"none", "rolledback"}

XidInv(x) == AheadOf(x) /\ PreparedOf(x) /\ ReachedOf(x) /\ AtomicOf(x)

-----------------------------------------------------------------------------
(* The inductive invariant: of the locks at the server *)

\* The entry e of key k is current at cache c.
Current(c, k, e) ==
    "NOT_READ" \notin e.controlByte =>
        IF "NON_EXISTING" \in e.controlByte THEN ~store[c][k].exists
        ELSE RemoteVersion(c, k) = e.origMeta

\* The keys of a prepared branch are its own, and stay as PREPARE found them.
LocksOK ==
    \A c \in Cache, x \in Xid : branch[c][x].state = "prepared" =>
        /\ \A y \in Xid : y # x /\ branch[c][y].state = "prepared" =>
               DOMAIN branch[c][y].entries \cap DOMAIN branch[c][x].entries = {}
        /\ \A k \in DOMAIN branch[c][x].entries : Current(c, k, branch[c][x].entries[k])

IInv ==
    /\ Types
    /\ \A t \in Thread : ThreadInv(t)
    /\ \A x \in Xid : XidInv(x)
    /\ LocksOK

-----------------------------------------------------------------------------
(* The operators *)

\* Next takes the caches of a call in the order of their addresses: there is a least one.
LEMMA LeastIsMember ==
    ASSUME NEW S \in SUBSET Nat, S # {}
    PROVE  Least(S) \in S
<1> DEFINE less == {ss \in Nat \X Nat : ss[1] < ss[2]}
<1>1. IsWellFoundedOn(less, Nat)
  BY NatLessThanWellFounded DEF OpToRel
<1>2. PICK c \in S : \A d \in S : <<d, c>> \notin less
  BY <1>1, WFMin
<1>3. ASSUME NEW d \in S
      PROVE  c <= d
  <2>1. ~(d < c)
    BY <1>2
  <2> QED
    BY <2>1
<1> QED
  BY <1>3 DEF Least

LEMMA ContextsForm ==
    /\ \A tc \in Contexts : DOMAIN tc \subseteq Key /\ tc \in [DOMAIN tc -> ContextEntry]
    /\ \A S \in SUBSET Key : \A tc \in [S -> ContextEntry] : tc \in Contexts
BY DEF Contexts

LEMMA RegistrationsForm ==
    /\ \A reg \in Registrations : DOMAIN reg \subseteq Cache /\ reg \in [DOMAIN reg -> Contexts]
    /\ \A S \in SUBSET Cache : \A reg \in [S -> Contexts] : reg \in Registrations
BY DEF Registrations

LEMMA EmptyForms ==
    /\ EmptyEntry \in ContextEntry
    /\ Empty \in Contexts /\ DOMAIN Empty = {}
    /\ [c \in {} |-> Empty] \in Registrations
<1>1. EmptyEntry \in ContextEntry
  BY DEF EmptyEntry, ContextEntry, Null, ControlBit
<1>2. Empty \in Contexts /\ DOMAIN Empty = {}
  BY <1>1, ContextsForm DEF Empty
<1>3. [c \in {} |-> Empty] \in Registrations
  BY <1>2, RegistrationsForm
<1> QED
  BY <1>1, <1>2, <1>3

LEMMA PutInContext ==
    ASSUME NEW tc \in Contexts, NEW k \in Key, NEW e \in ContextEntry
    PROVE  /\ PutAt(tc, k, e) \in Contexts
           /\ DOMAIN PutAt(tc, k, e) = DOMAIN tc \cup {k}
           /\ PutAt(tc, k, e)[k] = e
           /\ \A j \in DOMAIN tc \ {k} : PutAt(tc, k, e)[j] = tc[j]
<1>1. DOMAIN tc \cup {k} \in SUBSET Key /\ \A j \in DOMAIN tc : tc[j] \in ContextEntry
  BY ContextsForm
<1>2. PutAt(tc, k, e) \in [DOMAIN tc \cup {k} -> ContextEntry]
  BY <1>1 DEF PutAt
<1>3. PutAt(tc, k, e) \in Contexts
  BY <1>1, <1>2, ContextsForm
<1> QED
  BY <1>3 DEF PutAt

LEMMA PutInRegistration ==
    ASSUME NEW reg \in Registrations, NEW c \in Cache, NEW tc \in Contexts
    PROVE  /\ PutAt(reg, c, tc) \in Registrations
           /\ DOMAIN PutAt(reg, c, tc) = DOMAIN reg \cup {c}
           /\ PutAt(reg, c, tc)[c] = tc
           /\ \A d \in DOMAIN reg \ {c} : PutAt(reg, c, tc)[d] = reg[d]
<1>1. DOMAIN reg \cup {c} \in SUBSET Cache /\ \A d \in DOMAIN reg : reg[d] \in Contexts
  BY RegistrationsForm
<1>2. PutAt(reg, c, tc) \in [DOMAIN reg \cup {c} -> Contexts]
  BY <1>1 DEF PutAt
<1>3. PutAt(reg, c, tc) \in Registrations
  BY <1>1, <1>2, RegistrationsForm
<1> QED
  BY <1>3 DEF PutAt

LEMMA EntryTypes ==
    ASSUME NEW tc \in Contexts, NEW k
    PROVE  /\ getEntry(tc, k) \in ContextEntry
           /\ getValue(tc, k) \in {Own} \cup Nat
           /\ k \in DOMAIN tc => getEntry(tc, k) = tc[k]
<1>1. getEntry(tc, k) \in ContextEntry
  BY ContextsForm, EmptyForms DEF getEntry, hasValue
<1>2. getValue(tc, k) \in {Own} \cup Nat
  BY <1>1 DEF getValue, ContextEntry, Null
<1> QED
  BY <1>1, <1>2 DEF getEntry, hasValue

\* The context after a call on key k: nothing but k may be new or changed, and what
\* PREPARE compares with the server, controlByte and origMeta, stays.
Grown(tc, new, k) ==
    /\ new \in Contexts
    /\ DOMAIN new \in {DOMAIN tc, DOMAIN tc \cup {k}}
    /\ \A j \in DOMAIN tc \ {k} : new[j] = tc[j]
    /\ k \in DOMAIN tc => /\ new[k].controlByte = tc[k].controlByte
                          /\ new[k].origMeta = tc[k].origMeta

LEMMA AddValue ==
    ASSUME NEW tc \in Contexts, NEW k \in Key, NEW v \in {Own} \cup Nat, NEW version \in Nat,
           NEW cb \in SUBSET ControlBit, k \notin DOMAIN tc
    PROVE  LET new == addValue(tc, k, v, version, cb)
           IN  /\ Grown(tc, new, k) /\ k \in DOMAIN new
               /\ getValue(new, k) = v
               /\ new[k].controlByte = cb /\ new[k].origMeta = version
<1> DEFINE new == addValue(tc, k, v, version, cb)
<1>1. PICK e \in ContextEntry :
         /\ new = PutAt(tc, k, e)
         /\ e.action = "SET" /\ e.value = v /\ e.controlByte = cb /\ e.origMeta = version
  <2> DEFINE f == [action |-> "SET", value |-> v, origMeta |-> version, meta |-> version,
                   controlByte |-> cb, valueMarshaller |-> TRUE]
  <2>1. /\ f \in ContextEntry
        /\ f.action = "SET" /\ f.value = v /\ f.controlByte = cb /\ f.origMeta = version
    BY DEF ContextEntry
  <2>2. new = PutAt(tc, k, f)
    BY DEF addValue
  <2> QED
    BY <2>1, <2>2
<1>2. /\ new \in Contexts /\ DOMAIN new = DOMAIN tc \cup {k} /\ new[k] = e
      /\ \A j \in DOMAIN tc \ {k} : new[j] = tc[j]
  <2> HIDE DEF new
  <2>1. PutAt(tc, k, e) \in Contexts
    BY PutInContext
  <2>2. DOMAIN PutAt(tc, k, e) = DOMAIN tc \cup {k}
    BY PutInContext
  <2>3. PutAt(tc, k, e)[k] = e
    BY PutInContext, ZenonT(30)
  <2>4. \A j \in DOMAIN tc \ {k} : PutAt(tc, k, e)[j] = tc[j]
    BY PutInContext, ZenonT(30)
  <2> QED
    BY <1>1, <2>1, <2>2, <2>3, <2>4
<1>3. getValue(new, k) = v
  BY <1>1, <1>2 DEF getValue, getEntry, hasValue
<1> QED
  BY <1>1, <1>2, <1>3 DEF Grown

LEMMA EntryUpdates ==
    ASSUME NEW old \in ContextEntry, NEW v \in {Own} \cup Nat
    PROVE  /\ LET e == [old EXCEPT !.action = "SET", !.value = v, !.meta = old.origMeta + 1,
                                   !.valueMarshaller = TRUE]
              IN  /\ e \in ContextEntry /\ e.action = "SET" /\ e.value = v
                  /\ e.controlByte = old.controlByte /\ e.origMeta = old.origMeta
           /\ LET e == [old EXCEPT !.action = "DELETED", !.value = Null, !.meta = old.origMeta + 1]
              IN  /\ e \in ContextEntry /\ e.action = "DELETED"
                  /\ e.controlByte = old.controlByte /\ e.origMeta = old.origMeta
<1>1. \A x \in ContextEntry : \A a \in {"SET", "DELETED"} :
         LET y == [x EXCEPT !.action = a]
         IN  /\ y \in ContextEntry /\ y.action = a /\ y.value = x.value
             /\ y.controlByte = x.controlByte /\ y.origMeta = x.origMeta
  BY DEF ContextEntry
<1>2. \A x \in ContextEntry : \A w \in {Own} \cup Nat :
         LET y == [x EXCEPT !.value = w]
         IN  /\ y \in ContextEntry /\ y.action = x.action /\ y.value = w
             /\ y.controlByte = x.controlByte /\ y.origMeta = x.origMeta
  BY DEF ContextEntry
<1>3. \A x \in ContextEntry : \A n \in Nat :
         LET y == [x EXCEPT !.meta = n]
         IN  /\ y \in ContextEntry /\ y.action = x.action /\ y.value = x.value
             /\ y.controlByte = x.controlByte /\ y.origMeta = x.origMeta
  BY DEF ContextEntry
<1>4. \A x \in ContextEntry :
         LET y == [x EXCEPT !.valueMarshaller = TRUE]
         IN  /\ y \in ContextEntry /\ y.action = x.action /\ y.value = x.value
             /\ y.controlByte = x.controlByte /\ y.origMeta = x.origMeta
  BY DEF ContextEntry
<1>5. old.origMeta + 1 \in Nat /\ Null \in {Own} \cup Nat
  BY DEF ContextEntry, Null
<1> DEFINE s1 == [old EXCEPT !.action = "SET"]
           s2 == [s1 EXCEPT !.value = v]
           s3 == [s2 EXCEPT !.meta = old.origMeta + 1]
           s4 == [s3 EXCEPT !.valueMarshaller = TRUE]
           d1 == [old EXCEPT !.action = "DELETED"]
           d2 == [d1 EXCEPT !.value = Null]
           d3 == [d2 EXCEPT !.meta = old.origMeta + 1]
<1>6. /\ s1 \in ContextEntry /\ s1.action = "SET"
      /\ s1.controlByte = old.controlByte /\ s1.origMeta = old.origMeta
      /\ d1 \in ContextEntry /\ d1.action = "DELETED"
      /\ d1.controlByte = old.controlByte /\ d1.origMeta = old.origMeta
  BY <1>1
<1>7. /\ s2 \in ContextEntry /\ s2.action = "SET" /\ s2.value = v
      /\ s2.controlByte = old.controlByte /\ s2.origMeta = old.origMeta
      /\ d2 \in ContextEntry /\ d2.action = "DELETED"
      /\ d2.controlByte = old.controlByte /\ d2.origMeta = old.origMeta
  <2> HIDE DEF s1, d1
  <2> QED
    BY <1>2, <1>5, <1>6
<1>8. /\ s3 \in ContextEntry /\ s3.action = "SET" /\ s3.value = v
      /\ s3.controlByte = old.controlByte /\ s3.origMeta = old.origMeta
      /\ d3 \in ContextEntry /\ d3.action = "DELETED"
      /\ d3.controlByte = old.controlByte /\ d3.origMeta = old.origMeta
  <2> HIDE DEF s2, d2
  <2> QED
    BY <1>3, <1>5, <1>7
<1>9. /\ s4 \in ContextEntry /\ s4.action = "SET" /\ s4.value = v
      /\ s4.controlByte = old.controlByte /\ s4.origMeta = old.origMeta
  <2> HIDE DEF s3
  <2> QED
    BY <1>4, <1>8
<1> QED
  BY <1>8, <1>9, Zenon

LEMMA SetValue ==
    ASSUME NEW tc \in Contexts, NEW k \in Key, NEW v \in {Own} \cup Nat
    PROVE  LET new == setValue(tc, k, v)
           IN  Grown(tc, new, k) /\ k \in DOMAIN new /\ getValue(new, k) = v
<1> DEFINE old == getEntry(tc, k)
           e == [old EXCEPT !.action = "SET", !.value = v, !.meta = old.origMeta + 1,
                            !.valueMarshaller = TRUE]
           new == setValue(tc, k, v)
<1>1. old \in ContextEntry /\ (k \in DOMAIN tc => old = tc[k])
  BY EntryTypes
<1>2. /\ e \in ContextEntry
      /\ e.action = "SET" /\ e.value = v
      /\ e.controlByte = old.controlByte /\ e.origMeta = old.origMeta
  BY <1>1, EntryUpdates
<1>3. new = PutAt(tc, k, e)
  BY DEF setValue
<1> HIDE DEF e, old
<1>4. /\ new \in Contexts /\ DOMAIN new = DOMAIN tc \cup {k} /\ new[k] = e
      /\ \A j \in DOMAIN tc \ {k} : new[j] = tc[j]
  <2>1. e \in ContextEntry
    BY <1>2
  <2>2. /\ PutAt(tc, k, e) \in Contexts /\ DOMAIN PutAt(tc, k, e) = DOMAIN tc \cup {k}
        /\ PutAt(tc, k, e)[k] = e /\ \A j \in DOMAIN tc \ {k} : PutAt(tc, k, e)[j] = tc[j]
    BY <2>1, PutInContext, ZenonT(30)
  <2> QED
    BY <1>3, <2>2
<1>5. getValue(new, k) = v
  BY <1>2, <1>4 DEF getValue, getEntry, hasValue
<1> QED
  BY <1>1, <1>2, <1>4, <1>5 DEF Grown

LEMMA SetValueAsDeleted ==
    ASSUME NEW tc \in Contexts, NEW k \in Key
    PROVE  LET new == setValueAsDeleted(tc, k)
           IN  Grown(tc, new, k) /\ k \in DOMAIN new /\ getValue(new, k) = Null
<1> DEFINE old == getEntry(tc, k)
           e == [old EXCEPT !.action = "DELETED", !.value = Null, !.meta = old.origMeta + 1]
           new == setValueAsDeleted(tc, k)
<1>1. old \in ContextEntry /\ (k \in DOMAIN tc => old = tc[k])
  BY EntryTypes
<1>2. /\ e \in ContextEntry
      /\ e.action = "DELETED"
      /\ e.controlByte = old.controlByte /\ e.origMeta = old.origMeta
  BY <1>1, EntryUpdates
<1>3. new = PutAt(tc, k, e)
  BY DEF setValueAsDeleted
<1> HIDE DEF e, old
<1>4. /\ new \in Contexts /\ DOMAIN new = DOMAIN tc \cup {k} /\ new[k] = e
      /\ \A j \in DOMAIN tc \ {k} : new[j] = tc[j]
  <2>1. e \in ContextEntry
    BY <1>2
  <2>2. /\ PutAt(tc, k, e) \in Contexts /\ DOMAIN PutAt(tc, k, e) = DOMAIN tc \cup {k}
        /\ PutAt(tc, k, e)[k] = e /\ \A j \in DOMAIN tc \ {k} : PutAt(tc, k, e)[j] = tc[j]
    BY <2>1, PutInContext, ZenonT(30)
  <2> QED
    BY <1>3, <2>2
<1>5. getValue(new, k) = Null
  BY <1>2, <1>4 DEF getValue, getEntry, hasValue
<1> QED
  BY <1>1, <1>2, <1>4, <1>5 DEF Grown

LEMMA GrownTwice ==
    ASSUME NEW tc \in Contexts, NEW mid, NEW new, NEW k \in Key,
           Grown(tc, mid, k), Grown(mid, new, k)
    PROVE  Grown(tc, new, k)
BY DEF Grown

LEMMA GrownSame ==
    ASSUME NEW tc \in Contexts, NEW k
    PROVE  Grown(tc, tc, k)
BY DEF Grown

\* transactional_base_get leaves the key in the context; when it was read at the server
\* its entry says which version.
LEMMA FetchedForm ==
    ASSUME ServerTypes, NEW tc \in Contexts, NEW c \in Cache, NEW k \in Key
    PROVE  LET got == Fetched(tc, c, k)
           IN  /\ Grown(tc, got, k) /\ k \in DOMAIN got
               /\ RemoteVersion(c, k) \in Nat
               /\ k \in DOMAIN tc => got = tc
               /\ k \notin DOMAIN tc => Says(got[k], RemoteVersion(c, k))
<1> DEFINE cb == IF store[c][k].exists THEN {} ELSE {"NON_EXISTING"}
           got == Fetched(tc, c, k)
<1>1. store[c][k].version \in Nat
  BY DEF ServerTypes
<1>2. RemoteVersion(c, k) \in Nat /\ RemoteValue(c, k) \in Nat
  BY <1>1 DEF RemoteVersion, RemoteValue, Null
<1>3. CASE k \in DOMAIN tc
  BY <1>2, <1>3, GrownSame DEF Fetched, hasValue
<1>4. CASE k \notin DOMAIN tc
  <2>1. got = addValue(tc, k, RemoteValue(c, k), RemoteVersion(c, k), cb)
    BY <1>4 DEF Fetched, hasValue
  <2>2. cb \in SUBSET ControlBit
    BY DEF ControlBit
  <2> HIDE DEF cb
  <2>3. /\ Grown(tc, got, k) /\ k \in DOMAIN got
        /\ got[k].controlByte = cb /\ got[k].origMeta = RemoteVersion(c, k)
    BY <1>2, <1>4, <2>1, <2>2, AddValue
  <2>4. Says(got[k], RemoteVersion(c, k))
    BY <2>3 DEF Says, cb, RemoteVersion
  <2> QED
    BY <1>2, <1>4, <2>3, <2>4
<1> QED
  BY <1>3, <1>4

-----------------------------------------------------------------------------
(* What every step does, as the invariants see it *)

\* A call on key k of cache c in a transaction leaves the context new there.
Accessed(t, c, k, new) ==
    /\ txn[t].status = "ACTIVE" /\ call[t].pc = "idle"
    /\ Grown(getTransactionContext(t, c), new, k)
    /\ txn' = [txn EXCEPT ![t].registeredCache = PutAt(txn[t].registeredCache, c, new)]
    /\ \/ k \in DOMAIN new /\ view' = [view EXCEPT ![t][c][k] = {getValue(new, k)}]
       \/ /\ k \in DOMAIN getTransactionContext(t, c) => new[k] = getTransactionContext(t, c)[k]
          /\ view' = view
    /\ \/ reads' = reads
       \/ /\ k \in DOMAIN new \ DOMAIN getTransactionContext(t, c)
          /\ \E v \in Nat :
              /\ Says(new[k], v)
              /\ reads' = [reads EXCEPT ![txn[t].xid] =
                               @ \cup {[cache |-> c, key |-> k, version |-> v]}]
    /\ UNCHANGED <<store, branch, call, up, voted, faulty, report>>

LEMMA ContextType ==
    ASSUME ClientTypes, NEW t \in Thread, NEW c
    PROVE  getTransactionContext(t, c) \in Contexts
<1>1. txn[t].registeredCache \in Registrations
  BY DEF ClientTypes, Txn
<1> QED
  BY <1>1, RegistrationsForm, EmptyForms DEF getTransactionContext

\* The form of a call that fetches the key and ends with the context new.
LEMMA FetchingAccess ==
    ASSUME Types, NEW t \in Thread, NEW c \in Cache, NEW k \in Key, NEW new,
           txn[t].status = "ACTIVE",
           InContext(t, c, new),
           Notes(t, c, k, TRUE, {getValue(new, k)}),
           Grown(Fetched(getTransactionContext(t, c), c, k), new, k),
           k \in DOMAIN new
    PROVE  Accessed(t, c, k, new)
<1> DEFINE tc == getTransactionContext(t, c)
           got == Fetched(tc, c, k)
<1>1. tc \in Contexts
  BY ContextType DEF Types
<1> HIDE DEF tc
<1>2. /\ Grown(tc, got, k) /\ k \in DOMAIN got
      /\ RemoteVersion(c, k) \in Nat
      /\ k \notin DOMAIN tc => Says(got[k], RemoteVersion(c, k))
  BY <1>1, FetchedForm DEF Types
<1> HIDE DEF got
<1>3. Grown(got, new, k)
  BY DEF got, tc
<1>4. Grown(tc, new, k)
  BY <1>1, <1>2, <1>3, GrownTwice
<1>5. \/ reads' = reads
      \/ /\ k \notin DOMAIN tc
         /\ reads' = [reads EXCEPT ![txn[t].xid] =
                          @ \cup {[cache |-> c, key |-> k, version |-> RemoteVersion(c, k)]}]
  BY DEF Notes, hasValue, tc
<1>6. k \notin DOMAIN tc => Says(new[k], RemoteVersion(c, k))
  BY <1>2, <1>3 DEF Grown, Says
<1>7. view' = [view EXCEPT ![t][c][k] = {getValue(new, k)}]
  BY DEF Notes
<1>8. /\ call[t].pc = "idle"
      /\ txn' = [txn EXCEPT ![t].registeredCache = PutAt(txn[t].registeredCache, c, new)]
      /\ UNCHANGED <<store, branch, call, up, voted, faulty, report>>
  BY DEF InContext
<1> QED
  BY <1>2, <1>4, <1>5, <1>6, <1>7, <1>8 DEF Accessed, tc

\* The form of one that does not.
LEMMA LocalAccess ==
    ASSUME Types, NEW t \in Thread, NEW c \in Cache, NEW k, NEW new,
           txn[t].status = "ACTIVE",
           InContext(t, c, new), reads' = reads,
           Grown(getTransactionContext(t, c), new, k),
           \/ k \in DOMAIN new /\ view' = [view EXCEPT ![t][c][k] = {getValue(new, k)}]
           \/ /\ k \in DOMAIN getTransactionContext(t, c) => new[k] = getTransactionContext(t, c)[k]
              /\ view' = view
    PROVE  Accessed(t, c, k, new)
BY DEF Accessed, InContext

LEMMA WrittenForm ==
    ASSUME NEW tc \in Contexts, NEW c, NEW k \in Key
    PROVE  LET new == Written(tc, c, k, FALSE)
           IN  Grown(tc, new, k) /\ k \in DOMAIN new /\ getValue(new, k) = Own
<1>1. Own \in {Own} \cup Nat /\ 0 \in Nat /\ {"NOT_READ"} \in SUBSET ControlBit
  BY DEF ControlBit
<1>2. CASE k \in DOMAIN tc
  BY <1>1, <1>2, SetValue DEF Written, hasValue
<1>3. CASE k \notin DOMAIN tc
  BY <1>1, <1>3, AddValue DEF Written, hasValue
<1> QED
  BY <1>2, <1>3

\* Every call of the cache inside a transaction has the form.
LEMMA AccessForm ==
    ASSUME Types, NEW t \in Thread, NEW c \in Cache, NEW k \in Key, Access(t, c, k)
    PROVE  \E new : Accessed(t, c, k, new)
<1> DEFINE tc == getTransactionContext(t, c)
           got == Fetched(tc, c, k)
<1>1. tc \in Contexts
  BY ContextType DEF Types
<1>2. txn[t].status = "ACTIVE"
  <2>1. txn[t].status \in {"NO_TRANSACTION", "ACTIVE"}
    BY DEF Types, ClientTypes, Txn
  <2> QED
    BY <2>1 DEF Access, base_get, base_put, base_putIfAbsent, base_replace, base_remove,
                base_containsKey, base_replaceWithVersion, base_removeWithVersion
<1> HIDE DEF tc
<1>3. Grown(tc, got, k) /\ k \in DOMAIN got /\ got \in Contexts
  <2>1. Grown(tc, got, k) /\ k \in DOMAIN got
    BY <1>1, FetchedForm DEF Types
  <2> QED
    BY <2>1 DEF Grown
<1> HIDE DEF got
<1>4. Grown(got, got, k) /\ Grown(tc, tc, k)
  BY <1>1, <1>3, GrownSame
<1>5. /\ Grown(got, setValue(got, k, Own), k) /\ k \in DOMAIN setValue(got, k, Own)
      /\ getValue(setValue(got, k, Own), k) = Own
  BY <1>3, SetValue
<1>6. /\ Grown(got, setValueAsDeleted(got, k), k) /\ k \in DOMAIN setValueAsDeleted(got, k)
      /\ getValue(setValueAsDeleted(got, k), k) = Null
  BY <1>3, SetValueAsDeleted
<1>7. /\ Grown(got, Written(got, c, k, FALSE), k) /\ k \in DOMAIN Written(got, c, k, FALSE)
      /\ getValue(Written(got, c, k, FALSE), k) = Own
  BY <1>3, WrittenForm
<1>8. ASSUME NEW new, InContext(t, c, new), Notes(t, c, k, TRUE, {getValue(new, k)}),
             Grown(got, new, k), k \in DOMAIN new
      PROVE  Accessed(t, c, k, new)
  BY <1>2, <1>8, FetchingAccess DEF got, tc
<1>9. ASSUME NEW new, InContext(t, c, new), reads' = reads, Grown(tc, new, k),
             \/ k \in DOMAIN new /\ view' = [view EXCEPT ![t][c][k] = {getValue(new, k)}]
             \/ (k \in DOMAIN tc => new[k] = tc[k]) /\ view' = view
      PROVE  Accessed(t, c, k, new)
  BY <1>2, <1>9, LocalAccess DEF tc
<1>10. CASE base_get(t, c, k)
  <2>1. \/ InContext(t, c, got) /\ Notes(t, c, k, TRUE, {getValue(got, k)})
        \/ InContext(t, c, tc) /\ reads' = reads /\ view' = view
    BY <1>10 DEF base_get, got, tc, clientVars
  <2> QED
    BY <2>1, <1>3, <1>4, <1>8, <1>9
<1>11. CASE base_put(t, c, k)
  <2>1. CASE forceReturnValue[c]
    <3>1. Written(tc, c, k, forceReturnValue[c]) = Written(got, c, k, FALSE)
      BY <2>1 DEF Written, got
    <3>2. InContext(t, c, Written(got, c, k, FALSE)) /\ Notes(t, c, k, TRUE, {Own})
      BY <1>11, <2>1, <3>1 DEF base_put, tc, Notes
    <3> QED
      BY <3>2, <1>7, <1>8
  <2>2. CASE ~forceReturnValue[c]
    <3>1. Written(tc, c, k, forceReturnValue[c]) = Written(tc, c, k, FALSE)
      BY <2>2 DEF Written
    <3>2. InContext(t, c, Written(tc, c, k, FALSE))
      BY <1>11, <3>1 DEF base_put, tc
    <3>3. view' = [view EXCEPT ![t][c][k] = {Own}] /\ reads' = reads
      BY <1>11, <2>2 DEF base_put, Notes
    <3>4. /\ Grown(tc, Written(tc, c, k, FALSE), k) /\ k \in DOMAIN Written(tc, c, k, FALSE)
          /\ getValue(Written(tc, c, k, FALSE), k) = Own
      BY <1>1, WrittenForm
    <3> QED
      BY <3>2, <3>3, <3>4, <1>9
  <2> QED
    BY <2>1, <2>2
<1>12. CASE base_putIfAbsent(t, c, k)
  <2>1. \/ InContext(t, c, Written(got, c, k, FALSE)) /\ Notes(t, c, k, TRUE, {Own})
        \/ InContext(t, c, got) /\ Notes(t, c, k, TRUE, {getValue(got, k)})
    BY <1>12 DEF base_putIfAbsent, got, tc
  <2> QED
    BY <2>1, <1>3, <1>4, <1>7, <1>8
<1>13. CASE base_replace(t, c, k)
  <2>1. \/ InContext(t, c, setValue(got, k, Own)) /\ Notes(t, c, k, TRUE, {Own})
        \/ InContext(t, c, got) /\ Notes(t, c, k, TRUE, {getValue(got, k)})
    BY <1>13 DEF base_replace, got, tc
  <2> QED
    BY <2>1, <1>3, <1>4, <1>5, <1>8
<1>14. CASE base_remove(t, c, k)
  <2>1. CASE forceReturnValue[c]
    <3>1. InContext(t, c, setValueAsDeleted(got, k)) /\ Notes(t, c, k, TRUE, {Null})
      BY <1>14, <2>1 DEF base_remove, got, tc, Notes
    <3> QED
      BY <3>1, <1>6, <1>8
  <2>2. CASE ~forceReturnValue[c]
    <3>1. InContext(t, c, setValueAsDeleted(tc, k))
      BY <1>14, <2>2 DEF base_remove, tc
    <3>2. view' = [view EXCEPT ![t][c][k] = {Null}] /\ reads' = reads
      BY <1>14, <2>2 DEF base_remove, Notes
    <3>3. /\ Grown(tc, setValueAsDeleted(tc, k), k) /\ k \in DOMAIN setValueAsDeleted(tc, k)
          /\ getValue(setValueAsDeleted(tc, k), k) = Null
      BY <1>1, SetValueAsDeleted
    <3> QED
      BY <3>1, <3>2, <3>3, <1>9
  <2> QED
    BY <2>1, <2>2
<1>15. CASE base_containsKey(t, c, k)
  <2> DEFINE new == PutAt(tc, k, getEntry(tc, k))
  <2>1. InContext(t, c, new) /\ reads' = reads /\ view' = view
    BY <1>15 DEF base_containsKey, tc, clientVars
  <2>2. getEntry(tc, k) \in ContextEntry /\ (k \in DOMAIN tc => getEntry(tc, k) = tc[k])
    BY <1>1, EntryTypes
  <2>3. new \in Contexts
    BY <1>1, <2>2, PutInContext
  <2>4. DOMAIN new = DOMAIN tc \cup {k} /\ new[k] = getEntry(tc, k)
    BY <1>1, <2>2, PutInContext
  <2>5. \A j \in DOMAIN tc \ {k} : new[j] = tc[j]
    BY <1>1, <2>2, PutInContext
  <2>6. Grown(tc, new, k) /\ (k \in DOMAIN tc => new[k] = tc[k])
    BY <2>2, <2>3, <2>4, <2>5 DEF Grown
  <2> QED
    BY <2>1, <2>6, <1>9
<1>16. ASSUME NEW version, base_replaceWithVersion(t, c, k, version)
       PROVE  \E new : Accessed(t, c, k, new)
  <2>1. \/ InContext(t, c, setValue(got, k, Own)) /\ Notes(t, c, k, TRUE, {Own})
        \/ InContext(t, c, got) /\ Notes(t, c, k, TRUE, {getValue(got, k)})
    BY <1>16 DEF base_replaceWithVersion, got, tc
  <2> QED
    BY <2>1, <1>3, <1>4, <1>5, <1>8
<1>17. ASSUME NEW version, base_removeWithVersion(t, c, k, version)
       PROVE  \E new : Accessed(t, c, k, new)
  <2>1. \/ InContext(t, c, setValueAsDeleted(got, k)) /\ Notes(t, c, k, TRUE, {Null})
        \/ InContext(t, c, got) /\ Notes(t, c, k, TRUE, {getValue(got, k)})
    BY <1>17 DEF base_removeWithVersion, got, tc
  <2> QED
    BY <2>1, <1>3, <1>4, <1>6, <1>8
<1> QED
  BY <1>10, <1>11, <1>12, <1>13, <1>14, <1>15, <1>16, <1>17 DEF Access

LEMMA BulkForm ==
    ASSUME Types, NEW t \in Thread, NEW c \in Cache, base_getBulk(t, c)
    PROVE  \E new : Accessed(t, c, c, new)
<1>1. txn[t].status = "ACTIVE"
  BY DEF Types, ClientTypes, Txn, base_getBulk
<1>2. Grown(getTransactionContext(t, c), getTransactionContext(t, c), c)
  BY ContextType, GrownSame DEF Types
<1>3. Accessed(t, c, c, getTransactionContext(t, c))
  BY <1>1, <1>2, LocalAccess DEF base_getBulk, clientVars
<1> QED
  BY <1>3

-----------------------------------------------------------------------------
(* A step of one thread concerns its present transaction alone *)

Alone(t) ==
    /\ txn[t].xid \in Xid
    /\ \A u \in Thread \ {t} : txn'[u] = txn[u] /\ call'[u] = call[u] /\ view'[u] = view[u]
    /\ \A y \in Xid \ {txn[t].xid} :
        /\ reads'[y] = reads[y] /\ voted'[y] = voted[y]
        /\ faulty'[y] = faulty[y] /\ report'[y] = report[y]
        /\ \A c \in Cache : branch'[c][y] = branch[c][y]
    /\ \/ txn'[t].xid = txn[t].xid
       \/ txn'[t].xid = <<t, txn[t].xid[2] + 1>> /\ txn'[t].status # "ACTIVE"

LEMMA AloneThreads ==
    ASSUME Types, NEW t \in Thread, Alone(t), NEW u \in Thread, u # t, ThreadInv(u)
    PROVE  ThreadInv(u)'
<1>1. txn[u].xid # txn[t].xid
  BY DEF Types, ClientTypes
<1>2. txn'[u] = txn[u] /\ call'[u] = call[u] /\ view'[u] = view[u]
  BY DEF Alone
<1>3. txn[u].xid \in Xid =>
        /\ reads'[txn[u].xid] = reads[txn[u].xid] /\ voted'[txn[u].xid] = voted[txn[u].xid]
        /\ faulty'[txn[u].xid] = faulty[txn[u].xid]
        /\ \A c \in Cache : branch'[c][txn[u].xid] = branch[c][txn[u].xid]
  BY <1>1 DEF Alone
<1>4. CallOf(u)' /\ ViewOf(u)' /\ ReadOnlyOf(u)'
  BY <1>2 DEF ThreadInv, CallOf, ViewOf, ReadOnlyOf
<1>5. ReadsOf(u)' /\ HeldOf(u)'
  BY <1>2, <1>3 DEF ThreadInv, ReadsOf, HeldOf
<1>6. call[u].pc # "idle" => txn[u].xid \in Xid
  BY DEF ThreadInv, CallOf
<1>7. VotesOf(u)' /\ SawOf(u)'
  BY <1>2, <1>3, <1>6 DEF ThreadInv, VotesOf, SawOf
<1>8. ListedOf(u)'
  <2>1. txn[u].xid \in Xid => voted[txn[u].xid] \subseteq Cache
    BY DEF Types, HistoryTypes
  <2> QED
    BY <1>2, <1>3, <2>1 DEF ThreadInv, ListedOf
<1>9. InOrderOf(u)'
  BY <1>2, <1>3 DEF ThreadInv, InOrderOf
<1> QED
  BY <1>4, <1>5, <1>7, <1>8, <1>9 DEF ThreadInv

LEMMA AloneXids ==
    ASSUME Types, NEW t \in Thread, Alone(t), NEW x \in Xid, x # txn[t].xid, XidInv(x)
    PROVE  XidInv(x)'
<1>1. /\ reads'[x] = reads[x] /\ voted'[x] = voted[x]
      /\ faulty'[x] = faulty[x] /\ report'[x] = report[x]
      /\ \A c \in Cache : branch'[c][x] = branch[c][x]
  BY DEF Alone
<1>2. /\ x = <<x[1], x[2]>> /\ x[1] \in Thread /\ x[2] \in Int
      /\ txn[t].xid = <<t, txn[t].xid[2]>> /\ txn[t].xid[2] \in Int
  BY DEF Xid, Types, ClientTypes, Txn
<1>3. (Ahead(x)' => Ahead(x)) /\ (Over(x)' <=> Over(x))
  <2>1. CASE x[1] # t
    BY <1>2, <2>1 DEF Alone, Ahead, Over
  <2>2. CASE x[1] = t
    <3>1. x[2] # txn[t].xid[2]
      BY <1>2, <2>2
    <3>2. CASE txn'[t].xid = txn[t].xid
      BY <2>2, <3>2 DEF Ahead, Over
    <3>3. CASE txn'[t].xid = <<t, txn[t].xid[2] + 1>>
      <4>1. txn'[t].xid[2] = txn[t].xid[2] + 1
        BY <3>3
      <4>2. Over(x)' <=> Over(x)
        BY <1>2, <2>2, <3>1, <4>1 DEF Over
      <4>3. Ahead(x)' => x[2] >= txn[t].xid[2] + 1
        BY <1>2, <2>2, <4>1 DEF Ahead
      <4>4. Ahead(x)' => Ahead(x)
        BY <1>2, <2>2, <4>3 DEF Ahead
      <4> QED
        BY <4>2, <4>4
    <3> QED
      BY <3>2, <3>3 DEF Alone
  <2> QED
    BY <2>1, <2>2
<1>4. AheadOf(x)'
  BY <1>1, <1>3 DEF XidInv, AheadOf
<1>5. PreparedOf(x)'
  BY <1>1 DEF XidInv, PreparedOf
<1>6. ReachedOf(x)' /\ AtomicOf(x)'
  <2>1. voted[x] \subseteq Cache
    BY DEF Types, HistoryTypes
  <2> QED
    BY <1>1, <2>1 DEF XidInv, ReachedOf, AtomicOf
<1> QED
  BY <1>4, <1>5, <1>6 DEF XidInv

\* What a step of thread t must show; the rest of the invariant follows.
Preserved(t) ==
    /\ Types' /\ Alone(t) /\ ThreadInv(t)' /\ LocksOK'
    /\ \A x \in Xid : x = txn[t].xid => XidInv(x)'

LEMMA PreservedSuffices ==
    ASSUME IInv, NEW t \in Thread, Preserved(t)
    PROVE  IInv'
<1>1. \A u \in Thread : ThreadInv(u)'
  BY AloneThreads DEF IInv, Preserved
<1>2. \A x \in Xid : XidInv(x)'
  BY AloneXids DEF IInv, Preserved
<1> QED
  BY <1>1, <1>2 DEF IInv, Preserved

\* The server's side of the invariant.
LEMMA LocksUnchanged ==
    ASSUME LocksOK, UNCHANGED <<store, branch>>
    PROVE  LocksOK'
BY DEF LocksOK, Current, RemoteVersion

LEMMA PresentAhead ==
    ASSUME NEW t \in Thread, NEW x \in Xid, x[1] = t, txn[t].xid = x, txn'[t].xid = x,
           txn'[t].status = "ACTIVE", report'[x] = report[x], AheadOf(x)
    PROVE  AheadOf(x)'
<1>1. ~(x[2] > x[2]) /\ ~(x[2] < x[2])
  BY DEF Xid
<1>2. ~Ahead(x)'
  BY <1>1 DEF Ahead
<1>3. ~Over(x)
  BY <1>1 DEF Over
<1> QED
  BY <1>2, <1>3 DEF AheadOf

-----------------------------------------------------------------------------
(* Reads and writes in a transaction *)

LEMMA AccessedKeeps ==
    ASSUME IInv, NEW t \in Thread, NEW c \in Cache, NEW k, NEW new, Accessed(t, c, k, new)
    PROVE  Preserved(t)
<1> DEFINE reg == txn[t].registeredCache
           reg2 == PutAt(reg, c, new)
           tc == getTransactionContext(t, c)
<1>0. txn[t].status = "ACTIVE" /\ call[t].pc = "idle"
  BY DEF Accessed
<1> PICK x \in Xid : x = txn[t].xid
  BY <1>0 DEF IInv, ThreadInv, CallOf
<1>1. /\ Types /\ ThreadInv(t) /\ XidInv(x) /\ LocksOK
      /\ txn[t].status = "ACTIVE" /\ call[t].pc = "idle"
  BY <1>0 DEF IInv
<1>2. reg \in Registrations /\ tc \in Contexts /\ new \in Contexts
  BY ContextType DEF Types, ClientTypes, Txn, IInv, Accessed, Grown
<1>3. reg2 \in Registrations
  BY <1>2, PutInRegistration
<1>4. DOMAIN reg2 = DOMAIN reg \cup {c} /\ reg2[c] = new
  BY <1>2, PutInRegistration
<1>5. \A d \in DOMAIN reg \ {c} : reg2[d] = reg[d]
  BY <1>2, PutInRegistration, ZenonT(30)
<1>6. c \in DOMAIN reg => tc = reg[c]
  BY DEF getTransactionContext
<1>7. /\ Grown(tc, new, k) /\ txn' = [txn EXCEPT ![t].registeredCache = reg2]
      /\ UNCHANGED <<store, branch, call, up, voted, faulty, report>>
  BY DEF Accessed
<1>8. /\ \/ k \in DOMAIN new /\ view' = [view EXCEPT ![t][c][k] = {getValue(new, k)}]
         \/ (k \in DOMAIN tc => new[k] = tc[k]) /\ view' = view
      /\ \/ reads' = reads
         \/ /\ k \in DOMAIN new \ DOMAIN tc
            /\ \E v \in Nat :
                /\ Says(new[k], v)
                /\ reads' = [reads EXCEPT ![x] = @ \cup {[cache |-> c, key |-> k, version |-> v]}]
  BY DEF Accessed
<1> HIDE DEF reg2, tc
<1>9. /\ txn' \in [Thread -> Txn]
      /\ txn'[t].registeredCache = reg2 /\ txn'[t].xid = x /\ txn'[t].status = "ACTIVE"
      /\ txn'[t].preparedCache = txn[t].preparedCache
      /\ \A u \in Thread \ {t} : txn'[u] = txn[u]
  <2>1. txn[t] \in Txn /\ [txn[t] EXCEPT !.registeredCache = reg2] \in Txn
    BY <1>1, <1>3 DEF Types, ClientTypes, Txn
  <2>2. txn' \in [Thread -> Txn] /\ txn'[t] = [txn[t] EXCEPT !.registeredCache = reg2]
    BY <1>1, <1>7, <2>1 DEF Types, ClientTypes
  <2>3. \A u \in Thread \ {t} : txn'[u] = txn[u]
    BY <1>1, <1>7 DEF Types, ClientTypes
  <2> QED
    BY <1>1, <2>1, <2>2, <2>3 DEF Txn
<1>10. Types'
  <2>1. ClientTypes'
    BY <1>1, <1>7, <1>9 DEF Types, ClientTypes
  <2>2. view' \in [Thread -> [Cache -> [Key -> SUBSET ({Own} \cup Nat)]]]
    <3>1. CASE view' = view
      BY <1>1, <3>1 DEF Types, HistoryTypes
    <3>2. CASE k \in DOMAIN new /\ view' = [view EXCEPT ![t][c][k] = {getValue(new, k)}]
      <4>1. k \in Key /\ {getValue(new, k)} \in SUBSET ({Own} \cup Nat)
        BY <1>2, <3>2, ContextsForm, EntryTypes
      <4>2. view[t] \in [Cache -> [Key -> SUBSET ({Own} \cup Nat)]]
        BY <1>1 DEF Types, HistoryTypes
      <4>3. [view[t] EXCEPT ![c][k] = {getValue(new, k)}] \in [Cache -> [Key -> SUBSET ({Own} \cup Nat)]]
        BY <4>1, <4>2
      <4> QED
        BY <1>1, <3>2, <4>3 DEF Types, HistoryTypes
    <3> QED
      BY <1>8, <3>1, <3>2
  <2>3. reads' \in [Xid -> SUBSET Reading]
    <3>1. CASE reads' = reads
      BY <1>1, <3>1 DEF Types, HistoryTypes
    <3>2. ASSUME NEW v \in Nat, k \in DOMAIN new,
                 reads' = [reads EXCEPT ![x] = @ \cup {[cache |-> c, key |-> k, version |-> v]}]
          PROVE  reads' \in [Xid -> SUBSET Reading]
      <4>1. k \in Key
        BY <1>2, <3>2, ContextsForm
      <4>2. [cache |-> c, key |-> k, version |-> v] \in Reading
        BY <4>1 DEF Reading
      <4> QED
        BY <1>1, <3>2, <4>2 DEF Types, HistoryTypes
    <3> QED
      BY <1>8, <3>1, <3>2
  <2> QED
    BY <1>1, <1>7, <2>1, <2>2, <2>3 DEF Types, ServerTypes, HistoryTypes
<1>11. Alone(t)
  <2>1. \A u \in Thread \ {t} : view'[u] = view[u]
    BY <1>1, <1>8 DEF Types, HistoryTypes
  <2>2. \A y \in Xid \ {x} : reads'[y] = reads[y]
    BY <1>1, <1>8 DEF Types, HistoryTypes
  <2> QED
    BY <1>1, <1>7, <1>9, <2>1, <2>2 DEF Alone
<1>12. CallOf(t)'
  BY <1>1, <1>4, <1>7, <1>9 DEF ThreadInv, CallOf
<1>13. ViewOf(t)'
  <2> SUFFICES ASSUME NEW d \in Cache, NEW j \in Key, view'[t][d][j] # {}
               PROVE  d \in DOMAIN reg2 /\ j \in DOMAIN reg2[d] /\ view'[t][d][j] = {getValue(reg2[d], j)}
    BY <1>9 DEF ViewOf
  <2>1. CASE d # c
    <3>1. view'[t][d][j] = view[t][d][j]
      BY <1>1, <1>8, <2>1 DEF Types, HistoryTypes
    <3> QED
      BY <1>1, <1>4, <1>5, <2>1, <3>1 DEF ThreadInv, ViewOf
  <2>2. CASE d = c /\ j # k
    <3>1. view'[t][d][j] = view[t][d][j]
      BY <1>1, <1>8, <2>2 DEF Types, HistoryTypes
    <3>2. j \in DOMAIN tc /\ view[t][d][j] = {getValue(tc, j)}
      BY <1>1, <1>6, <2>2, <3>1 DEF ThreadInv, ViewOf
    <3>3. j \in DOMAIN new /\ new[j] = tc[j]
      BY <1>7, <2>2, <3>2 DEF Grown
    <3>4. getValue(new, j) = getValue(tc, j)
      BY <3>2, <3>3 DEF getValue, getEntry, hasValue
    <3> QED
      BY <1>4, <2>2, <3>1, <3>2, <3>3, <3>4
  <2>3. CASE d = c /\ j = k
    <3>1. CASE k \in DOMAIN new /\ view' = [view EXCEPT ![t][c][k] = {getValue(new, k)}]
      BY <1>1, <1>4, <2>3, <3>1 DEF Types, HistoryTypes
    <3>2. CASE (k \in DOMAIN tc => new[k] = tc[k]) /\ view' = view
      <4>1. k \in DOMAIN tc /\ view[t][d][j] = {getValue(tc, k)}
        BY <1>1, <1>6, <2>3, <3>2 DEF ThreadInv, ViewOf
      <4>2. k \in DOMAIN new /\ new[k] = tc[k]
        BY <1>7, <3>2, <4>1 DEF Grown
      <4>3. getValue(new, k) = getValue(tc, k)
        BY <4>1, <4>2 DEF getValue, getEntry, hasValue
      <4> QED
        BY <1>4, <2>3, <3>2, <4>1, <4>2, <4>3
    <3> QED
      BY <1>8, <3>1, <3>2
  <2> QED
    BY <2>1, <2>2, <2>3
<1>14. ReadsOf(t)'
  <2> SUFFICES ASSUME NEW r \in reads'[x]
               PROVE  /\ r.cache \in DOMAIN reg2 /\ r.key \in DOMAIN reg2[r.cache]
                      /\ Says(reg2[r.cache][r.key], r.version)
    BY <1>1, <1>9 DEF ReadsOf
  <2>1. CASE r \in reads[x]
    <3>1. /\ r.cache \in DOMAIN reg /\ r.key \in DOMAIN reg[r.cache]
          /\ Says(reg[r.cache][r.key], r.version)
      BY <1>1, <2>1 DEF ThreadInv, ReadsOf
    <3>2. CASE r.cache # c
      BY <1>4, <1>5, <3>1, <3>2
    <3>3. CASE r.cache = c
      <4>1. r.key \in DOMAIN tc /\ Says(tc[r.key], r.version)
        BY <1>6, <3>1, <3>3
      <4>2. r.key \in DOMAIN new /\ Says(new[r.key], r.version)
        BY <1>7, <4>1 DEF Grown, Says
      <4> QED
        BY <1>4, <3>3, <4>2
    <3> QED
      BY <3>2, <3>3
  <2>2. CASE r \notin reads[x]
    <3>1. PICK v \in Nat : /\ Says(new[k], v) /\ k \in DOMAIN new
                           /\ reads' = [reads EXCEPT ![x] = @ \cup {[cache |-> c, key |-> k, version |-> v]}]
      BY <1>8, <2>2
    <3>2. r = [cache |-> c, key |-> k, version |-> v]
      BY <1>1, <2>2, <3>1 DEF Types, HistoryTypes
    <3> QED
      BY <1>4, <3>1, <3>2
  <2> QED
    BY <2>1, <2>2
<1>15. HeldOf(t)'
  <2> SUFFICES ASSUME NEW d \in Cache, branch[d][x].state = "prepared"
               PROVE  d \in DOMAIN reg2 /\ DOMAIN branch[d][x].entries \subseteq DOMAIN reg2[d]
    BY <1>7, <1>9 DEF HeldOf
  <2>1. d \in DOMAIN reg /\ DOMAIN branch[d][x].entries \subseteq DOMAIN reg[d]
    BY <1>1 DEF ThreadInv, HeldOf
  <2>2. CASE d # c
    BY <1>4, <1>5, <2>1, <2>2
  <2>3. CASE d = c
    <3>1. DOMAIN tc \subseteq DOMAIN new
      BY <1>7 DEF Grown
    <3> QED
      BY <1>4, <1>6, <2>1, <2>3, <3>1
  <2> QED
    BY <2>2, <2>3
<1>16. VotesOf(t)' /\ SawOf(t)' /\ ReadOnlyOf(t)'
  BY <1>1, <1>7 DEF VotesOf, SawOf, ReadOnlyOf
<1>17. ListedOf(t)' /\ InOrderOf(t)'
  BY <1>1, <1>7, <1>9 DEF ThreadInv, ListedOf, InOrderOf
<1>18. PreparedOf(x)'
  <2> SUFFICES ASSUME NEW d \in Cache, branch[d][x].state = "prepared", NEW r \in reads'[x],
                      r.cache = d, r.key \in DOMAIN branch[d][x].entries
               PROVE  Says(branch[d][x].entries[r.key], r.version)
    BY <1>1, <1>7 DEF PreparedOf, XidInv
  <2>1. CASE r \in reads[x]
    BY <1>1, <2>1 DEF XidInv, PreparedOf
  <2>2. CASE r \notin reads[x]
    <3>1. PICK v \in Nat : /\ k \notin DOMAIN tc
                           /\ reads' = [reads EXCEPT ![x] = @ \cup {[cache |-> c, key |-> k, version |-> v]}]
      BY <1>8, <2>2
    <3>2. r = [cache |-> c, key |-> k, version |-> v]
      BY <1>1, <2>2, <3>1 DEF Types, HistoryTypes
    <3>3. c \in DOMAIN reg /\ DOMAIN branch[c][x].entries \subseteq DOMAIN reg[c]
      BY <1>1, <3>2 DEF ThreadInv, HeldOf
    <3> QED
      BY <1>6, <3>1, <3>2, <3>3
  <2> QED
    BY <2>1, <2>2
<1>19. XidInv(x)'
  <2>1. x[1] = t
    BY <1>1 DEF Types, ClientTypes
  <2>2. AheadOf(x)'
    BY <1>1, <1>7, <1>9, <2>1, PresentAhead DEF XidInv
  <2>3. ReachedOf(x)' /\ AtomicOf(x)'
    BY <1>1, <1>7 DEF XidInv, ReachedOf, AtomicOf
  <2> QED
    BY <1>18, <2>2, <2>3 DEF XidInv
<1> QED
  BY <1>1, <1>7, <1>10, <1>11, <1>12, <1>13, <1>14, <1>15, <1>16, <1>17, <1>19, LocksUnchanged
     DEF Preserved, ThreadInv

-----------------------------------------------------------------------------
(* The beginning and the end of a transaction *)

LEMMA TxnUpdates ==
    ASSUME NEW q \in Txn
    PROVE  /\ LET u == [q EXCEPT !.status = "ACTIVE"]
              IN  /\ u \in Txn /\ u.status = "ACTIVE" /\ u.xid = q.xid
                  /\ u.registeredCache = q.registeredCache /\ u.preparedCache = q.preparedCache
           /\ \A P \in SUBSET Cache :
              LET u == [q EXCEPT !.preparedCache = P]
              IN  /\ u \in Txn /\ u.status = q.status /\ u.xid = q.xid
                  /\ u.registeredCache = q.registeredCache /\ u.preparedCache = P
<1>1. LET u == [q EXCEPT !.status = "ACTIVE"]
      IN  /\ u \in Txn /\ u.status = "ACTIVE" /\ u.xid = q.xid
          /\ u.registeredCache = q.registeredCache /\ u.preparedCache = q.preparedCache
  BY DEF Txn
<1>2. \A P \in SUBSET Cache :
        LET u == [q EXCEPT !.preparedCache = P]
        IN  /\ u \in Txn /\ u.status = q.status /\ u.xid = q.xid
            /\ u.registeredCache = q.registeredCache /\ u.preparedCache = P
  BY DEF Txn
<1> QED
  BY <1>1, <1>2

LEMMA BeginKeeps ==
    ASSUME IInv, NEW t \in Thread, begin(t)
    PROVE  Preserved(t)
<1> PICK x \in Xid : x = txn[t].xid
  BY DEF begin
<1>1. /\ Types /\ ThreadInv(t) /\ XidInv(x) /\ LocksOK /\ call[t].pc = "idle"
      /\ txn' = [txn EXCEPT ![t].status = "ACTIVE"]
      /\ UNCHANGED <<store, branch, call, up, view, reads, voted, faulty, report>>
  BY DEF IInv, begin, history
<1>2. /\ txn' \in [Thread -> Txn] /\ txn'[t].status = "ACTIVE" /\ txn'[t].xid = x
      /\ txn'[t].registeredCache = txn[t].registeredCache
      /\ txn'[t].preparedCache = txn[t].preparedCache
      /\ \A u \in Thread \ {t} : txn'[u] = txn[u]
  <2>1. txn[t] \in Txn
    BY <1>1 DEF Types, ClientTypes
  <2> DEFINE q == [txn[t] EXCEPT !.status = "ACTIVE"]
  <2>2. /\ q \in Txn /\ q.status = "ACTIVE" /\ q.xid = x
        /\ q.registeredCache = txn[t].registeredCache /\ q.preparedCache = txn[t].preparedCache
    BY <2>1, TxnUpdates
  <2>3. txn' = [txn EXCEPT ![t] = q]
    BY <1>1
  <2> HIDE DEF q
  <2> QED
    BY <1>1, <2>2, <2>3 DEF Types, ClientTypes
<1>3. Types'
  BY <1>1, <1>2 DEF Types, ServerTypes, ClientTypes, HistoryTypes
<1>4. Alone(t)
  BY <1>1, <1>2 DEF Alone
<1>5. CallOf(t)' /\ ViewOf(t)' /\ ReadsOf(t)' /\ HeldOf(t)'
  BY <1>1, <1>2 DEF ThreadInv, CallOf, ViewOf, ReadsOf, HeldOf
<1>6. VotesOf(t)' /\ SawOf(t)' /\ ReadOnlyOf(t)'
  BY <1>1 DEF VotesOf, SawOf, ReadOnlyOf
<1>7. ListedOf(t)' /\ InOrderOf(t)'
  BY <1>1, <1>2 DEF ThreadInv, ListedOf, InOrderOf
<1>8. XidInv(x)'
  <2>1. x[1] = t
    BY <1>1 DEF Types, ClientTypes
  <2>2. AheadOf(x)'
    BY <1>1, <1>2, <2>1, PresentAhead DEF XidInv
  <2>3. PreparedOf(x)' /\ ReachedOf(x)' /\ AtomicOf(x)'
    BY <1>1 DEF XidInv, PreparedOf, ReachedOf, AtomicOf
  <2> QED
    BY <2>2, <2>3 DEF XidInv
<1> QED
  BY <1>1, <1>3, <1>4, <1>5, <1>6, <1>7, <1>8, LocksUnchanged DEF Preserved, ThreadInv

LEMMA NewTransactionForm ==
    ASSUME NEW t \in Thread, NEW n \in 1 .. MaxTx + 1
    PROVE  /\ NewTransaction(t, n) \in Txn
           /\ NewTransaction(t, n).status = "NO_TRANSACTION" /\ NewTransaction(t, n).xid = <<t, n>>
           /\ DOMAIN NewTransaction(t, n).registeredCache = {}
           /\ NewTransaction(t, n).preparedCache = {}
BY EmptyForms DEF NewTransaction, Txn

LEMMA NoCallForm ==
    NoCall \in Call /\ NoCall.pc = "idle" /\ NoCall.todo = {}
BY DEF NoCall, Call

\* A call may end when its report is true: that is what AtomicUnlessFaulty and
\* RollbackReachesPrepared ask of it.
LEMMA FinishKeeps ==
    ASSUME IInv, NEW t \in Thread, NEW s \in {"COMMITTED"} \cup RolledBack,
           txn[t].status = "ACTIVE", Finish(t, s),
           UNCHANGED <<store, branch, up, reads, voted, faulty>>,
           s \in RolledBack => \A c \in voted[txn[t].xid] : branch[c][txn[t].xid].state # "prepared",
           ~faulty[txn[t].xid] =>
               \A c \in Cache :
                   /\ s = "COMMITTED" => branch[c][txn[t].xid].state \in {"none", "committed"}
                   /\ s \in RolledBack => branch[c][txn[t].xid].state \in {"none", "rolledback"}
    PROVE  Preserved(t)
<1> PICK x \in Xid : x = txn[t].xid
  BY DEF IInv, ThreadInv, CallOf
<1>1. Types /\ ThreadInv(t) /\ XidInv(x) /\ LocksOK
  BY DEF IInv
<1>2. x = <<t, x[2]>> /\ x[2] \in 1 .. MaxTx /\ x[2] + 1 \in 1 .. MaxTx + 1
  BY <1>1, BoundsAssumption DEF Types, ClientTypes, Xid
<1> PICK n \in 1 .. MaxTx + 1 : n = x[2] + 1
  BY <1>2
<1>3. /\ txn' = [txn EXCEPT ![t] = NewTransaction(t, n)]
      /\ call' = [call EXCEPT ![t] = NoCall]
      /\ report' = [report EXCEPT ![x] = s]
      /\ view' = [view EXCEPT ![t] = NoView]
  BY <1>1 DEF Finish, Types, ClientTypes
<1>4. /\ txn' \in [Thread -> Txn] /\ txn'[t] = NewTransaction(t, n)
      /\ \A u \in Thread \ {t} : txn'[u] = txn[u]
  BY <1>1, <1>3, NewTransactionForm DEF Types, ClientTypes
<1>5. /\ txn'[t].status = "NO_TRANSACTION" /\ txn'[t].xid = <<t, n>>
      /\ DOMAIN txn'[t].registeredCache = {} /\ txn'[t].preparedCache = {}
  BY <1>4, NewTransactionForm
<1>6. /\ call' \in [Thread -> Call] /\ call'[t].pc = "idle" /\ call'[t].todo = {}
      /\ \A u \in Thread \ {t} : call'[u] = call[u]
  BY <1>1, <1>3, NoCallForm DEF Types, ClientTypes
<1>7. /\ view' \in [Thread -> [Cache -> [Key -> SUBSET ({Own} \cup Nat)]]]
      /\ \A u \in Thread \ {t} : view'[u] = view[u]
      /\ \A c \in Cache, k \in Key : view'[t][c][k] = {}
  BY <1>1, <1>3 DEF NoView, Types, HistoryTypes
<1>8. /\ report' \in [Xid -> {"none", "COMMITTED"} \cup RolledBack] /\ report'[x] = s
      /\ \A y \in Xid \ {x} : report'[y] = report[y]
  BY <1>1, <1>3 DEF Types, HistoryTypes
<1>9. Types'
  <2>1. ClientTypes'
    BY <1>1, <1>4, <1>5, <1>6 DEF Types, ClientTypes
  <2> QED
    BY <1>1, <1>7, <1>8, <2>1 DEF Types, ServerTypes, HistoryTypes
<1>10. Alone(t)
  BY <1>4, <1>5, <1>6, <1>7, <1>8 DEF Alone
<1>11. CallOf(t)' /\ ViewOf(t)' /\ VotesOf(t)' /\ SawOf(t)' /\ ReadOnlyOf(t)'
  BY <1>5, <1>6, <1>7 DEF CallOf, ViewOf, VotesOf, SawOf, ReadOnlyOf
<1>12. <<t, n>> \in Xid =>
         reads[<<t, n>>] = {} /\ voted[<<t, n>>] = {} /\ \A c \in Cache : branch[c][<<t, n>>].state = "none"
  <2>1. n > x[2]
    BY <1>2
  <2>2. Ahead(<<t, n>>)
    BY <2>1 DEF Ahead
  <2> QED
    BY <2>2 DEF IInv, XidInv, AheadOf
<1>13. ReadsOf(t)' /\ HeldOf(t)' /\ ListedOf(t)' /\ InOrderOf(t)'
  BY <1>5, <1>12 DEF ReadsOf, HeldOf, ListedOf, InOrderOf
<1>14. AheadOf(x)'
  <2>1. Over(x)' /\ ~Ahead(x)'
    BY <1>2, <1>5 DEF Over, Ahead
  <2> QED
    BY <2>1 DEF AheadOf
<1>15. PreparedOf(x)'
  BY <1>1 DEF XidInv, PreparedOf
<1>16. ReachedOf(x)'
  BY <1>8 DEF ReachedOf
<1>17. AtomicOf(x)'
  <2>1. "COMMITTED" \notin RolledBack
    BY DEF RolledBack
  <2> QED
    BY <1>1, <1>8, <2>1 DEF XidInv, AtomicOf
<1> QED
  BY <1>1, <1>9, <1>10, <1>11, <1>13, <1>14, <1>15, <1>16, <1>17, LocksUnchanged
     DEF Preserved, ThreadInv, XidInv

-----------------------------------------------------------------------------
(* The branches at the server *)

\* Branch x of cache c becomes b, and no other branch changes.
LEMMA BranchBecomes ==
    ASSUME ServerTypes, NEW c \in Cache, NEW x \in Xid, NEW b \in Branches,
           branch' = [branch EXCEPT ![c][x] = b]
    PROVE  /\ branch' \in [Cache -> [Xid -> Branches]]
           /\ branch'[c][x] = b
           /\ \A d \in Cache, y \in Xid : d # c \/ y # x => branch'[d][y] = branch[d][y]
<1>1. [branch[c] EXCEPT ![x] = b] \in [Xid -> Branches]
  BY DEF ServerTypes
<1>2. branch' = [branch EXCEPT ![c] = [branch[c] EXCEPT ![x] = b]]
  BY DEF ServerTypes
<1>3. branch' \in [Cache -> [Xid -> Branches]]
  BY <1>1, <1>2 DEF ServerTypes
<1> QED
  BY <1>2, <1>3 DEF ServerTypes

\* PREPARE locks keys that nobody holds, at the versions that it compares.
LEMMA PreparedLocks ==
    ASSUME ServerTypes, LocksOK, NEW c \in Cache, NEW x \in Xid, NEW b \in Branches,
           b.state = "prepared", Validates(c, x, b.entries), store' = store,
           branch' = [branch EXCEPT ![c][x] = b]
    PROVE  ServerTypes' /\ LocksOK'
<1> DEFINE tc == b.entries
<1>1. /\ branch' \in [Cache -> [Xid -> Branches]]
      /\ branch'[c][x] = b
      /\ \A d \in Cache, y \in Xid : d # c \/ y # x => branch'[d][y] = branch[d][y]
  BY BranchBecomes, ZenonT(30)
<1>2. \A k \in DOMAIN tc : Current(c, k, tc[k])
  BY DEF Validates, Current
<1>3. \A y \in Xid : y # x /\ branch[c][y].state = "prepared" =>
         DOMAIN branch[c][y].entries \cap DOMAIN tc = {}
  BY DEF Validates, Locked
<1>4. ServerTypes'
  BY <1>1 DEF ServerTypes
<1>5. ASSUME NEW d \in Cache, NEW y \in Xid, NEW z \in Xid, branch'[d][y].state = "prepared",
             z # y, branch'[d][z].state = "prepared"
      PROVE  DOMAIN branch'[d][z].entries \cap DOMAIN branch'[d][y].entries = {}
  <2>1. CASE d = c /\ y = x
    BY <1>1, <1>3, <1>5, <2>1
  <2>2. CASE d = c /\ z = x
    BY <1>1, <1>3, <1>5, <2>2
  <2>3. CASE ~(d = c /\ y = x) /\ ~(d = c /\ z = x)
    BY <1>1, <1>5, <2>3 DEF LocksOK
  <2> QED
    BY <2>1, <2>2, <2>3
<1>6. ASSUME NEW d \in Cache, NEW y \in Xid, branch'[d][y].state = "prepared",
             NEW k \in DOMAIN branch'[d][y].entries
      PROVE  Current(d, k, branch[d][y].entries[k])'
  <2>1. CASE d = c /\ y = x
    BY <1>1, <1>2, <1>6, <2>1 DEF Current, RemoteVersion
  <2>2. CASE ~(d = c /\ y = x)
    BY <1>1, <1>6, <2>2 DEF LocksOK, Current, RemoteVersion
  <2> QED
    BY <2>1, <2>2
<1> QED
  BY <1>4, <1>5, <1>6 DEF LocksOK

\* A branch that ends gives its keys up.
LEMMA EndedLocks ==
    ASSUME ServerTypes, LocksOK, NEW c \in Cache, NEW x \in Xid, NEW b \in Branches,
           b.state # "prepared", store' = store, branch' = [branch EXCEPT ![c][x] = b]
    PROVE  ServerTypes' /\ LocksOK'
<1>1. /\ branch' \in [Cache -> [Xid -> Branches]]
      /\ branch'[c][x] = b
      /\ \A d \in Cache, y \in Xid : d # c \/ y # x => branch'[d][y] = branch[d][y]
  BY BranchBecomes, ZenonT(30)
<1>2. ServerTypes'
  BY <1>1 DEF ServerTypes
<1>3. \A d \in Cache, y \in Xid : branch'[d][y].state = "prepared" =>
         branch'[d][y] = branch[d][y]
  BY <1>1
<1>4. LocksOK'
  BY <1>3 DEF LocksOK, Current, RemoteVersion
<1> QED
  BY <1>2, <1>4

\* A commit stores under its own locks: the other prepared branches stay current.
LEMMA CommittedLocks ==
    ASSUME ServerTypes, LocksOK, NEW c \in Cache, NEW x \in Xid, branch[c][x].state = "prepared",
           Branch(c, x, "committed")
    PROVE  ServerTypes' /\ LocksOK'
<1>0. PICK b \in Branches : b = [state |-> "committed", entries |-> Empty]
  BY EmptyForms DEF Branches
<1>1. b.state = "committed" /\ branch' = [branch EXCEPT ![c][x] = b]
  BY <1>0 DEF Branch
<1>2. /\ branch' \in [Cache -> [Xid -> Branches]]
      /\ branch'[c][x] = b
      /\ \A d \in Cache, y \in Xid : d # c \/ y # x => branch'[d][y] = branch[d][y]
  <2>1. branch' = [branch EXCEPT ![c][x] = b]
    BY <1>1
  <2>2. branch' \in [Cache -> [Xid -> Branches]]
    BY <2>1, BranchBecomes
  <2>3. branch'[c][x] = b
    BY <2>1, BranchBecomes
  <2>4. \A d \in Cache, y \in Xid : d # c \/ y # x => branch'[d][y] = branch[d][y]
    BY <2>1, BranchBecomes
  <2> QED
    BY <2>2, <2>3, <2>4
<1> DEFINE stored == [k \in Key |-> IF k \in DOMAIN branch[c][x].entries
                                    THEN [version |-> store[c][k].version + 1, exists |-> TRUE]
                                    ELSE store[c][k]]
<1>3. store' = [store EXCEPT ![c] = stored]
  BY DEF Branch
<1>4. stored \in [Key -> [version : Nat, exists : BOOLEAN]]
  BY DEF ServerTypes
<1>5. \A k \in Key : k \notin DOMAIN branch[c][x].entries => stored[k] = store[c][k]
  OBVIOUS
<1> HIDE DEF stored
<1>6. ServerTypes'
  BY <1>2, <1>3, <1>4 DEF ServerTypes
<1>7. \A d \in Cache, y \in Xid : branch'[d][y].state = "prepared" =>
         branch'[d][y] = branch[d][y] /\ (d # c \/ y # x)
  BY <1>1, <1>2
<1>8. ASSUME NEW d \in Cache, NEW y \in Xid, branch'[d][y].state = "prepared",
             NEW k \in DOMAIN branch'[d][y].entries
      PROVE  store'[d][k] = store[d][k]
  <2>1. CASE d # c
    BY <1>3, <2>1 DEF ServerTypes
  <2>2. CASE d = c
    <3>1. branch[d][y].state = "prepared" /\ k \in DOMAIN branch[d][y].entries /\ y # x
      BY <1>7, <1>8, <2>2
    <3>2. k \notin DOMAIN branch[c][x].entries
      BY <2>2, <3>1 DEF LocksOK
    <3>3. branch[d][y].entries \in Contexts
      BY DEF ServerTypes, Branches
    <3>4. k \in Key
      BY <3>1, <3>3, ContextsForm
    <3> QED
      BY <1>3, <1>5, <2>2, <3>2, <3>4 DEF ServerTypes
  <2> QED
    BY <2>1, <2>2
<1>9. ASSUME NEW d \in Cache, NEW y \in Xid, branch'[d][y].state = "prepared",
             NEW k \in DOMAIN branch'[d][y].entries
      PROVE  Current(d, k, branch[d][y].entries[k])'
  BY <1>7, <1>8, <1>9 DEF LocksOK, Current, RemoteVersion
<1> QED
  BY <1>6, <1>7, <1>9 DEF LocksOK

\* A writer outside transactions stays away from locked keys.
LEMMA NonTxPutLocks ==
    ASSUME ServerTypes, LocksOK, NEW c \in Cache, NEW k \in Key, NonTxPut(c, k)
    PROVE  ServerTypes' /\ LocksOK'
<1>1. /\ branch' = branch
      /\ \A x \in Xid : branch[c][x].state = "prepared" => k \notin DOMAIN branch[c][x].entries
  BY DEF NonTxPut
<1> DEFINE e == [version |-> store[c][k].version + 1, exists |-> TRUE]
<1>2. store' = [store EXCEPT ![c] = [store[c] EXCEPT ![k] = e]]
  BY DEF NonTxPut, ServerTypes
<1>3. e \in [version : Nat, exists : BOOLEAN]
  BY DEF ServerTypes
<1> HIDE DEF e
<1>4. ServerTypes'
  BY <1>1, <1>2, <1>3 DEF ServerTypes
<1>5. ASSUME NEW d \in Cache, NEW y \in Xid, branch[d][y].state = "prepared",
             NEW j \in DOMAIN branch[d][y].entries
      PROVE  store'[d][j] = store[d][j]
  <2>1. j \in Key
    <3>1. branch[d][y].entries \in Contexts
      BY DEF ServerTypes, Branches
    <3> QED
      BY <1>5, <3>1, ContextsForm
  <2>2. d # c \/ j # k
    BY <1>1, <1>5
  <2> QED
    BY <1>2, <2>1, <2>2 DEF ServerTypes
<1>6. LocksOK'
  BY <1>1, <1>5 DEF LocksOK, Current, RemoteVersion
<1> QED
  BY <1>4, <1>6

-----------------------------------------------------------------------------
(* A step of a call *)

\* The call of thread t goes on with the locals r; P are the caches now listed as prepared,
\* V those that have voted and f says whether an answer was out of order.
Changed(t, P, r, V, f) ==
    /\ txn[t].status = "ACTIVE"
    /\ P \subseteq DOMAIN txn[t].registeredCache
    /\ r \in Call /\ r.todo \subseteq DOMAIN txn[t].registeredCache
    /\ V \in SUBSET Cache /\ f \in BOOLEAN
    /\ \/ txn' = txn /\ P = txn[t].preparedCache
       \/ txn' = [txn EXCEPT ![t].preparedCache = P]
    /\ call' = [call EXCEPT ![t] = r] \/ (call' = call /\ r = call[t])
    /\ voted' = [voted EXCEPT ![txn[t].xid] = V] \/ (voted' = voted /\ V = voted[txn[t].xid])
    /\ faulty' = [faulty EXCEPT ![txn[t].xid] = f] \/ (faulty' = faulty /\ f = faulty[txn[t].xid])
    /\ UNCHANGED <<view, reads, report>>
    /\ up' \in {up, FALSE}

LEMMA ChangedForm ==
    ASSUME Types, NEW t \in Thread, NEW x \in Xid, x = txn[t].xid,
           NEW P, NEW r, NEW V, NEW f, Changed(t, P, r, V, f)
    PROVE  /\ ClientTypes' /\ HistoryTypes' /\ up' \in BOOLEAN
           /\ txn'[t].status = "ACTIVE" /\ txn'[t].xid = x
           /\ txn'[t].registeredCache = txn[t].registeredCache /\ txn'[t].preparedCache = P
           /\ call'[t] = r /\ voted'[x] = V /\ faulty'[x] = f
           /\ \A u \in Thread \ {t} : txn'[u] = txn[u] /\ call'[u] = call[u]
           /\ \A y \in Xid \ {x} : voted'[y] = voted[y] /\ faulty'[y] = faulty[y]
<1>1. txn[t] \in Txn /\ txn[t].status = "ACTIVE" /\ P \in SUBSET Cache
  <2>1. txn[t] \in Txn /\ txn[t].registeredCache \in Registrations
    BY DEF Types, ClientTypes, Txn
  <2> QED
    BY <2>1, RegistrationsForm DEF Changed
<1>2. /\ txn' \in [Thread -> Txn]
      /\ txn'[t].status = "ACTIVE" /\ txn'[t].xid = x
      /\ txn'[t].registeredCache = txn[t].registeredCache /\ txn'[t].preparedCache = P
      /\ \A u \in Thread \ {t} : txn'[u] = txn[u]
  <2>1. CASE txn' = txn /\ P = txn[t].preparedCache
    BY <1>1, <2>1 DEF Types, ClientTypes
  <2>2. CASE txn' = [txn EXCEPT ![t].preparedCache = P]
    <3> DEFINE q == [txn[t] EXCEPT !.preparedCache = P]
    <3>1. /\ q \in Txn /\ q.status = "ACTIVE" /\ q.xid = x
          /\ q.registeredCache = txn[t].registeredCache /\ q.preparedCache = P
      BY <1>1, TxnUpdates
    <3>2. txn' = [txn EXCEPT ![t] = q]
      BY <2>2
    <3> HIDE DEF q
    <3> QED
      BY <3>1, <3>2 DEF Types, ClientTypes
  <2> QED
    BY <2>1, <2>2 DEF Changed
<1>3. call' \in [Thread -> Call] /\ call'[t] = r /\ \A u \in Thread \ {t} : call'[u] = call[u]
  BY DEF Changed, Types, ClientTypes
<1>4. ClientTypes'
  BY <1>2, <1>3 DEF Types, ClientTypes
<1>5. /\ voted' \in [Xid -> SUBSET Cache] /\ voted'[x] = V
      /\ \A y \in Xid \ {x} : voted'[y] = voted[y]
  BY DEF Changed, Types, HistoryTypes
<1>6. /\ faulty' \in [Xid -> BOOLEAN] /\ faulty'[x] = f
      /\ \A y \in Xid \ {x} : faulty'[y] = faulty[y]
  BY DEF Changed, Types, HistoryTypes
<1>7. HistoryTypes' /\ up' \in BOOLEAN
  BY <1>5, <1>6 DEF Changed, Types, HistoryTypes
<1> QED
  BY <1>2, <1>3, <1>4, <1>5, <1>6, <1>7

\* What is left to show of such a step.
LEMMA ChangedKeeps ==
    ASSUME IInv, NEW t \in Thread, NEW x \in Xid, x = txn[t].xid,
           NEW P, NEW r, NEW V, NEW f, Changed(t, P, r, V, f),
           ServerTypes', LocksOK',
           \A c \in Cache, y \in Xid \ {x} : branch'[c][y] = branch[c][y],
           HeldOf(t)', VotesOf(t)', ListedOf(t)', InOrderOf(t)', SawOf(t)', ReadOnlyOf(t)',
           PreparedOf(x)'
    PROVE  Preserved(t)
<1>1. Types /\ ThreadInv(t) /\ XidInv(x)
  BY DEF IInv
<1>2. /\ ClientTypes' /\ HistoryTypes' /\ up' \in BOOLEAN
      /\ txn'[t].status = "ACTIVE" /\ txn'[t].xid = x
      /\ txn'[t].registeredCache = txn[t].registeredCache /\ txn'[t].preparedCache = P
      /\ call'[t] = r
      /\ \A u \in Thread \ {t} : txn'[u] = txn[u] /\ call'[u] = call[u]
      /\ \A y \in Xid \ {x} : voted'[y] = voted[y] /\ faulty'[y] = faulty[y]
  BY <1>1, ChangedForm
<1>3. UNCHANGED <<view, reads, report>>
  BY DEF Changed
<1>4. Types'
  BY <1>2 DEF Types
<1>5. Alone(t)
  BY <1>2, <1>3 DEF Alone
<1>6. CallOf(t)'
  BY <1>2 DEF CallOf, Changed
<1>7. ViewOf(t)' /\ ReadsOf(t)'
  BY <1>1, <1>2, <1>3 DEF ThreadInv, ViewOf, ReadsOf
<1>8. AheadOf(x)' /\ report[x] = "none"
  <2>1. x[1] = t /\ ~Over(x)
    BY <1>1 DEF Types, ClientTypes, Over, Xid
  <2> QED
    BY <1>1, <1>2, <1>3, <2>1, PresentAhead DEF XidInv, AheadOf
<1>9. ReachedOf(x)'
  BY <1>3, <1>8 DEF ReachedOf, RolledBack
<1>10. AtomicOf(x)'
  <2>1. call'[t].pc \in {"idle", "prepare", "commit", "rollback"}
    BY <1>2 DEF Changed, Call
  <2>2. ~faulty'[x] =>
          \A c, d \in Cache : ~(branch'[c][x].state = "committed" /\ branch'[d][x].state = "rolledback")
    BY <1>2, <2>1 DEF InOrderOf
  <2> QED
    BY <1>3, <1>8, <2>2 DEF AtomicOf, RolledBack
<1> QED
  BY <1>4, <1>5, <1>6, <1>7, <1>8, <1>9, <1>10 DEF Preserved, ThreadInv, XidInv

LEMMA CallUpdates ==
    ASSUME NEW q \in Call, NEW S \in SUBSET Cache
    PROVE  /\ \A l \in {"prepare", "commit", "rollback"} :
              LET u == [q EXCEPT !.pc = l, !.todo = S]
              IN  /\ u \in Call /\ u.pc = l /\ u.todo = S /\ u.saw = q.saw
                  /\ u.readOnly = q.readOnly /\ u.throws = q.throws
           /\ LET u == [q EXCEPT !.todo = S]
              IN  /\ u \in Call /\ u.pc = q.pc /\ u.todo = S /\ u.saw = q.saw
                  /\ u.readOnly = q.readOnly /\ u.throws = q.throws
           /\ LET u == [q EXCEPT !.readOnly = FALSE]
              IN  /\ u \in Call /\ u.pc = q.pc /\ u.todo = q.todo /\ u.saw = q.saw
                  /\ u.readOnly = FALSE /\ u.throws = q.throws
           /\ LET u == [q EXCEPT !.throws = TRUE]
              IN  /\ u \in Call /\ u.pc = q.pc /\ u.todo = q.todo /\ u.saw = q.saw
                  /\ u.readOnly = q.readOnly /\ u.throws = TRUE
           /\ \A W \in SUBSET {"commit", "rollback", "forgot", "unknown"} :
              LET u == [q EXCEPT !.saw = W]
              IN  /\ u \in Call /\ u.pc = q.pc /\ u.todo = q.todo /\ u.saw = W
                  /\ u.readOnly = q.readOnly /\ u.throws = q.throws
<1>1. \A l \in {"prepare", "commit", "rollback"} :
        LET u == [q EXCEPT !.pc = l, !.todo = S]
        IN  /\ u \in Call /\ u.pc = l /\ u.todo = S /\ u.saw = q.saw
            /\ u.readOnly = q.readOnly /\ u.throws = q.throws
  BY DEF Call
<1>2. LET u == [q EXCEPT !.todo = S]
      IN  /\ u \in Call /\ u.pc = q.pc /\ u.todo = S /\ u.saw = q.saw
          /\ u.readOnly = q.readOnly /\ u.throws = q.throws
  BY DEF Call
<1>3. LET u == [q EXCEPT !.readOnly = FALSE]
      IN  /\ u \in Call /\ u.pc = q.pc /\ u.todo = q.todo /\ u.saw = q.saw
          /\ u.readOnly = FALSE /\ u.throws = q.throws
  BY DEF Call
<1>4. LET u == [q EXCEPT !.throws = TRUE]
      IN  /\ u \in Call /\ u.pc = q.pc /\ u.todo = q.todo /\ u.saw = q.saw
          /\ u.readOnly = q.readOnly /\ u.throws = TRUE
  BY DEF Call
<1>5. \A W \in SUBSET {"commit", "rollback", "forgot", "unknown"} :
        LET u == [q EXCEPT !.saw = W]
        IN  /\ u \in Call /\ u.pc = q.pc /\ u.todo = q.todo /\ u.saw = W
            /\ u.readOnly = q.readOnly /\ u.throws = q.throws
  BY DEF Call
<1> QED
  BY <1>1, <1>2, <1>3, <1>4, <1>5

LEMMA NoCallUpdates ==
    ASSUME NEW S \in SUBSET Cache, NEW l \in {"prepare", "rollback"}
    PROVE  /\ LET u == [NoCall EXCEPT !.pc = l, !.throws = TRUE, !.todo = S]
              IN  u \in Call /\ u.pc = l /\ u.todo = S /\ u.saw = {} /\ u.readOnly = TRUE
           /\ LET u == [NoCall EXCEPT !.pc = l, !.todo = S]
              IN  u \in Call /\ u.pc = l /\ u.todo = S /\ u.saw = {} /\ u.readOnly = TRUE
<1>1. LET u == [NoCall EXCEPT !.pc = l, !.throws = TRUE, !.todo = S]
      IN  u \in Call /\ u.pc = l /\ u.todo = S /\ u.saw = {} /\ u.readOnly = TRUE
  BY DEF Call, NoCall
<1>2. LET u == [NoCall EXCEPT !.pc = l, !.todo = S]
      IN  u \in Call /\ u.pc = l /\ u.todo = S /\ u.saw = {} /\ u.readOnly = TRUE
  BY DEF Call, NoCall
<1> QED
  BY <1>1, <1>2

\* The next cache of a loop over caches is one of them.
LEMMA NextCache ==
    ASSUME IInv, NEW t \in Thread, call[t].todo # {}
    PROVE  Least(call[t].todo) \in call[t].todo /\ Least(call[t].todo) \in Cache
<1>1. call[t].todo \in SUBSET Cache
  BY DEF IInv, Types, ClientTypes, Call
<1> QED
  BY <1>1, LeastIsMember, CachesAssumption

\* The types of the present transaction.
LEMMA PresentTypes ==
    ASSUME IInv, NEW t \in Thread
    PROVE  /\ call[t] \in Call
           /\ DOMAIN txn[t].registeredCache \in SUBSET Cache
           /\ \A c \in DOMAIN txn[t].registeredCache : txn[t].registeredCache[c] \in Contexts
           /\ txn[t].preparedCache \in SUBSET DOMAIN txn[t].registeredCache
           /\ call[t].todo \in SUBSET DOMAIN txn[t].registeredCache
<1>1. call[t] \in Call /\ txn[t].registeredCache \in Registrations
  BY DEF IInv, Types, ClientTypes, Txn
<1>2. /\ txn[t].preparedCache \in SUBSET DOMAIN txn[t].registeredCache
      /\ call[t].todo \in SUBSET DOMAIN txn[t].registeredCache
  BY DEF IInv, ThreadInv, CallOf
<1>3. /\ DOMAIN txn[t].registeredCache \in SUBSET Cache
      /\ \A c \in DOMAIN txn[t].registeredCache : txn[t].registeredCache[c] \in Contexts
  BY <1>1, RegistrationsForm
<1> QED
  BY <1>1, <1>2, <1>3

\* A step that leaves the server alone leaves what the invariant says of it.
LEMMA ServerUnchanged ==
    ASSUME IInv, NEW t \in Thread, NEW x \in Xid, x = txn[t].xid,
           NEW P, NEW r, NEW V, NEW f, Changed(t, P, r, V, f), UNCHANGED <<store, branch>>
    PROVE  ServerTypes' /\ LocksOK' /\ HeldOf(t)' /\ PreparedOf(x)'
<1>1. ServerTypes' /\ LocksOK'
  BY LocksUnchanged DEF IInv, Types, ServerTypes
<1>2. txn'[t].xid = x /\ txn'[t].registeredCache = txn[t].registeredCache
  BY ChangedForm DEF IInv
<1>3. HeldOf(t)'
  BY <1>2 DEF IInv, ThreadInv, HeldOf
<1>4. PreparedOf(x)'
  BY DEF IInv, XidInv, PreparedOf, Changed
<1> QED
  BY <1>1, <1>3, <1>4

LEMMA CommitKeeps ==
    ASSUME IInv, NEW t \in Thread, commit(t)
    PROVE  Preserved(t)
<1>1. txn[t].status = "ACTIVE" /\ call[t].pc = "idle"
  BY DEF commit, canCommit
<1> PICK x \in Xid : x = txn[t].xid
  BY <1>1 DEF IInv, ThreadInv, CallOf
<1> DEFINE reg == txn[t].registeredCache
           P == txn[t].preparedCache
           r == [NoCall EXCEPT !.pc = "prepare", !.throws = TRUE, !.todo = DOMAIN reg]
           f == faulty[x]
<1>2. /\ call' = [call EXCEPT ![t] = r] /\ voted' = [voted EXCEPT ![x] = {}]
      /\ UNCHANGED <<store, branch, txn, up, view, reads, faulty, report>>
  BY <1>1 DEF commit, needsRollback
<1>3. r \in Call /\ r.pc = "prepare" /\ r.todo = DOMAIN reg /\ r.saw = {}
  BY PresentTypes, NoCallUpdates
<1> HIDE DEF r
<1>4. P \subseteq DOMAIN reg /\ f \in BOOLEAN
  BY PresentTypes DEF IInv, Types, HistoryTypes
<1>5. Changed(t, P, r, {}, f)
  BY <1>1, <1>2, <1>3, <1>4 DEF Changed
<1>6. /\ txn'[t].xid = x /\ txn'[t].registeredCache = reg /\ txn'[t].preparedCache = P
      /\ call'[t] = r /\ voted'[x] = {} /\ faulty'[x] = f
  BY <1>5, ChangedForm DEF IInv
<1>7. ServerTypes' /\ LocksOK' /\ HeldOf(t)' /\ PreparedOf(x)'
  BY <1>2, <1>5, ServerUnchanged
<1>8. VotesOf(t)' /\ ListedOf(t)' /\ SawOf(t)' /\ ReadOnlyOf(t)'
  BY <1>3, <1>6 DEF VotesOf, ListedOf, SawOf, ReadOnlyOf
<1>9. InOrderOf(t)'
  BY <1>1, <1>2, <1>3, <1>6 DEF IInv, ThreadInv, InOrderOf
<1> QED
  BY <1>2, <1>5, <1>7, <1>8, <1>9, ChangedKeeps

LEMMA RollbackKeeps ==
    ASSUME IInv, NEW t \in Thread, rollback(t)
    PROVE  Preserved(t)
<1>1. txn[t].status = "ACTIVE" /\ call[t].pc = "idle"
  BY DEF rollback, canRollback
<1> PICK x \in Xid : x = txn[t].xid
  BY <1>1 DEF IInv, ThreadInv, CallOf
<1> DEFINE P == txn[t].preparedCache
           r == [NoCall EXCEPT !.pc = "rollback", !.todo = P]
           V == voted[x]
           f == faulty[x]
<1>2. /\ call' = [call EXCEPT ![t] = r]
      /\ UNCHANGED <<store, branch, txn, up, view, reads, voted, faulty, report>>
  BY DEF rollback, history
<1>3. P \subseteq DOMAIN txn[t].registeredCache /\ P \in SUBSET Cache /\ f \in BOOLEAN /\ V \in SUBSET Cache
  BY PresentTypes DEF IInv, Types, HistoryTypes
<1>4. r \in Call /\ r.pc = "rollback" /\ r.todo = P /\ r.saw = {}
  BY <1>3, NoCallUpdates
<1> HIDE DEF r
<1>5. Changed(t, P, r, V, f)
  BY <1>1, <1>2, <1>3, <1>4 DEF Changed
<1>6. /\ txn'[t].xid = x /\ txn'[t].preparedCache = P
      /\ call'[t] = r /\ voted'[x] = V /\ faulty'[x] = f
  BY <1>5, ChangedForm DEF IInv
<1>7. ServerTypes' /\ LocksOK' /\ HeldOf(t)' /\ PreparedOf(x)'
  BY <1>2, <1>5, ServerUnchanged
<1>8. VotesOf(t)' /\ SawOf(t)' /\ ReadOnlyOf(t)'
  BY <1>4, <1>6 DEF VotesOf, SawOf, ReadOnlyOf
<1>9. ListedOf(t)'
  BY <1>2, <1>4, <1>6 DEF IInv, ThreadInv, ListedOf
<1>10. InOrderOf(t)'
  BY <1>1, <1>2, <1>4, <1>6 DEF IInv, ThreadInv, InOrderOf
<1> QED
  BY <1>2, <1>5, <1>7, <1>8, <1>9, <1>10, ChangedKeeps

-----------------------------------------------------------------------------
(* An exception in commit() *)

\* The step of thread t changes branch x at cache c alone, which may get prepared.
OneBranch(t, c, x) ==
    /\ ServerTypes' /\ LocksOK'
    /\ \A d \in Cache, y \in Xid : (d = c /\ y = x) \/ branch'[d][y] = branch[d][y]
    /\ \A d \in Cache : branch'[d][x].state = "prepared" =>
        \/ branch'[d][x] = branch[d][x]
        \/ /\ d \in DOMAIN txn[t].registeredCache /\ DOMAIN txn[t].registeredCache[d] # {}
           /\ branch'[d][x].entries = txn[t].registeredCache[d]

\* What is prepared keeps to the context, and to what was read.
LEMMA OneBranchKeeps ==
    ASSUME IInv, NEW t \in Thread, NEW x \in Xid, x = txn[t].xid, NEW c, OneBranch(t, c, x),
           reads' = reads, txn'[t].xid = x, txn'[t].registeredCache = txn[t].registeredCache
    PROVE  HeldOf(t)' /\ PreparedOf(x)'
<1> DEFINE reg == txn[t].registeredCache
<1>1. ThreadInv(t) /\ XidInv(x)
  BY DEF IInv
<1>2. ASSUME NEW d \in Cache, branch'[d][x].state = "prepared"
      PROVE  /\ d \in DOMAIN reg /\ DOMAIN branch'[d][x].entries \subseteq DOMAIN reg[d]
             /\ DOMAIN branch'[d][x].entries # {}
             /\ \A r \in reads[x] : r.cache = d /\ r.key \in DOMAIN branch'[d][x].entries =>
                    Says(branch'[d][x].entries[r.key], r.version)
  <2>1. CASE branch'[d][x] = branch[d][x]
    BY <1>1, <1>2, <2>1 DEF ThreadInv, HeldOf, XidInv, PreparedOf
  <2>2. CASE /\ d \in DOMAIN reg /\ DOMAIN reg[d] # {}
             /\ branch'[d][x].entries = reg[d]
    BY <1>1, <2>2 DEF ThreadInv, ReadsOf
  <2> QED
    BY <1>2, <2>1, <2>2 DEF OneBranch
<1>3. HeldOf(t)'
  BY <1>2 DEF HeldOf
<1>4. PreparedOf(x)'
  BY <1>2 DEF PreparedOf
<1> QED
  BY <1>3, <1>4

\* commit() catches an exception and rolls back the caches P.  An answer that is lost
\* may leave a branch prepared that is not among them.
LEMMA CaughtKeeps ==
    ASSUME IInv, NEW t \in Thread, NEW x \in Xid, x = txn[t].xid, txn[t].status = "ACTIVE",
           NEW P \in SUBSET DOMAIN txn[t].registeredCache, txn[t].preparedCache \subseteq P,
           CatchAndRollback(t, P), NEW f \in BOOLEAN, ~f => ~faulty[x],
           faulty' = [faulty EXCEPT ![x] = f] \/ (faulty' = faulty /\ f = faulty[x]),
           UNCHANGED <<up, reads, voted>>,
           NEW c, OneBranch(t, c, x),
           \A d \in Cache : branch'[d][x].state = "prepared" =>
               branch'[d][x] = branch[d][x] \/ (f /\ d \notin voted[x]),
           ~f => \A d \in Cache : branch'[d][x].state # "committed"
    PROVE  Preserved(t)
<1> DEFINE reg == txn[t].registeredCache
           r == [NoCall EXCEPT !.pc = "rollback", !.throws = TRUE, !.todo = P]
           V == voted[x]
<1>1. /\ call' = [call EXCEPT ![t] = r] /\ txn' = [txn EXCEPT ![t].preparedCache = P]
      /\ UNCHANGED <<view, report>>
  BY DEF CatchAndRollback
<1>2. P \in SUBSET Cache /\ V \in SUBSET Cache
  BY PresentTypes DEF IInv, Types, HistoryTypes
<1>3. r \in Call /\ r.pc = "rollback" /\ r.todo = P /\ r.saw = {}
  BY <1>2, NoCallUpdates
<1> HIDE DEF r
<1>4. Changed(t, P, r, V, f)
  BY <1>1, <1>2, <1>3 DEF Changed
<1>5. /\ txn'[t].xid = x /\ txn'[t].registeredCache = reg /\ txn'[t].preparedCache = P
      /\ call'[t] = r /\ voted'[x] = V /\ faulty'[x] = f
  BY <1>4, ChangedForm DEF IInv
<1>6. HeldOf(t)' /\ PreparedOf(x)'
  BY <1>5, OneBranchKeeps
<1>7. VotesOf(t)' /\ SawOf(t)' /\ ReadOnlyOf(t)'
  BY <1>3, <1>5 DEF VotesOf, SawOf, ReadOnlyOf
<1>8. ListedOf(t)'
  <2> SUFFICES ASSUME NEW d \in V, branch'[d][x].state = "prepared"
               PROVE  d \in P
    BY <1>3, <1>5 DEF ListedOf
  <2>1. branch'[d][x] = branch[d][x]
    BY <1>2
  <2> QED
    BY <2>1 DEF IInv, ThreadInv, ListedOf
<1>9. InOrderOf(t)'
  <2> SUFFICES ASSUME ~f, NEW d \in Cache
               PROVE  /\ branch'[d][x].state # "committed"
                      /\ branch'[d][x].state = "prepared" => d \in P
    BY <1>3, <1>5 DEF InOrderOf
  <2> QED
    BY DEF IInv, ThreadInv, InOrderOf
<1>10. ServerTypes' /\ LocksOK' /\ \A d \in Cache, y \in Xid \ {x} : branch'[d][y] = branch[d][y]
  BY DEF OneBranch
<1> QED
  BY <1>4, <1>6, <1>7, <1>8, <1>9, <1>10, ChangedKeeps

\* Nothing happens at the server.
LEMMA NoBranch ==
    ASSUME IInv, NEW t \in Thread, NEW x \in Xid, UNCHANGED <<store, branch>>, NEW c
    PROVE  OneBranch(t, c, x)
BY LocksUnchanged DEF IInv, Types, ServerTypes, OneBranch

\* An exception that no one catches: the call is over, the transaction is not.
LEMMA EscapeKeeps ==
    ASSUME IInv, NEW t \in Thread, NEW x \in Xid, x = txn[t].xid, txn[t].status = "ACTIVE",
           Escape(t), NEW f \in BOOLEAN,
           faulty' = [faulty EXCEPT ![x] = f] \/ (faulty' = faulty /\ f = faulty[x]),
           UNCHANGED <<up, reads, voted>>,
           NEW c, OneBranch(t, c, x),
           \A d \in Cache : branch'[d][x].state = "prepared" => branch'[d][x] = branch[d][x],
           ~f => ~faulty[x] /\ call[t].pc = "prepare" /\ branch' = branch
    PROVE  Preserved(t)
<1> DEFINE P == txn[t].preparedCache
           V == voted[x]
<1>1. call' = [call EXCEPT ![t] = NoCall] /\ UNCHANGED <<txn, view, report>>
  BY DEF Escape
<1>2. P \subseteq DOMAIN txn[t].registeredCache /\ V \in SUBSET Cache
  BY PresentTypes DEF IInv, Types, HistoryTypes
<1>3. Changed(t, P, NoCall, V, f)
  BY <1>1, <1>2, NoCallForm DEF Changed
<1>4. /\ txn'[t].xid = x /\ txn'[t].registeredCache = txn[t].registeredCache
      /\ txn'[t].preparedCache = P
      /\ call'[t] = NoCall /\ voted'[x] = V /\ faulty'[x] = f
  BY <1>3, ChangedForm DEF IInv
<1>5. HeldOf(t)' /\ PreparedOf(x)'
  BY <1>4, OneBranchKeeps
<1>6. VotesOf(t)' /\ SawOf(t)' /\ ReadOnlyOf(t)'
  BY <1>4, NoCallForm DEF VotesOf, SawOf, ReadOnlyOf
<1>7. ListedOf(t)'
  BY <1>2, <1>4, NoCallForm DEF IInv, ThreadInv, ListedOf
<1>8. InOrderOf(t)'
  BY <1>4, NoCallForm DEF IInv, ThreadInv, InOrderOf
<1>9. ServerTypes' /\ LocksOK' /\ \A d \in Cache, y \in Xid \ {x} : branch'[d][y] = branch[d][y]
  BY DEF OneBranch
<1> QED
  BY <1>3, <1>5, <1>6, <1>7, <1>8, <1>9, ChangedKeeps

\* The process crashes.
LEMMA CrashKeeps ==
    ASSUME IInv, NEW t \in Thread, txn[t].status = "ACTIVE", up' = FALSE,
           UNCHANGED <<store, branch, txn, call, view, reads, voted, faulty, report>>
    PROVE  Preserved(t)
<1> PICK x \in Xid : x = txn[t].xid
  BY DEF IInv, ThreadInv, CallOf
<1>1. Types' /\ Alone(t)
  BY DEF IInv, Types, ServerTypes, ClientTypes, HistoryTypes, Alone
<1>2. ThreadInv(t)'
  BY DEF IInv, ThreadInv, CallOf, ViewOf, ReadsOf, HeldOf, VotesOf, ListedOf, InOrderOf, SawOf, ReadOnlyOf
<1>3. XidInv(x)'
  BY DEF IInv, XidInv, AheadOf, Ahead, Over, PreparedOf, ReachedOf, AtomicOf
<1> QED
  BY <1>1, <1>2, <1>3, LocksUnchanged DEF IInv, Preserved

-----------------------------------------------------------------------------
(* PREPARE *)

\* The branch ends as rolled back.
LEMMA EndedBranch ==
    ASSUME IInv, NEW t \in Thread, NEW x \in Xid, NEW c \in Cache, store' = store,
           NEW b \in Branches, b.state = "rolledback", branch' = [branch EXCEPT ![c][x] = b]
    PROVE  OneBranch(t, c, x) /\ branch'[c][x].state = "rolledback"
<1>1. ServerTypes /\ LocksOK
  BY DEF IInv, Types
<1>2. ServerTypes' /\ LocksOK'
  BY <1>1, EndedLocks
<1>3. branch'[c][x] = b
  BY <1>1, BranchBecomes
<1>4. \A d \in Cache, y \in Xid : d # c \/ y # x => branch'[d][y] = branch[d][y]
  BY <1>1, BranchBecomes
<1> QED
  BY <1>2, <1>3, <1>4 DEF OneBranch

\* The branch gets prepared with the context of the transaction.
LEMMA PreparedBranch ==
    ASSUME IInv, NEW t \in Thread, NEW x \in Xid, x = txn[t].xid,
           NEW c \in DOMAIN txn[t].registeredCache, store' = store,
           DOMAIN txn[t].registeredCache[c] # {}, Validates(c, x, txn[t].registeredCache[c]),
           NEW b \in Branches, b.state = "prepared", b.entries = txn[t].registeredCache[c],
           branch' = [branch EXCEPT ![c][x] = b]
    PROVE  OneBranch(t, c, x) /\ branch'[c][x].state = "prepared"
<1>1. ServerTypes /\ LocksOK /\ c \in Cache /\ Validates(c, x, b.entries)
  BY PresentTypes DEF IInv, Types
<1>2. ServerTypes' /\ LocksOK'
  BY <1>1, PreparedLocks
<1>3. branch'[c][x] = b
  BY <1>1, BranchBecomes
<1>4. \A d \in Cache, y \in Xid : d # c \/ y # x => branch'[d][y] = branch[d][y]
  BY <1>1, BranchBecomes
<1>5. \A d \in Cache : branch'[d][x].state = "prepared" =>
        \/ branch'[d][x] = branch[d][x]
        \/ /\ d \in DOMAIN txn[t].registeredCache /\ DOMAIN txn[t].registeredCache[d] # {}
           /\ branch'[d][x].entries = txn[t].registeredCache[d]
  BY <1>3, <1>4
<1> QED
  BY <1>2, <1>3, <1>4, <1>5 DEF OneBranch

\* What the server may leave of a branch.
LEMMA BranchRecords ==
    /\ \E b \in Branches : b.state = "rolledback" /\ b = [state |-> "rolledback", entries |-> Empty]
    /\ \A tc \in Contexts : \E b \in Branches :
        b.state = "prepared" /\ b.entries = tc /\ b = [state |-> "prepared", entries |-> tc]
<1>1. [state |-> "rolledback", entries |-> Empty] \in Branches
  BY EmptyForms DEF Branches
<1>2. \A tc \in Contexts : [state |-> "prepared", entries |-> tc] \in Branches
  BY DEF Branches
<1> QED
  BY <1>1, <1>2

\* XA_OK: the cache is listed as prepared.
LEMMA VotedKeeps ==
    ASSUME IInv, NEW t \in Thread, NEW x \in Xid, x = txn[t].xid, txn[t].status = "ACTIVE",
           call[t].pc = "prepare", NEW c \in call[t].todo,
           NEW r \in Call, r.pc = "prepare", r.todo = call[t].todo \ {c}, ~r.readOnly,
           r.saw = call[t].saw,
           call' = [call EXCEPT ![t] = r],
           txn' = [txn EXCEPT ![t].preparedCache = txn[t].preparedCache \cup {c}],
           voted' = [voted EXCEPT ![x] = voted[x] \cup {c}],
           UNCHANGED <<up, view, reads, faulty, report>>,
           OneBranch(t, c, x), branch'[c][x].state = "prepared"
    PROVE  Preserved(t)
<1> DEFINE reg == txn[t].registeredCache
           P == txn[t].preparedCache \cup {c}
           V == voted[x] \cup {c}
           f == faulty[x]
<1>1. P \subseteq DOMAIN reg /\ c \in DOMAIN reg /\ c \in Cache /\ r.todo \subseteq DOMAIN reg
  BY PresentTypes
<1>2. V \in SUBSET Cache /\ f \in BOOLEAN
  BY <1>1 DEF IInv, Types, HistoryTypes
<1>3. Changed(t, P, r, V, f)
  BY <1>1, <1>2 DEF Changed
<1>4. /\ txn'[t].xid = x /\ txn'[t].registeredCache = reg /\ txn'[t].preparedCache = P
      /\ call'[t] = r /\ voted'[x] = V /\ faulty'[x] = f
  BY <1>3, ChangedForm DEF IInv
<1>5. HeldOf(t)' /\ PreparedOf(x)'
  BY <1>4, OneBranchKeeps
<1>6. VotesOf(t)'
  BY <1>4 DEF IInv, ThreadInv, VotesOf
<1>7. SawOf(t)' /\ ReadOnlyOf(t)'
  BY <1>4 DEF IInv, ThreadInv, SawOf, ReadOnlyOf
<1>8. \A d \in Cache : d = c \/ branch'[d][x] = branch[d][x]
  BY DEF OneBranch
<1>9. ListedOf(t)'
  BY <1>2, <1>4, <1>8 DEF IInv, ThreadInv, ListedOf
<1>10. InOrderOf(t)'
  BY <1>4, <1>8 DEF IInv, ThreadInv, InOrderOf
<1>11. ServerTypes' /\ LocksOK' /\ \A d \in Cache, y \in Xid \ {x} : branch'[d][y] = branch[d][y]
  BY DEF OneBranch
<1> QED
  BY <1>3, <1>5, <1>6, <1>7, <1>9, <1>10, <1>11, ChangedKeeps

\* XA_RDONLY: an empty context has no prepared branch, and needs none.
LEMMA ReadOnlyKeeps ==
    ASSUME IInv, NEW t \in Thread, NEW x \in Xid, x = txn[t].xid, txn[t].status = "ACTIVE",
           call[t].pc = "prepare", NEW c \in call[t].todo,
           DOMAIN txn[t].registeredCache[c] = {},
           NEW r \in Call, r.pc = "prepare", r.todo = call[t].todo \ {c},
           r.readOnly = call[t].readOnly, r.saw = call[t].saw,
           call' = [call EXCEPT ![t] = r],
           voted' = [voted EXCEPT ![x] = voted[x] \cup {c}],
           UNCHANGED <<store, branch, txn, up, view, reads, faulty, report>>
    PROVE  Preserved(t)
<1> DEFINE reg == txn[t].registeredCache
           P == txn[t].preparedCache
           V == voted[x] \cup {c}
           f == faulty[x]
<1>1. P \subseteq DOMAIN reg /\ c \in DOMAIN reg /\ c \in Cache /\ r.todo \subseteq DOMAIN reg
  BY PresentTypes
<1>2. V \in SUBSET Cache /\ f \in BOOLEAN
  BY <1>1 DEF IInv, Types, HistoryTypes
<1>3. Changed(t, P, r, V, f)
  BY <1>1, <1>2 DEF Changed
<1>4. /\ txn'[t].xid = x /\ txn'[t].registeredCache = reg /\ txn'[t].preparedCache = P
      /\ call'[t] = r /\ voted'[x] = V /\ faulty'[x] = f
  BY <1>3, ChangedForm DEF IInv
<1>5. ServerTypes' /\ LocksOK' /\ HeldOf(t)' /\ PreparedOf(x)'
  BY <1>3, ServerUnchanged
<1>6. branch[c][x].state # "prepared"
  BY <1>1 DEF IInv, ThreadInv, HeldOf, XidInv, PreparedOf
<1>7. VotesOf(t)'
  BY <1>4 DEF IInv, ThreadInv, VotesOf
<1>8. SawOf(t)' /\ ReadOnlyOf(t)'
  BY <1>4 DEF IInv, ThreadInv, SawOf, ReadOnlyOf
<1>9. ListedOf(t)'
  BY <1>4, <1>6 DEF IInv, ThreadInv, ListedOf
<1>10. InOrderOf(t)'
  BY <1>4 DEF IInv, ThreadInv, InOrderOf
<1> QED
  BY <1>3, <1>5, <1>7, <1>8, <1>9, <1>10, ChangedKeeps

LEMMA PrepareAnswerKeeps ==
    ASSUME IInv, NEW t \in Thread, NEW x \in Xid, x = txn[t].xid, txn[t].status = "ACTIVE",
           call[t].pc = "prepare", NEW c \in call[t].todo, PrepareAnswer(t, c)
    PROVE  Preserved(t)
<1> DEFINE reg == txn[t].registeredCache
           tc == reg[c]
           P == txn[t].preparedCache
           rest == [call[t] EXCEPT !.todo = call[t].todo \ {c}]
           last == [rest EXCEPT !.readOnly = FALSE]
           IsPrepared == branch' = [branch EXCEPT ![c][x] = [state |-> "prepared", entries |-> tc]]
<1>1. c \in DOMAIN reg /\ c \in Cache /\ tc \in Contexts /\ P \in SUBSET DOMAIN reg
  BY PresentTypes
<1>2. store' = store /\ reads' = reads
  BY DEF PrepareAnswer
<1>3. /\ rest \in Call /\ rest.pc = "prepare" /\ rest.todo = call[t].todo \ {c}
      /\ rest.readOnly = call[t].readOnly /\ rest.saw = call[t].saw
  <2>1. call[t] \in Call /\ call[t].todo \ {c} \in SUBSET Cache
    BY PresentTypes DEF Call
  <2> QED
    BY <2>1 DEF Call
<1>4. /\ last \in Call /\ last.pc = "prepare" /\ last.todo = call[t].todo \ {c}
      /\ ~last.readOnly /\ last.saw = call[t].saw
  <2> HIDE DEF rest
  <2> QED
    BY <1>3, CallUpdates
<1>5. PICK ended \in Branches :
        ended.state = "rolledback" /\ ended = [state |-> "rolledback", entries |-> Empty]
  BY BranchRecords
<1>6. PICK held \in Branches :
        held.state = "prepared" /\ held.entries = tc /\ held = [state |-> "prepared", entries |-> tc]
  BY <1>1, BranchRecords
<1>7. faulty[x] \in BOOLEAN
  BY DEF IInv, Types, HistoryTypes
<1> DEFINE XA_OK == /\ DOMAIN tc # {} /\ Validates(c, x, tc) /\ IsPrepared
                    /\ voted' = [voted EXCEPT ![x] = voted[x] \cup {c}]
                    /\ txn' = [txn EXCEPT ![t].preparedCache = P \cup {c}]
                    /\ call' = [call EXCEPT ![t] = last]
                    /\ UNCHANGED <<up, view, faulty, report>>
           XA_RDONLY == /\ DOMAIN tc = {} /\ call' = [call EXCEPT ![t] = rest]
                        /\ voted' = [voted EXCEPT ![x] = voted[x] \cup {c}]
                        /\ UNCHANGED <<up, branch, txn, view, faulty, report>>
           XA_RBROLLBACK == /\ branch[c][x].state # "committed"
                            /\ branch' = [branch EXCEPT ![c][x] = [state |-> "rolledback", entries |-> Empty]]
                            /\ CatchAndRollback(t, P \cup {c})
                            /\ UNCHANGED <<up, voted, faulty>>
           XAER_NOTA == /\ branch[c][x].state \in {"committed", "rolledback"}
                        /\ \/ CatchAndRollback(t, P \cup {c}) /\ UNCHANGED up
                           \/ up' = FALSE /\ UNCHANGED <<txn, call, view, report>>
                        /\ UNCHANGED <<branch, voted, faulty>>
           Lost == /\ \/ DOMAIN tc # {} /\ Validates(c, x, tc) /\ IsPrepared
                      \/ UNCHANGED branch
                   /\ faulty' = [faulty EXCEPT ![x] = TRUE]
                   /\ CatchAndRollback(t, P)
                   /\ UNCHANGED <<up, voted>>
<1>8. XA_OK \/ XA_RDONLY \/ XA_RBROLLBACK \/ XAER_NOTA \/ Lost
  BY DEF PrepareAnswer
<1> HIDE DEF rest, last
<1>9. CASE XA_OK
  <2>1. branch' = [branch EXCEPT ![c][x] = held]
    BY <1>6, <1>9
  <2> HIDE DEF XA_OK
  <2>2. OneBranch(t, c, x) /\ branch'[c][x].state = "prepared"
    <3>1. DOMAIN tc # {} /\ Validates(c, x, tc) /\ held.state = "prepared" /\ held.entries = tc
      BY <1>6, <1>9 DEF XA_OK
    <3> QED
      BY <1>1, <1>2, <2>1, <3>1, PreparedBranch
  <2>3. /\ voted' = [voted EXCEPT ![x] = voted[x] \cup {c}]
        /\ txn' = [txn EXCEPT ![t].preparedCache = txn[t].preparedCache \cup {c}]
        /\ call' = [call EXCEPT ![t] = last]
        /\ UNCHANGED <<up, view, reads, faulty, report>>
    BY <1>2, <1>9 DEF XA_OK
  <2> QED
    BY <1>4, <2>2, <2>3, VotedKeeps
<1>10. CASE XA_RDONLY
  <2>1. /\ voted' = [voted EXCEPT ![x] = voted[x] \cup {c}]
        /\ call' = [call EXCEPT ![t] = rest]
        /\ UNCHANGED <<store, branch, txn, up, view, reads, faulty, report>>
    BY <1>2, <1>10
  <2>2. DOMAIN txn[t].registeredCache[c] = {}
    BY <1>10
  <2> HIDE DEF XA_RDONLY
  <2> QED
    BY <1>3, <2>1, <2>2, ReadOnlyKeeps
<1>11. CASE XA_RBROLLBACK
  <2>1. branch' = [branch EXCEPT ![c][x] = ended]
    BY <1>5, <1>11
  <2> HIDE DEF XA_RBROLLBACK
  <2>2. ended.state = "rolledback"
    BY <1>5
  <2>3. OneBranch(t, c, x) /\ branch'[c][x].state = "rolledback"
    BY <1>1, <1>2, <2>1, <2>2, EndedBranch, ZenonT(30)
  <2>4. \A d \in Cache : d # c => branch'[d][x] = branch[d][x]
    BY <2>3 DEF OneBranch
  <2>5. \A d \in Cache : branch'[d][x].state = "prepared" => branch'[d][x] = branch[d][x]
    BY <2>3, <2>4
  <2>6. ~faulty[x] => \A d \in Cache : branch'[d][x].state # "committed"
    BY <2>3, <2>4 DEF IInv, ThreadInv, InOrderOf
  <2>7. P \cup {c} \in SUBSET DOMAIN reg /\ txn[t].preparedCache \subseteq P \cup {c}
    BY <1>1
  <2>8. CatchAndRollback(t, P \cup {c}) /\ UNCHANGED <<up, reads, voted>> /\ faulty' = faulty
    BY <1>2, <1>11 DEF XA_RBROLLBACK
  <2> QED
    BY <1>7, <2>3, <2>5, <2>6, <2>7, <2>8, CaughtKeeps
<1>12. CASE XAER_NOTA
  <2>1. CASE up' = FALSE /\ UNCHANGED <<txn, call, view, report>>
    <3>1. UNCHANGED <<store, branch, txn, call, view, reads, voted, faulty, report>>
      BY <1>2, <1>12, <2>1
    <3> QED
      BY <2>1, <3>1, CrashKeeps
  <2>2. CASE CatchAndRollback(t, P \cup {c}) /\ UNCHANGED up
    <3>1. UNCHANGED <<store, branch>> /\ UNCHANGED <<up, reads, voted>> /\ faulty' = faulty
      BY <1>2, <1>12, <2>2
    <3>2. OneBranch(t, c, x)
      BY <3>1, NoBranch
    <3>3. P \cup {c} \in SUBSET DOMAIN reg /\ txn[t].preparedCache \subseteq P \cup {c}
      BY <1>1
    <3>4. \A d \in Cache : branch'[d][x] = branch[d][x]
      BY <3>1
    <3>5. faulty[x]
      BY <1>1, <1>12 DEF IInv, ThreadInv, InOrderOf
    <3> QED
      BY <1>7, <2>2, <3>1, <3>2, <3>3, <3>4, <3>5, CaughtKeeps
  <2> QED
    BY <1>12, <2>1, <2>2
<1>13. CASE Lost
  <2>1. OneBranch(t, c, x)
    <3>1. CASE branch' = branch
      BY <1>2, <3>1, NoBranch
    <3>2. CASE DOMAIN tc # {} /\ Validates(c, x, tc) /\ IsPrepared
      <4>1. branch' = [branch EXCEPT ![c][x] = held]
        BY <1>6, <3>2
      <4>2. DOMAIN tc # {} /\ Validates(c, x, tc) /\ held.state = "prepared" /\ held.entries = tc
        BY <1>6, <3>2
      <4> HIDE DEF IsPrepared
      <4> QED
        BY <1>1, <1>2, <4>1, <4>2, PreparedBranch
    <3> QED
      BY <1>13, <3>1, <3>2
  <2>2. c \notin voted[x]
    BY DEF IInv, ThreadInv, VotesOf
  <2>3. \A d \in Cache : branch'[d][x] = branch[d][x] \/ d \notin voted[x]
    BY <2>1, <2>2 DEF OneBranch
  <2>4. /\ faulty' = [faulty EXCEPT ![x] = TRUE] /\ CatchAndRollback(t, P)
        /\ UNCHANGED <<up, reads, voted>>
    BY <1>2, <1>13
  <2> HIDE DEF Lost
  <2> QED
    BY <1>1, <2>1, <2>3, <2>4, CaughtKeeps
<1> QED
  BY <1>8, <1>9, <1>10, <1>11, <1>12, <1>13

LEMMA PrepareKeeps ==
    ASSUME IInv, NEW t \in Thread, remotePrepareCommit(t)
    PROVE  Preserved(t)
<1>1. call[t].pc = "prepare" /\ call[t].todo # {} /\ txn[t].status = "ACTIVE"
  BY DEF remotePrepareCommit, IInv, ThreadInv, CallOf
<1> PICK x \in Xid : x = txn[t].xid
  BY <1>1 DEF IInv, ThreadInv, CallOf
<1>2. PICK c \in call[t].todo : c = Least(call[t].todo)
  BY <1>1, NextCache
<1>3. PrepareFails(t, c) \/ PrepareAnswer(t, c)
  BY <1>2 DEF remotePrepareCommit
<1>4. CASE PrepareFails(t, c)
  <2>1. UNCHANGED <<store, branch, reads, voted, faulty>>
    BY <1>4 DEF PrepareFails
  <2>2. \/ Escape(t) /\ UNCHANGED up
        \/ up' = FALSE /\ UNCHANGED <<txn, call, view, report>>
    BY <1>4 DEF PrepareFails
  <2>3. CASE Escape(t) /\ UNCHANGED up
    <3>1. OneBranch(t, c, x) /\ faulty[x] \in BOOLEAN
      BY <2>1, NoBranch DEF IInv, Types, HistoryTypes
    <3> QED
      BY <1>1, <2>1, <2>3, <3>1, EscapeKeeps
  <2>4. CASE up' = FALSE /\ UNCHANGED <<txn, call, view, report>>
    BY <1>1, <2>1, <2>4, CrashKeeps
  <2> QED
    BY <2>2, <2>3, <2>4
<1>5. CASE PrepareAnswer(t, c)
  BY <1>1, <1>5, PrepareAnswerKeeps
<1> QED
  BY <1>3, <1>4, <1>5

\* Every cache has voted.
LEMMA PrepareEndsKeeps ==
    ASSUME IInv, NEW t \in Thread, PrepareEnds(t)
    PROVE  Preserved(t)
<1>1. call[t].pc = "prepare" /\ call[t].todo = {} /\ txn[t].status = "ACTIVE"
  BY DEF PrepareEnds, IInv, ThreadInv, CallOf
<1> PICK x \in Xid : x = txn[t].xid
  BY <1>1 DEF IInv, ThreadInv, CallOf
<1> DEFINE reg == txn[t].registeredCache
<1>2. UNCHANGED <<store, branch, up, reads, voted, faulty>>
  BY DEF PrepareEnds
<1>3. CASE call[t].readOnly
  <2>1. Finish(t, "COMMITTED")
    BY <1>3 DEF PrepareEnds
  <2>2. \A c \in Cache : branch[c][x].state # "prepared"
    BY <1>1, <1>3 DEF IInv, ThreadInv, HeldOf, ReadOnlyOf, XidInv, PreparedOf
  <2>3. ~faulty[x] => \A c \in Cache : branch[c][x].state \in {"none", "committed"}
    BY <1>1, <2>2 DEF IInv, ThreadInv, InOrderOf
  <2>4. "COMMITTED" \notin RolledBack
    BY DEF RolledBack
  <2> QED
    BY <1>1, <1>2, <2>1, <2>3, <2>4, FinishKeeps
<1>4. CASE ~call[t].readOnly
  <2> DEFINE r == [call[t] EXCEPT !.pc = "commit", !.todo = DOMAIN reg]
             P == txn[t].preparedCache
             V == voted[x]
             f == faulty[x]
  <2>1. call' = [call EXCEPT ![t] = r] /\ UNCHANGED <<txn, view, report>>
    <3>1. /\ call' = [call EXCEPT ![t].pc = "commit", ![t].todo = DOMAIN reg]
          /\ UNCHANGED <<txn, view, report>>
      BY <1>4 DEF PrepareEnds
    <3>2. call \in [Thread -> Call]
      BY DEF IInv, Types, ClientTypes
    <3> QED
      BY <3>1, <3>2
  <2>2. r \in Call /\ r.pc = "commit" /\ r.todo = DOMAIN reg /\ r.saw = call[t].saw
    <3>1. call[t] \in Call /\ DOMAIN reg \in SUBSET Cache
      BY PresentTypes
    <3> QED
      BY <3>1 DEF Call
  <2> HIDE DEF r
  <2>3. P \subseteq DOMAIN reg /\ V \in SUBSET Cache /\ f \in BOOLEAN
    BY PresentTypes DEF IInv, Types, HistoryTypes
  <2>4. Changed(t, P, r, V, f)
    BY <1>1, <1>2, <2>1, <2>2, <2>3 DEF Changed
  <2>5. /\ txn'[t].xid = x /\ txn'[t].registeredCache = reg /\ txn'[t].preparedCache = P
        /\ call'[t] = r /\ voted'[x] = V /\ faulty'[x] = f
    BY <2>4, ChangedForm DEF IInv
  <2>6. ServerTypes' /\ LocksOK' /\ HeldOf(t)' /\ PreparedOf(x)'
    BY <1>2, <2>4, ServerUnchanged
  <2>7. VotesOf(t)' /\ SawOf(t)' /\ ReadOnlyOf(t)'
    BY <1>1, <2>2, <2>5 DEF IInv, ThreadInv, VotesOf, SawOf, ReadOnlyOf
  <2>8. ListedOf(t)'
    BY <1>2, <2>2, <2>5 DEF IInv, ThreadInv, ListedOf
  <2>9. InOrderOf(t)'
    <3> SUFFICES ASSUME ~f, NEW c \in Cache
                 PROVE  /\ branch[c][x].state \in {"none", "prepared"}
                        /\ branch[c][x].state = "prepared" => c \in P /\ c \in DOMAIN reg
      BY <1>2, <2>2, <2>5 DEF InOrderOf
    <3> QED
      BY <1>1 DEF IInv, ThreadInv, InOrderOf, HeldOf
  <2> QED
    BY <1>2, <2>4, <2>6, <2>7, <2>8, <2>9, ChangedKeeps
<1> QED
  BY <1>3, <1>4

-----------------------------------------------------------------------------
(* COMMIT *)

\* The answers of a server that is in order.
LEMMA InOrderAnswers ==
    ASSUME NEW c, NEW x, NEW s, NEW ret \in CommitStatus(c, x, s), InOrder(c, x, s, ret)
    PROVE  /\ CommitSaw(ret) \subseteq {"commit", "forgot"}
           /\ s \in {"none", "committed"}
           /\ s = "committed" => "commit" \in CommitSaw(ret)
<1>1. CASE branch[c][x].state = "none" /\ s = "none"
  <2>1. ret \in {"XA_OK", "XA_RDONLY", "XAER_NOTA"}
    BY <1>1 DEF CommitStatus
  <2> QED
    BY <1>1, <2>1 DEF CommitSaw
<1>2. CASE branch[c][x].state = "prepared" /\ s = "committed" /\ ret = "XA_OK"
  BY <1>2 DEF CommitSaw
<1> QED
  BY <1>1, <1>2 DEF InOrder

LEMMA CommitSawTypes ==
    ASSUME NEW ret
    PROVE  CommitSaw(ret) \subseteq {"commit", "rollback", "forgot", "unknown"}
BY DEF CommitSaw

\* The answer of one cache to COMMIT.
LEMMA CommitAnswerKeeps ==
    ASSUME IInv, NEW t \in Thread, NEW x \in Xid, x = txn[t].xid, txn[t].status = "ACTIVE",
           call[t].pc = "commit", NEW c \in call[t].todo, NEW saw,
           NEW r \in Call, r.pc = "commit", r.todo = call[t].todo \ {c}, r.saw = call[t].saw \cup saw,
           call' = [call EXCEPT ![t] = r], NEW f \in BOOLEAN, faulty' = [faulty EXCEPT ![x] = f],
           UNCHANGED <<txn, up, view, reads, voted, report>>,
           OneBranch(t, c, x),
           branch'[c][x].state = "prepared" => branch'[c][x] = branch[c][x],
           ~f => /\ ~faulty[x] /\ saw \subseteq {"commit", "forgot"}
                 /\ branch'[c][x].state \in {"none", "committed"}
                 /\ branch'[c][x].state = "committed" => "commit" \in saw
    PROVE  Preserved(t)
<1> DEFINE reg == txn[t].registeredCache
           P == txn[t].preparedCache
           V == voted[x]
<1>1. P \subseteq DOMAIN reg /\ c \in Cache /\ r.todo \subseteq DOMAIN reg /\ V \in SUBSET Cache
  BY PresentTypes DEF IInv, Types, HistoryTypes
<1>2. Changed(t, P, r, V, f)
  BY <1>1 DEF Changed
<1>3. /\ txn'[t].xid = x /\ txn'[t].registeredCache = reg /\ txn'[t].preparedCache = P
      /\ call'[t] = r /\ voted'[x] = V /\ faulty'[x] = f
  BY <1>2, ChangedForm DEF IInv
<1>4. HeldOf(t)' /\ PreparedOf(x)'
  BY <1>3, OneBranchKeeps
<1>5. VotesOf(t)' /\ SawOf(t)' /\ ReadOnlyOf(t)'
  BY <1>3 DEF IInv, ThreadInv, VotesOf, SawOf, ReadOnlyOf
<1>6. \A d \in Cache : d = c \/ branch'[d][x] = branch[d][x]
  BY DEF OneBranch
<1>7. ListedOf(t)'
  BY <1>1, <1>3, <1>6 DEF IInv, ThreadInv, ListedOf
<1>8. InOrderOf(t)'
  <2> SUFFICES ASSUME ~f, NEW d \in Cache
               PROVE  /\ branch'[d][x].state # "rolledback"
                      /\ branch'[d][x].state = "prepared" => d \in P /\ d \in r.todo
                      /\ branch'[d][x].state = "committed" => "commit" \in r.saw
    BY <1>3 DEF InOrderOf
  <2>1. CASE d = c
    BY <2>1
  <2>2. CASE d # c
    BY <1>6, <2>2 DEF IInv, ThreadInv, InOrderOf
  <2> QED
    BY <2>1, <2>2
<1>9. ServerTypes' /\ LocksOK' /\ \A d \in Cache, y \in Xid \ {x} : branch'[d][y] = branch[d][y]
  BY DEF OneBranch
<1> QED
  BY <1>2, <1>4, <1>5, <1>7, <1>8, <1>9, ChangedKeeps

\* A prepared branch ends in either way.
LEMMA BranchEnds ==
    ASSUME IInv, NEW t \in Thread, NEW x \in Xid, NEW c \in Cache, NEW s \in {"committed", "rolledback"},
           branch[c][x].state = "prepared", Branch(c, x, s)
    PROVE  OneBranch(t, c, x) /\ branch'[c][x].state = s
<1>1. ServerTypes /\ LocksOK
  BY DEF IInv, Types
<1>2. PICK b \in Branches : b.state = s /\ b = [state |-> s, entries |-> Empty]
  <2>1. [state |-> s, entries |-> Empty] \in Branches
    BY EmptyForms DEF Branches
  <2> QED
    BY <2>1
<1>3. branch' = [branch EXCEPT ![c][x] = b] /\ b.state = s
  BY <1>2 DEF Branch
<1>4. branch'[c][x] = b
  BY <1>1, <1>3, BranchBecomes
<1>5. \A d \in Cache, y \in Xid : d # c \/ y # x => branch'[d][y] = branch[d][y]
  BY <1>1, <1>3, BranchBecomes
<1>6. ServerTypes' /\ LocksOK'
  <2>1. CASE s = "committed"
    BY <1>1, <2>1, CommittedLocks
  <2>2. CASE s = "rolledback"
    <3>1. store' = store
      BY <2>2 DEF Branch
    <3> QED
      BY <1>1, <1>3, <2>2, <3>1, EndedLocks
  <2> QED
    BY <2>1, <2>2
<1> QED
  BY <1>3, <1>4, <1>5, <1>6 DEF OneBranch

LEMMA RemoteCommitKeeps ==
    ASSUME IInv, NEW t \in Thread, remoteCommit(t)
    PROVE  Preserved(t)
<1>1. call[t].pc = "commit" /\ call[t].todo # {} /\ txn[t].status = "ACTIVE"
  BY DEF remoteCommit, IInv, ThreadInv, CallOf
<1> PICK x \in Xid : x = txn[t].xid
  BY <1>1 DEF IInv, ThreadInv, CallOf
<1>2. PICK c \in call[t].todo : c = Least(call[t].todo)
  BY <1>1, NextCache
<1>3. c \in Cache /\ call[t] \in Call /\ faulty[x] \in BOOLEAN
  BY PresentTypes DEF IInv, Types, HistoryTypes
<1>4. branch[c][x].state \in {"none", "prepared", "committed", "rolledback"}
  BY <1>3 DEF IInv, Types, ServerTypes, Branches
<1> DEFINE now == branch[c][x].state
           P == txn[t].preparedCache
           Answered(s) ==
             \E ret \in CommitStatus(c, x, s) :
                /\ call' = [call EXCEPT ![t].todo = @ \ {c}, ![t].saw = @ \cup CommitSaw(ret)]
                /\ faulty' = [faulty EXCEPT ![x] = @ \/ ~InOrder(c, x, s, ret)]
                /\ UNCHANGED <<txn, view, report>>
           Lost == CatchAndRollback(t, P) /\ faulty' = [faulty EXCEPT ![x] = TRUE]
<1>5. PICK s \in IF now = "prepared" THEN {"prepared", "committed", "rolledback"} ELSE {now} :
        /\ IF s = now THEN UNCHANGED <<branch, store>> ELSE Branch(c, x, s)
        /\ Answered(s) \/ Lost
  BY <1>2 DEF remoteCommit
<1>6. UNCHANGED <<up, reads, voted>>
  BY DEF remoteCommit
<1> HIDE DEF Answered, Lost
<1>7. OneBranch(t, c, x) /\ branch'[c][x].state = s
  <2>1. CASE s = now
    <3>1. UNCHANGED <<store, branch>>
      BY <1>5, <2>1
    <3> QED
      BY <2>1, <3>1, NoBranch
  <2>2. CASE s # now
    BY <1>3, <1>5, <2>2, BranchEnds
  <2> QED
    BY <2>1, <2>2
<1>8. \A d \in Cache : branch'[d][x].state = "prepared" => branch'[d][x] = branch[d][x]
  BY <1>5, <1>7 DEF OneBranch
<1>9. CASE Answered(s)
  <2>1. PICK ret \in CommitStatus(c, x, s) :
          /\ call' = [call EXCEPT ![t].todo = @ \ {c}, ![t].saw = @ \cup CommitSaw(ret)]
          /\ faulty' = [faulty EXCEPT ![x] = @ \/ ~InOrder(c, x, s, ret)]
          /\ UNCHANGED <<txn, view, report>>
    BY <1>9 DEF Answered
  <2>2. PICK saw \in SUBSET {"commit", "rollback", "forgot", "unknown"} : saw = CommitSaw(ret)
    BY CommitSawTypes
  <2>3. PICK f \in BOOLEAN : f <=> (faulty[x] \/ ~InOrder(c, x, s, ret))
    OBVIOUS
  <2> DEFINE r == [call[t] EXCEPT !.todo = call[t].todo \ {c}, !.saw = call[t].saw \cup saw]
  <2>4. /\ call' = [call EXCEPT ![t] = r]
        /\ faulty' = [faulty EXCEPT ![x] = f]
        /\ UNCHANGED <<txn, up, view, reads, voted, report>>
    <3>1. call \in [Thread -> Call] /\ faulty \in [Xid -> BOOLEAN]
      BY DEF IInv, Types, ClientTypes, HistoryTypes
    <3>2. call' = [call EXCEPT ![t] = r]
      BY <2>1, <2>2, <3>1
    <3>3. f = (faulty[x] \/ ~InOrder(c, x, s, ret))
      BY <1>3, <2>3 DEF InOrder
    <3>4. faulty' = [faulty EXCEPT ![x] = f]
      BY <2>1, <3>1, <3>3
    <3> QED
      BY <1>6, <2>1, <3>2, <3>4
  <2>5. /\ r \in Call /\ r.pc = "commit" /\ r.todo = call[t].todo \ {c}
        /\ r.saw = call[t].saw \cup saw
    BY <1>1, <1>3 DEF Call
  <2> HIDE DEF r
  <2>6. ~f => /\ ~faulty[x] /\ saw \subseteq {"commit", "forgot"}
              /\ branch'[c][x].state \in {"none", "committed"}
              /\ branch'[c][x].state = "committed" => "commit" \in saw
    BY <1>7, <2>2, <2>3, InOrderAnswers
  <2> QED
    BY <1>1, <1>3, <1>7, <1>8, <2>4, <2>5, <2>6, CommitAnswerKeeps
<1>10. CASE Lost
  <2>1. CatchAndRollback(t, P) /\ faulty' = [faulty EXCEPT ![x] = TRUE]
    BY <1>10 DEF Lost
  <2>2. P \in SUBSET DOMAIN txn[t].registeredCache
    BY PresentTypes
  <2> QED
    BY <1>1, <1>6, <1>7, <1>8, <2>1, <2>2, CaughtKeeps
<1> QED
  BY <1>5, <1>9, <1>10

\* When every cache has answered, remoteCommit throws unless one has committed and none
\* has rolled back.
LEMMA CommitEndsKeeps ==
    ASSUME IInv, NEW t \in Thread, CommitEnds(t)
    PROVE  Preserved(t)
<1>1. call[t].pc = "commit" /\ call[t].todo = {} /\ txn[t].status = "ACTIVE"
  BY DEF CommitEnds, IInv, ThreadInv, CallOf
<1> PICK x \in Xid : x = txn[t].xid
  BY <1>1 DEF IInv, ThreadInv, CallOf
<1> DEFINE ex == CommitThrows(call[t].saw)
           P == txn[t].preparedCache
<1>2. UNCHANGED <<store, branch, reads, voted, faulty>>
  BY DEF CommitEnds
<1>3. \/ Finish(t, "COMMITTED") /\ UNCHANGED up
      \/ ex # "none" /\ CatchAndRollback(t, P) /\ UNCHANGED up
      \/ up' = FALSE /\ UNCHANGED <<txn, call, view, report>>
  BY DEF CommitEnds
<1>4. \A c \in Cache : branch[c][x].state \in {"none", "prepared", "committed", "rolledback"}
  BY DEF IInv, Types, ServerTypes, Branches
<1>5. CASE Finish(t, "COMMITTED") /\ UNCHANGED up
  <2>1. ~faulty[x] => \A c \in Cache : branch[c][x].state \in {"none", "committed"}
    BY <1>1, <1>4 DEF IInv, ThreadInv, InOrderOf
  <2>2. "COMMITTED" \notin RolledBack
    BY DEF RolledBack
  <2> QED
    BY <1>1, <1>2, <1>5, <2>1, <2>2, FinishKeeps
<1>6. CASE ex # "none" /\ CatchAndRollback(t, P) /\ UNCHANGED up
  <2>1. OneBranch(t, t, x)
    BY <1>2, NoBranch
  <2>2. ~faulty[x] => \A c \in Cache : branch[c][x].state # "committed"
    <3> SUFFICES ASSUME ~faulty[x], NEW c \in Cache, branch[c][x].state = "committed"
                 PROVE  FALSE
      OBVIOUS
    <3>1. "commit" \in call[t].saw /\ call[t].saw \subseteq {"commit", "forgot"}
      BY <1>1 DEF IInv, ThreadInv, InOrderOf, SawOf
    <3>2. "rollback" \notin call[t].saw
      BY <3>1
    <3>3. ex = "none"
      BY <3>1, <3>2 DEF CommitThrows
    <3> QED
      BY <1>6, <3>3
  <2>3. P \in SUBSET DOMAIN txn[t].registeredCache /\ faulty[x] \in BOOLEAN
    BY PresentTypes DEF IInv, Types, HistoryTypes
  <2> QED
    BY <1>1, <1>2, <1>6, <2>1, <2>2, <2>3, CaughtKeeps
<1>7. CASE up' = FALSE /\ UNCHANGED <<txn, call, view, report>>
  BY <1>1, <1>2, <1>7, CrashKeeps
<1> QED
  BY <1>3, <1>5, <1>6, <1>7

-----------------------------------------------------------------------------
(* ROLLBACK *)

\* The answer of one cache to ROLLBACK.
LEMMA RollbackAnswerKeeps ==
    ASSUME IInv, NEW t \in Thread, NEW x \in Xid, x = txn[t].xid, txn[t].status = "ACTIVE",
           call[t].pc = "rollback", NEW c \in call[t].todo,
           NEW r \in Call, r.pc = "rollback", r.todo = call[t].todo \ {c},
           r.saw = call[t].saw \cup {"rollback"}, call' = [call EXCEPT ![t] = r],
           UNCHANGED <<txn, up, view, reads, voted, faulty, report>>,
           OneBranch(t, c, x), branch'[c][x].state # "prepared",
           branch'[c][x].state = "committed" => branch[c][x].state = "committed"
    PROVE  Preserved(t)
<1> DEFINE reg == txn[t].registeredCache
           P == txn[t].preparedCache
           V == voted[x]
           f == faulty[x]
<1>1. /\ P \subseteq DOMAIN reg /\ c \in Cache /\ r.todo \subseteq DOMAIN reg
      /\ V \in SUBSET Cache /\ f \in BOOLEAN
  BY PresentTypes DEF IInv, Types, HistoryTypes
<1>2. Changed(t, P, r, V, f)
  BY <1>1 DEF Changed
<1>3. /\ txn'[t].xid = x /\ txn'[t].registeredCache = reg /\ txn'[t].preparedCache = P
      /\ call'[t] = r /\ voted'[x] = V /\ faulty'[x] = f
  BY <1>2, ChangedForm DEF IInv
<1>4. HeldOf(t)' /\ PreparedOf(x)'
  BY <1>3, OneBranchKeeps
<1>5. VotesOf(t)' /\ SawOf(t)' /\ ReadOnlyOf(t)'
  BY <1>3 DEF IInv, ThreadInv, VotesOf, SawOf, ReadOnlyOf
<1>6. \A d \in Cache : d = c \/ branch'[d][x] = branch[d][x]
  BY DEF OneBranch
<1>7. ListedOf(t)'
  BY <1>1, <1>3, <1>6 DEF IInv, ThreadInv, ListedOf
<1>8. InOrderOf(t)'
  <2> SUFFICES ASSUME ~f, NEW d \in Cache
               PROVE  /\ branch'[d][x].state # "committed"
                      /\ branch'[d][x].state = "prepared" => d \in P /\ d \in r.todo
    BY <1>3 DEF InOrderOf
  <2> QED
    BY <1>6 DEF IInv, ThreadInv, InOrderOf
<1>9. ServerTypes' /\ LocksOK' /\ \A d \in Cache, y \in Xid \ {x} : branch'[d][y] = branch[d][y]
  BY DEF OneBranch
<1> QED
  BY <1>2, <1>4, <1>5, <1>7, <1>8, <1>9, ChangedKeeps

LEMMA RemoteRollbackKeeps ==
    ASSUME IInv, NEW t \in Thread, remoteRollback(t)
    PROVE  Preserved(t)
<1>1. call[t].pc = "rollback" /\ call[t].todo # {} /\ txn[t].status = "ACTIVE"
  BY DEF remoteRollback, IInv, ThreadInv, CallOf
<1> PICK x \in Xid : x = txn[t].xid
  BY <1>1 DEF IInv, ThreadInv, CallOf
<1>2. PICK c \in call[t].todo : c = Least(call[t].todo)
  BY <1>1, NextCache
<1>3. c \in Cache /\ call[t] \in Call
  BY PresentTypes
<1> DEFINE now == branch[c][x].state
           Done == IF now = "prepared" THEN Branch(c, x, "rolledback") ELSE UNCHANGED <<branch, store>>
           Answered == /\ call' = [call EXCEPT ![t].todo = @ \ {c}, ![t].saw = @ \cup {"rollback"}]
                       /\ UNCHANGED <<txn, view, report, faulty>>
           Lost == faulty' = [faulty EXCEPT ![x] = TRUE] /\ Escape(t)
<1>4. /\ UNCHANGED <<up, reads, voted>>
      /\ (Done /\ Answered) \/ ((Done \/ UNCHANGED <<branch, store>>) /\ Lost)
  <2>1. \A status : RollbackSaw(RollbackOperation(status)) = {"rollback"}
    BY DEF RollbackSaw, RollbackOperation
  <2> QED
    BY <1>2, <2>1 DEF remoteRollback
<1> HIDE DEF Answered, Lost
<1>5. ASSUME Done
      PROVE  /\ OneBranch(t, c, x) /\ branch'[c][x].state # "prepared"
             /\ branch'[c][x].state = "committed" => branch[c][x].state = "committed"
  <2>1. CASE now = "prepared"
    BY <1>3, <1>5, <2>1, BranchEnds
  <2>2. CASE now # "prepared"
    <3>1. UNCHANGED <<store, branch>>
      BY <1>5, <2>2
    <3> QED
      BY <2>2, <3>1, NoBranch
  <2> QED
    BY <2>1, <2>2
<1>6. CASE Done /\ Answered
  <2> DEFINE r == [call[t] EXCEPT !.todo = call[t].todo \ {c}, !.saw = call[t].saw \cup {"rollback"}]
  <2>1. call' = [call EXCEPT ![t] = r]
    <3>1. call \in [Thread -> Call]
      BY DEF IInv, Types, ClientTypes
    <3> QED
      BY <1>6, <3>1 DEF Answered
  <2>2. /\ r \in Call /\ r.pc = "rollback" /\ r.todo = call[t].todo \ {c}
        /\ r.saw = call[t].saw \cup {"rollback"}
    BY <1>1, <1>3 DEF Call
  <2>3. UNCHANGED <<txn, up, view, reads, voted, faulty, report>>
    BY <1>4, <1>6 DEF Answered
  <2> HIDE DEF r, Done
  <2> QED
    BY <1>1, <1>5, <1>6, <2>1, <2>2, <2>3, RollbackAnswerKeeps
<1>7. CASE (Done \/ UNCHANGED <<branch, store>>) /\ Lost
  <2>1. OneBranch(t, c, x)
    BY <1>5, <1>7, NoBranch
  <2>2. branch'[c][x].state = "prepared" => branch'[c][x] = branch[c][x]
    BY <1>5, <1>7
  <2>3. \A d \in Cache : branch'[d][x].state = "prepared" => branch'[d][x] = branch[d][x]
    BY <2>1, <2>2 DEF OneBranch
  <2>4. faulty' = [faulty EXCEPT ![x] = TRUE] /\ Escape(t)
    BY <1>7 DEF Lost
  <2> HIDE DEF Done
  <2> QED
    BY <1>1, <1>4, <2>1, <2>3, <2>4, EscapeKeeps
<1> QED
  BY <1>4, <1>6, <1>7

\* rollback() and the handler of commit() never throw of themselves, RollbackOperation
\* being what it is: the report is true of every branch that voted.
LEMMA RollbackEndsKeeps ==
    ASSUME IInv, NEW t \in Thread, RollbackEnds(t)
    PROVE  Preserved(t)
<1>1. call[t].pc = "rollback" /\ call[t].todo = {} /\ txn[t].status = "ACTIVE"
  BY DEF RollbackEnds, IInv, ThreadInv, CallOf
<1> PICK x \in Xid : x = txn[t].xid
  BY <1>1 DEF IInv, ThreadInv, CallOf
<1>2. UNCHANGED <<store, branch, up, reads, voted, faulty>>
  BY DEF RollbackEnds
<1>3. ~RollbackThrows(call[t].saw)
  <2>1. call[t].saw \subseteq {"rollback"}
    BY <1>1 DEF IInv, ThreadInv, SawOf
  <2>2. call[t].saw = {} \/ call[t].saw = {"rollback"}
    BY <2>1
  <2> QED
    BY <2>2 DEF RollbackThrows
<1>4. PICK s \in RolledBack : Finish(t, s)
  BY <1>3 DEF RollbackEnds, RolledBack
<1>5. s # "COMMITTED"
  BY DEF RolledBack
<1>6. \A c \in voted[x] : branch[c][x].state # "prepared"
  BY <1>1 DEF IInv, ThreadInv, ListedOf
<1>7. ~faulty[x] => \A c \in Cache : branch[c][x].state \in {"none", "rolledback"}
  <2>1. \A c \in Cache : branch[c][x].state \in {"none", "prepared", "committed", "rolledback"}
    BY DEF IInv, Types, ServerTypes, Branches
  <2> QED
    BY <1>1, <2>1 DEF IInv, ThreadInv, InOrderOf
<1> QED
  BY <1>1, <1>2, <1>4, <1>5, <1>6, <1>7, FinishKeeps

-----------------------------------------------------------------------------
(* The invariant *)

LEMMA NonTxPutKeeps ==
    ASSUME IInv, NEW c \in Cache, NEW k \in Key, NonTxPut(c, k)
    PROVE  IInv'
<1>1. UNCHANGED <<branch, txn, call, up, view, reads, voted, faulty, report>>
  BY DEF NonTxPut, history
<1>2. ServerTypes' /\ LocksOK'
  BY NonTxPutLocks DEF IInv, Types
<1>3. Types'
  BY <1>1, <1>2 DEF IInv, Types, ClientTypes, HistoryTypes
<1>4. \A t \in Thread : ThreadInv(t)'
  BY <1>1 DEF IInv, ThreadInv, CallOf, ViewOf, ReadsOf, HeldOf, VotesOf, ListedOf, InOrderOf, SawOf,
              ReadOnlyOf
<1>5. \A x \in Xid : XidInv(x)'
  BY <1>1 DEF IInv, XidInv, AheadOf, Ahead, Over, PreparedOf, ReachedOf, AtomicOf
<1> QED
  BY <1>2, <1>3, <1>4, <1>5 DEF IInv

LEMMA Initially == Init => IInv
<1> SUFFICES ASSUME Init PROVE IInv
  OBVIOUS
<1>0. 1 \in 1 .. MaxTx + 1
  BY BoundsAssumption
<1>1. \A t \in Thread :
        /\ txn[t] \in Txn /\ txn[t].status = "NO_TRANSACTION" /\ txn[t].xid = <<t, 1>>
        /\ DOMAIN txn[t].registeredCache = {} /\ txn[t].preparedCache = {}
  BY <1>0, NewTransactionForm DEF Init
<1>2. \A t \in Thread : call[t] \in Call /\ call[t].pc = "idle" /\ call[t].todo = {}
  BY NoCallForm DEF Init
<1>3. \A t \in Thread : \A c \in Cache, k \in Key : view[t][c][k] = {}
  BY DEF Init, NoView
<1>4. /\ branch \in [Cache -> [Xid -> Branches]]
      /\ \A c \in Cache, x \in Xid : branch[c][x].state = "none"
  <2>1. PICK b : b = [state |-> "none", entries |-> Empty]
    OBVIOUS
  <2>2. b \in Branches /\ b.state = "none"
    BY <2>1, EmptyForms DEF Branches
  <2>3. branch = [c \in Cache |-> [x \in Xid |-> b]]
    BY <2>1 DEF Init
  <2> QED
    BY <2>2, <2>3
<1>5. Types
  <2>1. ServerTypes
    BY <1>4 DEF Init, ServerTypes
  <2>2. ClientTypes
    <3>1. txn \in [Thread -> Txn] /\ call \in [Thread -> Call]
      BY <1>1, <1>2 DEF Init
    <3> QED
      BY <1>1, <3>1 DEF ClientTypes
  <2>3. HistoryTypes /\ up \in BOOLEAN
    BY DEF Init, HistoryTypes, NoView
  <2> QED
    BY <2>1, <2>2, <2>3 DEF Types
<1>6. \A t \in Thread : ThreadInv(t)
  <2> SUFFICES ASSUME NEW t \in Thread PROVE ThreadInv(t)
    OBVIOUS
  <2>1. CallOf(t) /\ ViewOf(t) /\ VotesOf(t) /\ SawOf(t) /\ ReadOnlyOf(t)
    BY <1>1, <1>2, <1>3 DEF CallOf, ViewOf, VotesOf, SawOf, ReadOnlyOf
  <2>2. ReadsOf(t)
    BY DEF ReadsOf, Init
  <2>3. HeldOf(t) /\ InOrderOf(t)
    BY <1>2, <1>4 DEF HeldOf, InOrderOf
  <2>4. ListedOf(t)
    BY DEF ListedOf, Init
  <2> QED
    BY <2>1, <2>2, <2>3, <2>4 DEF ThreadInv
<1>7. \A x \in Xid : XidInv(x)
  BY <1>4 DEF Init, XidInv, AheadOf, PreparedOf, ReachedOf, AtomicOf, RolledBack
<1>8. LocksOK
  BY <1>4 DEF LocksOK
<1> QED
  BY <1>5, <1>6, <1>7, <1>8 DEF IInv

LEMMA NextKeeps == IInv /\ [Next]_vars => IInv'
<1> SUFFICES ASSUME IInv, [Next]_vars PROVE IInv'
  OBVIOUS
<1>1. CASE UNCHANGED vars
  <2>1. UNCHANGED <<store, branch, txn, call, up, view, reads, voted, faulty, report>>
    BY <1>1 DEF vars
  <2>2. Types' /\ LocksOK'
    BY <2>1, LocksUnchanged DEF IInv, Types, ServerTypes, ClientTypes, HistoryTypes
  <2>3. \A t \in Thread : ThreadInv(t)'
    BY <2>1 DEF IInv, ThreadInv, CallOf, ViewOf, ReadsOf, HeldOf, VotesOf, ListedOf, InOrderOf, SawOf,
                ReadOnlyOf
  <2>4. \A x \in Xid : XidInv(x)'
    BY <2>1 DEF IInv, XidInv, AheadOf, Ahead, Over, PreparedOf, ReachedOf, AtomicOf
  <2> QED
    BY <2>2, <2>3, <2>4 DEF IInv
<1>2. ASSUME NEW t \in Thread,
             \/ begin(t) \/ commit(t) \/ rollback(t)
             \/ remotePrepareCommit(t) \/ PrepareEnds(t)
             \/ remoteCommit(t) \/ CommitEnds(t)
             \/ remoteRollback(t) \/ RollbackEnds(t)
      PROVE  IInv'
  <2>1. Preserved(t)
    BY <1>2, BeginKeeps, CommitKeeps, RollbackKeeps, PrepareKeeps, PrepareEndsKeeps,
       RemoteCommitKeeps, CommitEndsKeeps, RemoteRollbackKeeps, RollbackEndsKeeps
  <2> QED
    BY <2>1, PreservedSuffices
<1>3. ASSUME NEW t \in Thread, NEW c \in CachesOf[t], base_getBulk(t, c)
      PROVE  IInv'
  <2>1. c \in Cache /\ Types
    BY CachesAssumption DEF IInv
  <2>2. PICK new : Accessed(t, c, c, new)
    BY <1>3, <2>1, BulkForm
  <2> QED
    BY <2>1, <2>2, AccessedKeeps, PreservedSuffices
<1>4. ASSUME NEW t \in Thread, NEW c \in CachesOf[t], NEW k \in Key, Access(t, c, k)
      PROVE  IInv'
  <2>1. c \in Cache /\ Types
    BY CachesAssumption DEF IInv
  <2>2. PICK new : Accessed(t, c, k, new)
    BY <1>4, <2>1, AccessForm
  <2> QED
    BY <2>1, <2>2, AccessedKeeps, PreservedSuffices
<1>5. ASSUME NEW c \in Cache, NEW k \in Key, NonTxPut(c, k)
      PROVE  IInv'
  BY <1>5, NonTxPutKeeps
<1> QED
  BY <1>1, <1>2, <1>3, <1>4, <1>5 DEF Next

\* The invariant holds in every state: it relates each thread's context, its call and the
\* branches at the server.
THEOREM TransactionsInvariant == Spec => []IInv
BY Initially, NextKeeps, PTL DEF Spec

-----------------------------------------------------------------------------
(* The properties *)

\* The variables keep their types, for any number of transactions, reads and writes.
THEOREM TransactionTypes == Spec => []TypeOK
<1>1. ASSUME IInv PROVE TypeOK
  <2>1. store \in [Cache -> [Key -> [version : Nat, exists : BOOLEAN]]] /\ up \in BOOLEAN
    BY <1>1 DEF IInv, Types, ServerTypes
  <2>2. ASSUME NEW tc \in Contexts, NEW k \in DOMAIN tc
        PROVE  k \in Key /\ tc[k] \in ContextEntry
    BY ContextsForm
  <2>3. \A c \in Cache, x \in Xid :
          branch[c][x].state \in {"none", "prepared", "committed", "rolledback"}
          /\ branch[c][x].entries \in Contexts
    BY <1>1 DEF IInv, Types, ServerTypes, Branches
  <2>4. ASSUME NEW t \in Thread
        PROVE  /\ txn[t].status \in {"NO_TRANSACTION", "ACTIVE"}
               /\ txn[t].xid \in {t} \X (1 .. MaxTx + 1)
               /\ call[t].pc \in {"idle", "prepare", "commit", "rollback"}
    BY <1>1 DEF IInv, Types, ClientTypes, Txn, Call
  <2>5. ASSUME NEW t \in Thread
        PROVE  /\ DOMAIN txn[t].registeredCache \subseteq Cache
               /\ \A c \in DOMAIN txn[t].registeredCache : txn[t].registeredCache[c] \in Contexts
               /\ txn[t].preparedCache \subseteq DOMAIN txn[t].registeredCache
               /\ call[t].todo \subseteq DOMAIN txn[t].registeredCache
    BY <1>1, PresentTypes
  <2> QED
    BY <2>1, <2>2, <2>3, <2>4, <2>5 DEF TypeOK
<1> QED
  BY <1>1, TransactionsInvariant, PTL

\* A transaction reads what it last read or wrote itself, whatever is committed meanwhile:
\* the context that get finds it in (api/RemoteCacheBase.cpp) forgets nothing.
THEOREM TransactionsReadTheirWrites == Spec => []ReadYourWrites
<1>1. ASSUME IInv PROVE ReadYourWrites
  BY <1>1 DEF IInv, ThreadInv, ViewOf, ReadYourWrites, hasValue
<1> QED
  BY <1>1, TransactionsInvariant, PTL

\* When commit() or rollback() reports a rollback, no branch whose PREPARE succeeded is left
\* prepared: remoteRollback has gone through preparedCache (api/TransactionManager.cpp).
THEOREM RollbacksReachPrepared == Spec => []RollbackReachesPrepared
<1>1. ASSUME IInv PROVE RollbackReachesPrepared
  BY <1>1 DEF IInv, XidInv, ReachedOf, RollbackReachesPrepared, Reported
<1> QED
  BY <1>1, TransactionsInvariant, PTL

\* While the server answers in order, the branches of a transaction end alike and as the
\* caller of commit() or rollback() was told.
THEOREM TransactionsAreAtomic == Spec => []AtomicUnlessFaulty
<1>1. ASSUME IInv PROVE AtomicUnlessFaulty
  <2> SUFFICES ASSUME NEW x \in Xid, ~faulty[x]
               PROVE  LET states == {branch[c][x].state : c \in Cache}
                      IN  /\ ~({"committed", "rolledback"} \subseteq states)
                          /\ Reported(x, {"COMMITTED"}) => states \subseteq {"none", "committed"}
                          /\ Reported(x, RolledBack) => states \subseteq {"none", "rolledback"}
    BY DEF AtomicUnlessFaulty
  <2> QED
    BY <1>1 DEF IInv, XidInv, AtomicOf, Reported
<1> QED
  BY <1>1, TransactionsInvariant, PTL

\* A commit overwrites no update that its transaction has not seen: the keys of a prepared
\* branch are locked and keep the versions that the context has and PREPARE compared.
THEOREM NoUpdateIsLost == Spec => NoLostUpdate
<1>1. ASSUME IInv, NEW c \in Cache, NEW x \in Xid, branch[c][x].state = "prepared",
             NEW r \in reads[x], r.cache = c, r.key \in DOMAIN branch[c][x].entries
      PROVE  r.version = RemoteVersion(c, r.key)
  <2>1. Says(branch[c][x].entries[r.key], r.version)
    BY <1>1 DEF IInv, XidInv, PreparedOf
  <2>2. Current(c, r.key, branch[c][x].entries[r.key])
    BY <1>1 DEF IInv, LocksOK
  <2> QED
    BY <2>1, <2>2 DEF Says, Current, RemoteVersion
<1> DEFINE A == \A c \in Cache, x \in Xid :
                  branch[c][x].state = "prepared" /\ branch'[c][x].state = "committed" =>
                    \A r \in reads[x] : r.cache = c /\ r.key \in DOMAIN branch[c][x].entries =>
                        r.version = RemoteVersion(c, r.key)
<1>2. IInv => A
  BY <1>1
<1>3. NoLostUpdate <=> [][A]_vars
  BY DEF NoLostUpdate
<1> QED
  BY <1>2, <1>3, TransactionsInvariant, PTL

\* The actions that end no branch as committed.
LEMMA PrepareCommitsNothing ==
    ASSUME IInv, NEW t \in Thread, remotePrepareCommit(t), NEW c \in Cache, NEW x \in Xid,
           branch[c][x].state = "prepared"
    PROVE  branch'[c][x].state # "committed"
<1>1. call[t].pc = "prepare" /\ call[t].todo # {} /\ txn[t].status = "ACTIVE"
  BY DEF remotePrepareCommit, IInv, ThreadInv, CallOf
<1> PICK y \in Xid : y = txn[t].xid
  BY <1>1 DEF IInv, ThreadInv, CallOf
<1>2. PICK d \in call[t].todo : d = Least(call[t].todo)
  BY <1>1, NextCache
<1>3. d \in Cache /\ txn[t].registeredCache[d] \in Contexts
  BY PresentTypes
<1>4. \/ branch' = branch
      \/ branch' = [branch EXCEPT ![d][y] = [state |-> "prepared", entries |-> txn[t].registeredCache[d]]]
      \/ branch' = [branch EXCEPT ![d][y] = [state |-> "rolledback", entries |-> Empty]]
  BY <1>2 DEF remotePrepareCommit, PrepareFails, PrepareAnswer
<1>5. branch' = branch \/ \E b \in Branches : b.state # "committed" /\ branch' = [branch EXCEPT ![d][y] = b]
  BY <1>3, <1>4, BranchRecords
<1>6. ASSUME NEW b \in Branches, b.state # "committed", branch' = [branch EXCEPT ![d][y] = b]
      PROVE  branch'[c][x].state # "committed"
  <2>1. ServerTypes
    BY DEF IInv, Types
  <2>2. branch'[d][y] = b
    BY <1>3, <1>6, <2>1, BranchBecomes, ZenonT(30)
  <2>3. \A e \in Cache, z \in Xid : e # d \/ z # y => branch'[e][z] = branch[e][z]
    BY <1>3, <1>6, <2>1, BranchBecomes
  <2> QED
    BY <1>6, <2>2, <2>3
<1> QED
  BY <1>5, <1>6

LEMMA RollbackCommitsNothing ==
    ASSUME IInv, NEW t \in Thread, remoteRollback(t), NEW c \in Cache, NEW x \in Xid,
           branch[c][x].state = "prepared"
    PROVE  branch'[c][x].state # "committed"
<1>1. call[t].pc = "rollback" /\ call[t].todo # {} /\ txn[t].status = "ACTIVE"
  BY DEF remoteRollback, IInv, ThreadInv, CallOf
<1> PICK y \in Xid : y = txn[t].xid
  BY <1>1 DEF IInv, ThreadInv, CallOf
<1>2. PICK d \in call[t].todo : d = Least(call[t].todo)
  BY <1>1, NextCache
<1>3. branch' = branch \/ (branch[d][y].state = "prepared" /\ Branch(d, y, "rolledback"))
  BY <1>2 DEF remoteRollback
<1>4. d \in Cache
  BY PresentTypes
<1>5. CASE branch[d][y].state = "prepared" /\ Branch(d, y, "rolledback")
  <2>1. OneBranch(t, d, y) /\ branch'[d][y].state = "rolledback"
    BY <1>4, <1>5, BranchEnds
  <2> QED
    BY <2>1 DEF OneBranch
<1> QED
  BY <1>3, <1>5

\* Only COMMIT commits, and it goes around after the votes of the same commit().
LEMMA CommitsByVotes ==
    ASSUME IInv, [Next]_vars, NEW c \in Cache, NEW x \in Xid, NEW t \in Thread, x = txn[t].xid,
           branch[c][x].state = "prepared", branch'[c][x].state = "committed"
    PROVE  DOMAIN txn[t].registeredCache \subseteq voted[x]
<1>1. branch' # branch
  OBVIOUS
<1>2. PICK u \in Thread : remotePrepareCommit(u) \/ remoteCommit(u) \/ remoteRollback(u)
  <2>1. \A u \in Thread : begin(u) \/ commit(u) \/ rollback(u) => branch' = branch
    BY DEF begin, commit, rollback
  <2>2. \A u \in Thread : PrepareEnds(u) \/ CommitEnds(u) \/ RollbackEnds(u) => branch' = branch
    BY DEF PrepareEnds, CommitEnds, RollbackEnds
  <2>3. \A u, d, tc : InContext(u, d, tc) => branch' = branch
    BY DEF InContext
  <2>4. \A u, d : base_getBulk(u, d) => branch' = branch
    BY <2>3 DEF base_getBulk
  <2>5. ASSUME NEW u, NEW d, NEW k, Access(u, d, k)
        PROVE  branch' = branch
    BY <2>3, <2>5 DEF Access, base_get, base_put, base_putIfAbsent, base_replace, base_remove,
                      base_containsKey, base_replaceWithVersion, base_removeWithVersion
  <2>6. \A d, k : NonTxPut(d, k) => branch' = branch
    BY DEF NonTxPut
  <2>7. Next
    BY <1>1 DEF vars
  <2> QED
    BY <1>1, <2>1, <2>2, <2>4, <2>5, <2>6, <2>7 DEF Next
<1>3. remoteCommit(u)
  BY <1>2, PrepareCommitsNothing, RollbackCommitsNothing
<1>4. call[u].pc = "commit"
  BY <1>3 DEF remoteCommit
<1>5. u = t
  <2>1. Preserved(u)
    BY <1>3, RemoteCommitKeeps
  <2>2. Alone(u)
    BY <2>1 DEF Preserved
  <2>3. x = txn[u].xid
    BY <1>1, <2>2 DEF Alone
  <2>4. txn[u].xid[1] = u /\ txn[t].xid[1] = t
    BY DEF IInv, Types, ClientTypes
  <2> QED
    BY <2>3, <2>4
<1> QED
  BY <1>4, <1>5 DEF IInv, ThreadInv, VotesOf

\* No branch commits before every cache of its transaction has answered the PREPARE of the
\* same commit() with success.
THEOREM CommitsNeedAllVotes == Spec => CommitNeedsAllVotes
<1> DEFINE A == \A t \in Thread, c \in Cache :
                  LET x == txn[t].xid
                  IN  x \in Xid /\ branch[c][x].state = "prepared" /\ branch'[c][x].state = "committed" =>
                        DOMAIN txn[t].registeredCache \subseteq voted[x]
<1>1. IInv /\ [Next]_vars => A
  BY CommitsByVotes
<1>2. CommitNeedsAllVotes <=> [][A]_vars
  BY DEF CommitNeedsAllVotes
<1> QED
  BY <1>1, <1>2, TransactionsInvariant, PTL DEF Spec

=============================================================================
