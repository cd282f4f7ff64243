------------------------- MODULE RemoteCacheProofs -------------------------
(***************************************************************************)
(* Proofs about RemoteCache and HotRodProtocol, for any threads, caches,   *)
(* keys, values, durations and bounds: every operation reads the response  *)
(* to it to the last token and understands it as the server meant it, and  *)
(* what follows from that for the connections and the callers.             *)
(***************************************************************************)
EXTENDS RemoteCache, SequenceTheorems, FiniteSetTheorems, TLAPS

Data == Int \cup Key \cup Value
Entry == [val : Value \cup {0}, version : Nat, life : Nat, idle : Nat]

\* The server's entries: none or one for each key.
StoreOK ==
    /\ store \in [Key -> {<<>>} \cup {<<e>> : e \in Entry}]
    /\ nextVersion \in Nat
    /\ \A k \in Key : store[k] # <<>> => store[k][1].version < nextVersion

-----------------------------------------------------------------------------
(* Sequences *)

\* An entry that is there, and its fields.
LEMMA StoredEntry ==
    ASSUME StoreOK, NEW k \in Key, store[k] # <<>>
    PROVE  /\ store[k][1] \in Entry
           /\ store[k][1].val \in Data /\ store[k][1].version \in Data
           /\ store[k][1].life \in Nat /\ store[k][1].idle \in Nat
<1>1. PICK e \in Entry : store[k] = <<e>>
  BY DEF StoreOK
<1>2. store[k][1] = e
  BY <1>1
<1>3. e.val \in Data /\ e.version \in Data /\ e.life \in Nat /\ e.idle \in Nat
  BY DEF Entry, Data
<1>4. QED
  BY <1>2, <1>3

\* The tokens of a response, and what is left of it after the header.
Tokens(s, id, code, status, body) ==
    /\ s = Response(id, code, status, body)
    /\ Len(s) = 5 + Len(body)
    /\ At(s, 1) = RESPONSE_MAGIC /\ At(s, 2) = id /\ At(s, 3) = code /\ At(s, 4) = status
    /\ SubSeq(s, 6, Len(s)) = body

\* A response has its header's tokens and its body's.
LEMMA ResponseTokens ==
    ASSUME NEW id \in Nat, NEW code \in Nat, NEW status \in Nat, NEW body \in Seq(Data)
    PROVE  \E s \in Seq(Data) : Tokens(s, id, code, status, body)
<1> DEFINE h == <<RESPONSE_MAGIC, id, code, status, 0>>
           s == Response(id, code, status, body)
<1>1. h \in Seq(Data) /\ Len(h) = 5 /\ DOMAIN h = 1 .. 5
  BY DEF RESPONSE_MAGIC, Data
<1>2. Len(body) \in Nat
  OBVIOUS
<1>3. /\ s \in Seq(Data) /\ Len(s) = 5 + Len(body)
      /\ \A i \in 1 .. (5 + Len(body)) : s[i] = IF i <= 5 THEN h[i] ELSE body[i - 5]
  BY <1>1, ConcatProperties DEF Response
<1> HIDE DEF s
<1>4. /\ s[1] = RESPONSE_MAGIC /\ s[2] = id /\ s[3] = code /\ s[4] = status
      /\ {1, 2, 3, 4} \subseteq DOMAIN s
  BY <1>1, <1>2, <1>3
<1>5. SubSeq(s, 6, Len(s)) = body
  <2>1. /\ SubSeq(s, 6, Len(s)) \in Seq(Data) /\ Len(SubSeq(s, 6, Len(s))) = Len(body)
        /\ \A i \in 1 .. Len(body) : SubSeq(s, 6, Len(s))[i] = s[5 + i]
    BY <1>2, <1>3
  <2>2. \A i \in 1 .. Len(body) : SubSeq(s, 6, Len(s))[i] = body[i]
    BY <1>2, <1>3, <2>1, SMTT(30)
  <2>3. QED
    BY <2>1, <2>2, SeqEqual
<1>6. Len(s) = 5 + Len(body) /\ s = Response(id, code, status, body)
  BY <1>3 DEF s
<1>7. Tokens(s, id, code, status, body)
  BY <1>4, <1>5, <1>6 DEF At, Tokens
<1>8. QED
  BY <1>3, <1>7

-----------------------------------------------------------------------------
(* Every response is understood *)

KeyReads == {"get", "containsKey", "getWithVersion", "getWithMetadata"}
Versioned == {"replaceWithVersion", "removeWithVersion"}
KeyOps == PutFamily \cup {"remove"} \cup Versioned \cup KeyReads
CacheOps == {"getBulk", "keySet", "stats", "size", "execute", "query", "clear", "ping"}
Ops == KeyOps \cup CacheOps \cup {"getAll"}

\* What a request is: an operation on a key of the cache, or on several or all of them.
Asks(c) ==
    /\ c.op \in Ops
    /\ c.op \in KeyOps => c.key \in Key
    /\ c.rest \subseteq Key

\* The status the server sends, and what the caller should get.
Sent(c, compat) == IF compat THEN Compat(Execute(c).status) ELSE Execute(c).status
Means(c, compat) == IF compat /\ c.op = "ping" THEN << 2 >> ELSE Execute(c).means

\* The operation reads all of the body, and returns what the server means.
Understood(c, compat) ==
    /\ Execute(c).body \in Seq(Data) /\ Means(c, compat) \in Seq(Data)
    /\ Sent(c, compat) \in Nat
    /\ executeOperation(Wire(c.op), Sent(c, compat), Execute(c).body)
         = Returns(Len(Execute(c).body), Means(c, compat))

\* The tokens of short bodies.
LEMMA ShortBodies ==
    /\ Len(<<>>) = 0 /\ <<>> \in Seq(Data)
    /\ \A a \in Data : <<a>> \in Seq(Data) /\ Len(<<a>>) = 1 /\ At(<<a>>, 1) = a
    /\ \A a, b \in Data : /\ <<a, b>> \in Seq(Data) /\ Len(<<a, b>>) = 2
                          /\ At(<<a, b>>, 1) = a /\ At(<<a, b>>, 2) = b
BY DEF At

\* The statuses are numbers.
LEMMA StatusFacts ==
    /\ NO_ERROR_STATUS = 0 /\ NOT_PUT_REMOVED_REPLACED_STATUS = 1
    /\ KEY_DOES_NOT_EXIST_STATUS = 2 /\ SUCCESS_WITH_PREVIOUS = 3
    /\ NOT_EXECUTED_WITH_PREVIOUS = 4
    /\ Compat(0) = 6 /\ Compat(1) = 1 /\ Compat(2) = 2 /\ Compat(3) = 7 /\ Compat(4) = 8
    /\ \A s \in {0, 6} : isSuccess(s) /\ ~isNotExecuted(s) /\ ~hasPrevious(s)
    /\ \A s \in {3, 7} : isSuccess(s) /\ ~isNotExecuted(s) /\ hasPrevious(s)
    /\ \A s \in {4, 8} : ~isSuccess(s) /\ isNotExecuted(s) /\ hasPrevious(s)
    /\ ~isSuccess(1) /\ isNotExecuted(1) /\ ~hasPrevious(1)
    /\ ~isSuccess(2) /\ ~isNotExecuted(2) /\ ~hasPrevious(2)
BY DEF NO_ERROR_STATUS, NOT_PUT_REMOVED_REPLACED_STATUS, KEY_DOES_NOT_EXIST_STATUS,
   SUCCESS_WITH_PREVIOUS, NOT_EXECUTED_WITH_PREVIOUS, NO_ERROR_STATUS_COMPAT,
   SUCCESS_WITH_PREVIOUS_COMPAT, NOT_EXECUTED_WITH_PREVIOUS_COMPAT, Compat, isSuccess,
   isNotExecuted, hasPrevious

\* The conditional answers: with the previous value or without it.
LEMMA ConditionalAnswers ==
    ASSUME StoreOK, NEW c, c.key \in Key, NEW done \in BOOLEAN
    PROVE  LET a == Conditional(c, done)
           IN  /\ a = Answer(a.status, a.body, a.means) /\ a.means = a.body
               /\ \/ a.body = <<>> /\ a.status = IF done THEN 0 ELSE 1
                  \/ /\ \E v \in Data : a.body = <<v>>
                     /\ store[c.key] # <<>>
                     /\ a.status = IF done THEN 3 ELSE 4
<1> DEFINE prev == IF "FORCE_RETURN_VALUE" \in c.flags /\ store[c.key] # <<>>
                   THEN <<store[c.key][1].val>> ELSE <<>>
           status == CASE done /\ prev = <<>> -> NO_ERROR_STATUS
                       [] done /\ prev # <<>> -> SUCCESS_WITH_PREVIOUS
                       [] ~done /\ prev = <<>> -> NOT_PUT_REMOVED_REPLACED_STATUS
                       [] OTHER -> NOT_EXECUTED_WITH_PREVIOUS
<1>1. Conditional(c, done) = Answer(status, prev, prev)
  BY DEF Conditional
<1>2. \/ prev = <<>>
      \/ store[c.key] # <<>> /\ prev # <<>> /\ \E v \in Data : prev = <<v>>
  BY StoredEntry
<1>3. \/ prev = <<>> /\ status = IF done THEN 0 ELSE 1
      \/ /\ store[c.key] # <<>> /\ \E v \in Data : prev = <<v>>
         /\ status = IF done THEN 3 ELSE 4
  <2>1. CASE prev = <<>>
    BY <2>1, StatusFacts
  <2>2. CASE prev # <<>>
    BY <1>2, <2>2, StatusFacts
  <2>3. QED
    BY <2>1, <2>2
<1> HIDE DEF prev, status
<1>4. QED
  BY <1>1, <1>3 DEF Answer

\* Which operation reads the response to which request.
LEMMA Dispatch ==
    ASSUME NEW s, NEW b
    PROVE  /\ executeOperation("get", s, b) = GetOperation(s, b)
           /\ executeOperation("put", s, b) = PutOperation(s, b)
           /\ executeOperation("putIfAbsent", s, b) = PutIfAbsentOperation(s, b)
           /\ executeOperation("replace", s, b) = ReplaceOperation(s, b)
           /\ executeOperation("remove", s, b) = RemoveOperation(s, b)
           /\ executeOperation("containsKey", s, b) = ContainsKeyOperation(s, b)
           /\ \A op \in Versioned :
                executeOperation(op, s, b) = returnVersionedOperationResponse(s, b)
           /\ executeOperation("getWithVersion", s, b) = GetWithVersionOperation(s, b)
           /\ executeOperation("getWithMetadata", s, b) = GetWithMetadataOperation(s, b)
           /\ executeOperation("getBulk", s, b) = ReadWhileOne(b, 3)
           /\ executeOperation("keySet", s, b) = ReadWhileOne(b, 2)
           /\ executeOperation("stats", s, b) = ReadPairs(b)
           /\ executeOperation("clear", s, b) = ClearOperation(s, b)
           /\ executeOperation("size", s, b) = SizeOperation(s, b)
           /\ executeOperation("ping", s, b) = PingOperation(s, b)
           /\ executeOperation("getAll", s, b) = GetAllOperation(s, b)
           /\ executeOperation("execute", s, b) = ExecuteCmdOperation(s, b)
           /\ executeOperation("query", s, b) = QueryOperation(s, b)
BY DEF executeOperation, Versioned, ReplaceIfUnmodifiedOperation, RemoveIfUnmodifiedOperation,
   BulkGetOperation, BulkGetKeysOperation, StatsOperation

\* Whether the server changes something.
LEMMA DoneFacts ==
    ASSUME NEW c, Asks(c)
    PROVE  /\ c.op \in {"put", "putAll", "clear"} => Done(c) = TRUE
           /\ c.op = "putIfAbsent" => Done(c) = (store[c.key] = <<>>)
           /\ c.op \in {"replace", "remove"} => Done(c) = (store[c.key] # <<>>)
           /\ c.op \in Versioned =>
                Done(c) = (store[c.key] # <<>> /\ store[c.key][1].version = c.version)
           /\ c.op \in KeyReads \cup (CacheOps \ {"clear"}) \cup {"getAll"} => Done(c) = FALSE
           /\ Done(c) \in BOOLEAN
BY DEF Done, Wire, Asks, Ops, KeyOps, CacheOps, KeyReads, Versioned, PutFamily

\* put, putAll, putIfAbsent and replace.
LEMMA PutFamilyUnderstood ==
    ASSUME StoreOK, NEW c, Asks(c), c.op \in PutFamily, NEW compat \in BOOLEAN
    PROVE  Understood(c, compat)
<1> DEFINE a == Conditional(c, Done(c))
           sent == IF compat THEN Compat(a.status) ELSE a.status
<1>1. Execute(c) = a
  BY DEF Execute, PutFamily
<1>2. c.key \in Key /\ Done(c) \in BOOLEAN
  BY DoneFacts DEF Asks, KeyOps
<1>3. /\ a.means = a.body
      /\ \/ a.body = <<>> /\ a.status = IF Done(c) THEN 0 ELSE 1
         \/ /\ \E v \in Data : a.body = <<v>>
            /\ store[c.key] # <<>>
            /\ a.status = IF Done(c) THEN 3 ELSE 4
  BY <1>2, ConditionalAnswers
<1>4. Sent(c, compat) = sent /\ Means(c, compat) = a.body /\ Execute(c).body = a.body
  BY <1>1, <1>3 DEF Sent, Means, PutFamily
<1> HIDE DEF a
<1>5. a.body \in Seq(Data) /\ sent \in Nat
  <2>1. a.body \in Seq(Data)
    BY <1>3, ShortBodies
  <2>2. a.status \in {0, 1, 3, 4}
    BY <1>2, <1>3
  <2>3. sent \in Nat
    BY <2>2, StatusFacts
  <2>4. QED
    BY <2>1, <2>3
<1>6. \/ a.body = <<>> /\ ~hasPrevious(sent)
      \/ hasPrevious(sent) /\ \E v \in Data : a.body = <<v>>
  BY <1>3, StatusFacts
<1>7. returnPossiblePrevValue(sent, a.body) = Returns(Len(a.body), a.body)
  BY <1>6, ShortBodies DEF returnPossiblePrevValue
<1>8. executeOperation(Wire(c.op), sent, a.body) = Returns(Len(a.body), a.body)
  <2>1. CASE c.op \in {"put", "putAll"}
    <3>1. Wire(c.op) = "put" /\ Done(c)
      BY <2>1, DoneFacts DEF Wire
    <3>2. isSuccess(sent)
      BY <1>3, <3>1, StatusFacts
    <3>3. QED
      BY <1>7, <3>1, <3>2, Dispatch DEF PutOperation
  <2>2. CASE c.op = "putIfAbsent"
    <3>1. Wire(c.op) = "putIfAbsent" /\ Done(c) = (store[c.key] = <<>>)
      BY <2>2, DoneFacts DEF Wire
    <3>2. isNotExecuted(sent) \/ a.body = <<>>
      BY <1>3, <3>1, StatusFacts
    <3>3. QED
      BY <1>7, <3>1, <3>2, Dispatch, ShortBodies DEF PutIfAbsentOperation
  <2>3. CASE c.op = "replace"
    BY <1>7, <2>3, Dispatch DEF ReplaceOperation, Wire
  <2>4. QED
    BY <2>1, <2>2, <2>3 DEF PutFamily
<1>9. QED
  BY <1>4, <1>5, <1>8 DEF Understood

\* A result with another value, or with the header's tokens.
LEMMA ChangedResult ==
    \A n, v, w :
        /\ [Returns(n, v) EXCEPT !.ret = w] = Returns(n, w)
        /\ [Returns(n, v) EXCEPT !.reads = w] = Returns(w, v)
        /\ Returns(n, v).reads = n /\ Returns(n, v).ret = v /\ Returns(n, v).throws = FALSE
<1> TAKE n, v, w
<1> DEFINE f == FALSE
<1>1. \A x, y : Returns(x, y) = [reads |-> x, ret |-> y, throws |-> f]
  BY DEF Returns
<1> HIDE DEF f
<1>2. /\ [[reads |-> n, ret |-> v, throws |-> f] EXCEPT !.ret = w]
           = [reads |-> n, ret |-> w, throws |-> f]
      /\ [[reads |-> n, ret |-> v, throws |-> f] EXCEPT !.reads = w]
           = [reads |-> w, ret |-> v, throws |-> f]
      /\ [reads |-> n, ret |-> v, throws |-> f].reads = n
      /\ [reads |-> n, ret |-> v, throws |-> f].ret = v
  OBVIOUS
<1>3. Returns(n, v).throws = FALSE
  BY DEF Returns
<1>4. QED
  BY <1>1, <1>2, <1>3

\* remove, and the operations with a version.
LEMMA RemovalUnderstood ==
    ASSUME StoreOK, NEW c, Asks(c), c.op \in Versioned \cup {"remove"}, NEW compat \in BOOLEAN
    PROVE  Understood(c, compat)
<1> DEFINE a == Conditional(c, Done(c))
           sent == Sent(c, compat)
           body == Execute(c).body
<1>1. c.key \in Key /\ Done(c) \in BOOLEAN
  BY DoneFacts DEF Asks, KeyOps
<1>2. /\ a = Answer(a.status, a.body, a.means) /\ a.means = a.body
      /\ \/ a.body = <<>> /\ a.status = IF Done(c) THEN 0 ELSE 1
         \/ /\ \E v \in Data : a.body = <<v>>
            /\ a.status = IF Done(c) THEN 3 ELSE 4
  BY <1>1, ConditionalAnswers
<1> HIDE DEF a
<1>3. /\ ~Done(c) => Missing = Answer(2, <<>>, <<>>)
      /\ Wire(c.op) = c.op
  BY StatusFacts DEF Missing, Wire, Versioned
<1>4. CASE c.op = "remove"
  <2>1. Execute(c) = IF Done(c) THEN a ELSE Answer(2, <<>>, <<>>)
    BY <1>3, <1>4 DEF Execute, a, PutFamily
  <2>2. /\ Means(c, compat) = body
        /\ body = <<>> \/ \E v \in Data : body = <<v>>
        /\ Execute(c).status \in {0, 1, 2, 3, 4}
    BY <1>2, <1>4, <2>1 DEF Means, Answer
  <2>3. \/ body = <<>> /\ ~hasPrevious(sent)
        \/ hasPrevious(sent) /\ \E v \in Data : body = <<v>>
    BY <1>2, <2>1, StatusFacts DEF Sent, Answer
  <2>7. sent \in Nat
    BY <2>2, StatusFacts DEF Sent
  <2> HIDE DEF body, sent
  <2>8. body \in Seq(Data)
    BY <2>2, ShortBodies
  <2>4. returnPossiblePrevValue(sent, body) = Returns(Len(body), body)
    BY <2>3, ShortBodies DEF returnPossiblePrevValue
  <2>5. executeOperation(Wire(c.op), sent, body) = Returns(Len(body), body)
    BY <1>3, <1>4, <2>4, Dispatch DEF RemoveOperation
  <2>6. QED
    BY <2>2, <2>5, <2>7, <2>8 DEF Understood, body, sent
<1>5. CASE c.op \in Versioned
  <2> DEFINE m == <<IF Done(c) THEN 1 ELSE 0>>
  <2>1. CASE store[c.key] = <<>>
    <3>1. ~Done(c) /\ c.op \notin PutFamily \cup {"remove", "ping"}
      BY <1>5, <2>1, DoneFacts DEF PutFamily, Versioned
    <3>2. Execute(c) = [Missing EXCEPT !.means = << 0 >>]
      BY <1>5, <2>1, <3>1 DEF Execute, PutFamily, Versioned
    <3>3. Execute(c).body = <<>> /\ Execute(c).status = 2 /\ Execute(c).means = << 0 >>
      BY <1>3, <3>1, <3>2 DEF Answer
    <3>4. sent = 2 /\ Means(c, compat) = << 0 >>
      BY <3>1, <3>3, StatusFacts DEF Sent, Means
    <3> HIDE DEF sent
    <3>5. returnVersionedOperationResponse(2, <<>>) = Returns(0, << 0 >>)
      BY StatusFacts DEF returnVersionedOperationResponse, returnPossiblePrevValue, Returns
    <3>6. executeOperation(Wire(c.op), 2, <<>>) = Returns(0, << 0 >>)
      BY <1>3, <1>5, <3>5, Dispatch
    <3>7. << 0 >> \in Seq(Data) /\ <<>> \in Seq(Data) /\ Len(<<>>) = 0
      BY ShortBodies DEF Data
    <3>8. QED
      BY <3>3, <3>4, <3>6, <3>7 DEF Understood, sent
  <2>2. CASE store[c.key] # <<>>
    <3>1. c.op \notin PutFamily \cup {"remove", "ping"}
      BY <1>5 DEF PutFamily, Versioned
    <3>2. Execute(c) = [a EXCEPT !.means = m]
      BY <1>5, <2>2, <3>1 DEF Execute, PutFamily, Versioned, a
    <3>3. Execute(c).body = a.body /\ Execute(c).status = a.status /\ Execute(c).means = m
      BY <1>2, <3>2 DEF Answer
    <3>4. sent = (IF compat THEN Compat(a.status) ELSE a.status) /\ Means(c, compat) = m
      BY <3>1, <3>3 DEF Sent, Means
    <3> HIDE DEF sent
    <3>5. /\ sent \in Nat
          /\ isSuccess(sent) <=> Done(c)
          /\ isSuccess(sent) \/ isNotExecuted(sent)
      BY <1>2, <3>4, StatusFacts
    <3>6. \/ a.body = <<>> /\ ~hasPrevious(sent)
          \/ hasPrevious(sent) /\ \E v \in Data : a.body = <<v>>
      BY <1>2, <3>4, StatusFacts
    <3>7. returnPossiblePrevValue(sent, a.body) = Returns(Len(a.body), a.body)
      BY <3>6, ShortBodies DEF returnPossiblePrevValue
    <3>8. returnVersionedOperationResponse(sent, a.body) = Returns(Len(a.body), m)
      <4>1. <<IF isSuccess(sent) THEN 1 ELSE 0>> = m
        BY <3>5
      <4> HIDE DEF m
      <4>2. [Returns(Len(a.body), a.body) EXCEPT !.ret = m] = Returns(Len(a.body), m)
        BY ChangedResult
      <4>3. QED
        BY <3>5, <3>7, <4>1, <4>2 DEF returnVersionedOperationResponse
    <3>9. executeOperation(Wire(c.op), sent, a.body) = Returns(Len(a.body), m)
      BY <1>3, <1>5, <3>8, Dispatch
    <3>10. a.body \in Seq(Data)
      BY <3>6, ShortBodies
    <3>11. m \in Seq(Data)
      BY DEF Data
    <3>12. QED
      BY <3>3, <3>4, <3>5, <3>9, <3>10, <3>11 DEF Understood, sent
  <2>3. QED
    BY <2>1, <2>2
<1>6. QED
  BY <1>4, <1>5

\* Two sequences joined, by their elements.
LEMMA Joined ==
    \A s, t \in Seq(Data) : \E r \in Seq(Data) :
        /\ r = s \o t /\ Len(r) = Len(s) + Len(t)
        /\ \A i \in 1 .. Len(s) : r[i] = s[i]
        /\ \A i \in 1 .. Len(t) : r[Len(s) + i] = t[i]
<1> SUFFICES ASSUME NEW s \in Seq(Data), NEW t \in Seq(Data)
             PROVE  \E r \in Seq(Data) :
                        /\ r = s \o t /\ Len(r) = Len(s) + Len(t)
                        /\ \A i \in 1 .. Len(s) : r[i] = s[i]
                        /\ \A i \in 1 .. Len(t) : r[Len(s) + i] = t[i]
  OBVIOUS
<1> DEFINE r == s \o t
<1>1. /\ r \in Seq(Data) /\ Len(r) = Len(s) + Len(t)
      /\ \A i \in 1 .. Len(s) + Len(t) : r[i] = IF i <= Len(s) THEN s[i] ELSE t[i - Len(s)]
  BY ConcatProperties
<1> HIDE DEF r
<1>2. /\ \A i \in 1 .. Len(s) : r[i] = s[i]
      /\ \A i \in 1 .. Len(t) : r[Len(s) + i] = t[i]
  <2>1. ASSUME NEW i \in 1 .. Len(s) PROVE r[i] = s[i]
    BY <1>1
  <2>2. ASSUME NEW i \in 1 .. Len(t) PROVE r[Len(s) + i] = t[i]
    <3>1. /\ Len(s) + i \in 1 .. Len(s) + Len(t) /\ ~(Len(s) + i <= Len(s))
          /\ (Len(s) + i) - Len(s) = i
      OBVIOUS
    <3>2. r[Len(s) + i] = t[(Len(s) + i) - Len(s)]
      BY <1>1, <3>1
    <3>3. QED
      BY <3>1, <3>2
  <2>3. QED
    BY <2>1, <2>2
<1>3. r = s \o t
  BY DEF r
<1>4. QED
  BY <1>1, <1>2, <1>3

\* The body of a response with metadata: the flags, the times, the version and the value.
MetadataBody(b, n, f, A, B, v, w) ==
    /\ b = <<f>> \o (A \o B) \o <<v, w>> /\ n = 1 + Len(A) + Len(B)
    /\ Len(b) = n + 2
    /\ At(b, 1) = f /\ At(b, n + 1) = v /\ At(b, n + 2) = w
    /\ Len(A) = 2 => At(b, 3) = A[2]
    /\ Len(B) = 2 => At(b, n) = B[2]

\* Where the parts of that body are.
LEMMA MetadataTokens ==
    ASSUME NEW f \in Data, NEW v \in Data, NEW w \in Data,
           NEW A \in Seq(Data), NEW B \in Seq(Data), Len(A) \in {0, 2}, Len(B) \in {0, 2}
    PROVE  \E b \in Seq(Data), n \in Nat : MetadataBody(b, n, f, A, B, v, w)
<1>1. PICK ab \in Seq(Data) : /\ ab = A \o B /\ Len(ab) = Len(A) + Len(B)
                              /\ \A i \in 1 .. Len(A) : ab[i] = A[i]
                              /\ \A i \in 1 .. Len(B) : ab[Len(A) + i] = B[i]
  BY Joined
<1>2. PICK one \in Seq(Data) : one = <<f>> /\ Len(one) = 1 /\ one[1] = f
  BY ShortBodies
<1>3. PICK two \in Seq(Data) : two = <<v, w>> /\ Len(two) = 2 /\ two[1] = v /\ two[2] = w
  BY ShortBodies
<1>4. PICK fab \in Seq(Data) : /\ fab = one \o ab /\ Len(fab) = Len(one) + Len(ab)
                               /\ \A i \in 1 .. Len(one) : fab[i] = one[i]
                               /\ \A i \in 1 .. Len(ab) : fab[Len(one) + i] = ab[i]
  BY Joined
<1>5. PICK b \in Seq(Data) : /\ b = fab \o two /\ Len(b) = Len(fab) + Len(two)
                             /\ \A i \in 1 .. Len(fab) : b[i] = fab[i]
                             /\ \A i \in 1 .. Len(two) : b[Len(fab) + i] = two[i]
  BY Joined
<1>6. PICK n \in Nat : n = 1 + Len(A) + Len(B)
  OBVIOUS
<1>7. Len(fab) = n /\ Len(ab) = n - 1 /\ Len(b) = n + 2 /\ DOMAIN b = 1 .. n + 2 /\ n >= 1
  BY <1>1, <1>2, <1>3, <1>4, <1>5, <1>6
<1>8. b[1] = f
  BY <1>2, <1>4, <1>5, <1>7
<1>9. b[n + 1] = v /\ b[n + 2] = w
  <2>1. 1 \in 1 .. Len(two) /\ 2 \in 1 .. Len(two)
    BY <1>3
  <2>2. b[Len(fab) + 1] = two[1] /\ b[Len(fab) + 2] = two[2]
    BY <1>5, <2>1
  <2>3. QED
    BY <1>3, <1>7, <2>2
<1>10. Len(A) = 2 => n >= 3 /\ b[3] = A[2]
  <2>1. SUFFICES ASSUME Len(A) = 2 PROVE n >= 3 /\ b[3] = A[2]
    OBVIOUS
  <2>2. n >= 3
    BY <1>6, <2>1
  <2>3. b[3] = fab[3] /\ fab[3] = ab[2] /\ ab[2] = A[2]
    BY <1>1, <1>2, <1>4, <1>5, <1>7, <2>1, <2>2
  <2>4. QED
    BY <2>2, <2>3
<1>11. Len(B) = 2 => b[n] = B[2]
  <2>1. SUFFICES ASSUME Len(B) = 2 PROVE b[n] = B[2]
    OBVIOUS
  <2>2. n - 1 = Len(A) + 2 /\ n - 1 \in 1 .. Len(ab) /\ n = Len(one) + (n - 1)
    BY <1>2, <1>6, <1>7, <2>1
  <2>3. b[n] = fab[n] /\ fab[n] = ab[n - 1] /\ ab[n - 1] = B[2]
    BY <1>1, <1>4, <1>5, <1>7, <2>1, <2>2, SMTT(30)
  <2>4. QED
    BY <2>3
<1>12. /\ At(b, 1) = f /\ At(b, n + 1) = v /\ At(b, n + 2) = w
       /\ Len(A) = 2 => At(b, 3) = A[2]
       /\ Len(B) = 2 => At(b, n) = B[2]
  BY <1>7, <1>8, <1>9, <1>10, <1>11 DEF At
<1>13. b = <<f>> \o (A \o B) \o <<v, w>>
  BY <1>1, <1>2, <1>3, <1>4, <1>5
<1>14. MetadataBody(b, n, f, A, B, v, w)
  BY <1>6, <1>7, <1>12, <1>13 DEF MetadataBody
<1>15. QED
  BY <1>14

\* get, containsKey, getWithVersion and getWithMetadata.
LEMMA KeyReadsUnderstood ==
    ASSUME StoreOK, NEW c, Asks(c), c.op \in KeyReads, NEW compat \in BOOLEAN
    PROVE  Understood(c, compat)
<1> DEFINE sent == Sent(c, compat)
<1>1. /\ c.key \in Key /\ Wire(c.op) = c.op /\ c.op # "ping"
      /\ c.op \notin PutFamily \cup {"remove"} \cup Versioned
  BY DEF Asks, KeyOps, KeyReads, Wire, PutFamily, Versioned
<1>2. Execute(c) = IF store[c.key] # <<>> THEN Found(c)
                   ELSE [Missing EXCEPT !.means = IF c.op = "containsKey" THEN << 0 >> ELSE <<>>]
  BY <1>1 DEF Execute, KeyReads, PutFamily, Versioned
<1>3. Means(c, compat) = Execute(c).means
  BY <1>1 DEF Means
<1>4. << 0 >> \in Seq(Data) /\ << 1 >> \in Seq(Data) /\ <<>> \in Seq(Data) /\ Len(<<>>) = 0
  BY ShortBodies DEF Data
<1>5. CASE store[c.key] = <<>>
  <2> DEFINE m == IF c.op = "containsKey" THEN << 0 >> ELSE <<>>
  <2>1. Execute(c).status = 2 /\ Execute(c).body = <<>> /\ Execute(c).means = m
    BY <1>2, <1>5, StatusFacts DEF Missing, Answer
  <2>2. sent = 2
    BY <2>1, StatusFacts DEF Sent
  <2> HIDE DEF sent
  <2>3. executeOperation(c.op, 2, <<>>) = Returns(0, m)
    <3>1. ~isSuccess(2)
      BY StatusFacts
    <3>2. CASE c.op = "get"
      <4>1. GetOperation(2, <<>>) = Returns(0, <<>>)
        BY <3>1 DEF GetOperation
      <4>2. m = <<>>
        BY <3>2
      <4> HIDE DEF m
      <4>3. QED
        BY <3>2, <4>1, <4>2, Dispatch
    <3>3. CASE c.op = "containsKey"
      <4>1. ContainsKeyOperation(2, <<>>) = Returns(0, << 0 >>)
        BY <3>1 DEF ContainsKeyOperation
      <4>2. c.op = "containsKey" /\ m = << 0 >>
        BY <3>3
      <4> HIDE DEF m
      <4>3. QED
        BY <4>1, <4>2, Dispatch
    <3>4. CASE c.op = "getWithVersion"
      <4>1. GetWithVersionOperation(2, <<>>) = Returns(0, <<>>)
        BY <3>1 DEF GetWithVersionOperation
      <4>2. m = <<>>
        BY <3>4
      <4> HIDE DEF m
      <4>3. QED
        BY <3>4, <4>1, <4>2, Dispatch
    <3>5. CASE c.op = "getWithMetadata"
      <4>1. GetWithMetadataOperation(2, <<>>) = Returns(0, <<>>)
        BY <3>1 DEF GetWithMetadataOperation
      <4>2. m = <<>>
        BY <3>5
      <4> HIDE DEF m
      <4>3. QED
        BY <3>5, <4>1, <4>2, Dispatch
    <3>6. QED
      BY <3>2, <3>3, <3>4, <3>5 DEF KeyReads
  <2>4. m \in Seq(Data)
    BY <1>4
  <2>5. QED
    BY <1>1, <1>3, <1>4, <2>1, <2>2, <2>3, <2>4 DEF Understood, sent
<1>6. CASE store[c.key] # <<>>
  <2> DEFINE e == store[c.key][1]
  <2>1. e.val \in Data /\ e.version \in Data /\ e.life \in Nat /\ e.idle \in Nat
    BY <1>1, <1>6, StoredEntry
  <2>2. Execute(c) = Found(c)
    BY <1>2, <1>6
  <2> HIDE DEF e
  <2>3. CASE c.op # "getWithMetadata"
    <3> DEFINE body == IF c.op = "get" THEN <<e.val>>
                       ELSE IF c.op = "containsKey" THEN <<>> ELSE <<e.version, e.val>>
               m == IF c.op = "containsKey" THEN << 1 >> ELSE body
    <3>1. Execute(c).status = 0 /\ Execute(c).body = body /\ Execute(c).means = m
      BY <2>2, <2>3, StatusFacts DEF Found, Answer, KeyReads, e
    <3>2. sent \in {0, 6}
      BY <3>1, StatusFacts DEF Sent
    <3> HIDE DEF sent
    <3>3. isSuccess(sent)
      BY <3>2, StatusFacts
    <3>4. executeOperation(c.op, sent, body) = Returns(Len(body), m)
      <4>1. CASE c.op = "get"
        <5>1. GetOperation(sent, <<e.val>>) = Returns(1, <<e.val>>)
          BY <2>1, <3>3, ShortBodies DEF GetOperation
        <5>2. body = <<e.val>> /\ m = <<e.val>> /\ Len(<<e.val>>) = 1
          BY <4>1
        <5> HIDE DEF body, m
        <5>3. QED
          BY <4>1, <5>1, <5>2, Dispatch
      <4>2. CASE c.op = "containsKey"
        BY <3>3, <4>2, ShortBodies, Dispatch DEF ContainsKeyOperation
      <4>3. CASE c.op = "getWithVersion"
        <5>1. GetWithVersionOperation(sent, <<e.version, e.val>>)
                = Returns(2, <<e.version, e.val>>)
          BY <2>1, <3>3, ShortBodies DEF GetWithVersionOperation
        <5>2. body = <<e.version, e.val>> /\ m = body /\ Len(<<e.version, e.val>>) = 2
          BY <4>3
        <5> HIDE DEF body, m
        <5>3. QED
          BY <4>3, <5>1, <5>2, Dispatch
      <4>4. QED
        BY <2>3, <4>1, <4>2, <4>3 DEF KeyReads
    <3>5. body \in Seq(Data) /\ m \in Seq(Data)
      BY <1>4, <2>1, ShortBodies
    <3>6. QED
      BY <1>1, <1>3, <3>1, <3>2, <3>4, <3>5 DEF Understood, sent
  <2>4. CASE c.op = "getWithMetadata"
    <3> DEFINE A == IF e.life = 0 THEN <<>> ELSE <<0, e.life>>
               B == IF e.idle = 0 THEN <<>> ELSE <<0, e.idle>>
               f == (IF e.life = 0 THEN 1 ELSE 0) + (IF e.idle = 0 THEN 2 ELSE 0)
               m == <<e.version, e.val, IF e.life = 0 THEN -1 ELSE e.life,
                      IF e.idle = 0 THEN -1 ELSE e.idle>>
    <3>1. Execute(c) = Answer(0, <<f>> \o (A \o B) \o <<e.version, e.val>>, m)
      BY <2>2, <2>4, StatusFacts DEF Found, e
    <3>2. /\ f \in Data /\ A \in Seq(Data) /\ B \in Seq(Data)
          /\ Len(A) = IF e.life = 0 THEN 0 ELSE 2
          /\ Len(B) = IF e.idle = 0 THEN 0 ELSE 2
          /\ e.life # 0 => A[2] = e.life
          /\ e.idle # 0 => B[2] = e.idle
          /\ f % 2 = IF e.life = 0 THEN 1 ELSE 0
          /\ f \div 2 = IF e.idle = 0 THEN 1 ELSE 0
      <4>1. f \in Data /\ A \in Seq(Data) /\ B \in Seq(Data)
        <5>1. e.life \in Data /\ e.idle \in Data /\ 0 \in Data
          BY <2>1 DEF Data
        <5>2. A \in Seq(Data) /\ B \in Seq(Data)
          BY <5>1, ShortBodies
        <5>3. f \in Int
          BY <2>1
        <5>4. QED
          BY <5>2, <5>3 DEF Data
      <4>2. Len(A) = (IF e.life = 0 THEN 0 ELSE 2) /\ (e.life # 0 => A[2] = e.life)
        BY <2>1
      <4>3. Len(B) = (IF e.idle = 0 THEN 0 ELSE 2) /\ (e.idle # 0 => B[2] = e.idle)
        BY <2>1
      <4>4. f % 2 = IF e.life = 0 THEN 1 ELSE 0
        BY <2>1
      <4>5. f \div 2 = IF e.idle = 0 THEN 1 ELSE 0
        BY <2>1
      <4>6. QED
        BY <4>1, <4>2, <4>3, <4>4, <4>5
    <3>3. m \in Seq(Data)
      BY <2>1 DEF Data
    <3> HIDE DEF A, B, f
    <3>4. /\ Len(A) \in {0, 2} /\ Len(B) \in {0, 2}
          /\ f \in Data /\ A \in Seq(Data) /\ B \in Seq(Data)
          /\ e.version \in Data /\ e.val \in Data
      BY <2>1, <3>2
    <3>5. PICK body \in Seq(Data), n \in Nat : MetadataBody(body, n, f, A, B, e.version, e.val)
      BY <3>4, MetadataTokens
    <3>6. Execute(c).status = 0 /\ Execute(c).body = body /\ Execute(c).means = m
      BY <3>1, <3>5 DEF Answer, MetadataBody
    <3>7. sent \in {0, 6}
      BY <3>6, StatusFacts DEF Sent
    <3> HIDE DEF sent
    <3>8. isSuccess(sent)
      BY <3>7, StatusFacts
    <3>9. /\ Len(A) = IF At(body, 1) % 2 = 0 THEN 2 ELSE 0
          /\ Len(B) = IF At(body, 1) \div 2 = 0 THEN 2 ELSE 0
      BY <3>2, <3>5 DEF MetadataBody
    <3>10. m = <<At(body, n + 1), At(body, n + 2),
                 IF Len(A) = 0 THEN -1 ELSE At(body, 3),
                 IF Len(B) = 0 THEN -1 ELSE At(body, n)>>
      <4>1. (IF e.life = 0 THEN -1 ELSE e.life) = (IF Len(A) = 0 THEN -1 ELSE At(body, 3))
        BY <3>2, <3>5 DEF MetadataBody
      <4>2. (IF e.idle = 0 THEN -1 ELSE e.idle) = (IF Len(B) = 0 THEN -1 ELSE At(body, n))
        BY <3>2, <3>5 DEF MetadataBody
      <4>3. QED
        BY <3>5, <4>1, <4>2 DEF MetadataBody
    <3> HIDE DEF m
    <3>11. GetWithMetadataOperation(sent, body) = Returns(n + 2, m)
      BY <3>5, <3>8, <3>9, <3>10 DEF GetWithMetadataOperation, MetadataBody
    <3>12. executeOperation(c.op, sent, body) = Returns(Len(body), m)
      BY <2>4, <3>5, <3>11, Dispatch DEF MetadataBody
    <3>13. QED
      BY <1>1, <1>3, <3>3, <3>5, <3>6, <3>7, <3>12 DEF Understood, sent
  <2>5. QED
    BY <2>3, <2>4
<1>7. QED
  BY <1>5, <1>6

\* A finite set, listed.
LEMMA OrderedFacts ==
    ASSUME NEW ks, IsFiniteSet(ks)
    PROVE  Ordered(ks) \in Seq(ks) /\ Len(Ordered(ks)) = Cardinality(ks) /\ Cardinality(ks) \in Nat
<1> DEFINE n == Cardinality(ks)
           S == {f \in [1 .. n -> ks] : IsInjective(f)}
<1>1. n \in Nat /\ ExistsBijection(1 .. n, ks)
  BY FS_CardinalityType
<1>2. PICK f \in Bijection(1 .. n, ks) : TRUE
  BY <1>1 DEF ExistsBijection
<1>3. f \in [1 .. n -> ks] /\ IsInjective(f)
  BY <1>2 DEF Bijection, Injection, IsInjective
<1>4. Ordered(ks) \in [1 .. n -> ks]
  BY <1>3 DEF Ordered, SetToSeq
<1>5. QED
  BY <1>1, <1>4

\* The listing of entries, as keys (width 1) or as pairs (width 2).
LEMMA ListingFacts ==
    ASSUME StoreOK, NEW ks, ks \subseteq Entries, IsFiniteSet(ks), NEW w \in {1, 2}
    PROVE  /\ Listing(ks, w) \in Seq(Data) /\ Len(Listing(ks, w)) = w * Cardinality(ks)
           /\ Cardinality(ks) \in Nat
<1> DEFINE n == Cardinality(ks)
           seq == Ordered(ks)
           At1(i) == LET k == seq[((i - 1) \div w) + 1]
                     IN  IF (i - 1) % w = w - 1 /\ w > 1 THEN store[k][1].val ELSE k
<1>1. seq \in Seq(ks) /\ Len(seq) = n /\ n \in Nat
  BY OrderedFacts
<1>2. Listing(ks, w) = [i \in 1 .. Len(seq) * w |-> At1(i)]
  BY DEF Listing
<1> HIDE DEF seq, n
<1>3. ASSUME NEW i \in 1 .. n * w PROVE At1(i) \in Data
  <2> DEFINE j == ((i - 1) \div w) + 1
  <2>1. j \in 1 .. n
    <3>1. CASE w = 1
      BY <1>1, <3>1
    <3>2. CASE w = 2
      BY <1>1, <3>2
    <3>3. QED
      BY <3>1, <3>2
  <2> HIDE DEF j
  <2>2. seq[j] \in ks
    BY <1>1, <2>1
  <2>3. seq[j] \in Key /\ store[seq[j]] # <<>>
    BY <2>2 DEF Entries
  <2>4. seq[j] \in Data /\ store[seq[j]][1].val \in Data
    BY <2>3, StoredEntry DEF Data
  <2>5. QED
    BY <2>4 DEF j
<1> HIDE DEF At1
<1>4. n * w \in Nat /\ n * w = w * n
  BY <1>1
<1>5. [i \in 1 .. n * w |-> At1(i)] \in Seq(Data)
  BY <1>3, <1>4
<1>6. Len([i \in 1 .. n * w |-> At1(i)]) = n * w
  BY <1>4
<1>7. QED
  BY <1>1, <1>2, <1>4, <1>5, <1>6 DEF n

\* A marked listing is read to its end, and read as the listing.
LEMMA MarkedIsRead ==
    ASSUME NEW L \in Seq(Data), NEW n \in Nat, NEW w \in {1, 2}, Len(L) = w * n
    PROVE  /\ Marked(L, w) \in Seq(Data)
           /\ ReadWhileOne(Marked(L, w), w + 1) = Returns(Len(Marked(L, w)), L)
<1> DEFINE end == n * (w + 1) + 1
           b == Marked(L, w)
           Value1(i) == CASE i = end -> 0
                          [] i # end /\ (i - 1) % (w + 1) = 0 -> 1
                          [] OTHER -> L[(i - 1) - (i - 1) \div (w + 1)]
<1>1. /\ Len(L) \div w = n /\ end \in Nat /\ end >= 1
      /\ end = (w + 1) * n + 1
  <2>1. CASE w = 1
    BY <2>1
  <2>2. CASE w = 2
    BY <2>2
  <2>3. QED
    BY <2>1, <2>2
<1>2. b = [i \in 1 .. end |-> Value1(i)]
  BY <1>1 DEF Marked
<1>3. ASSUME NEW i \in 1 .. end PROVE Value1(i) \in Data
  <2>1. CASE i = end \/ (i - 1) % (w + 1) = 0
    BY <2>1 DEF Data
  <2>2. CASE ~(i = end \/ (i - 1) % (w + 1) = 0)
    <3>1. (i - 1) - (i - 1) \div (w + 1) \in 1 .. Len(L)
      <4>1. CASE w = 1
        BY <2>2, <4>1
      <4>2. CASE w = 2
        BY <2>2, <4>2
      <4>3. QED
        BY <4>1, <4>2
    <3>2. L[(i - 1) - (i - 1) \div (w + 1)] \in Data
      BY <3>1
    <3>3. QED
      BY <2>2, <3>2
  <2>3. QED
    BY <2>1, <2>2
<1>4. b \in Seq(Data) /\ Len(b) = end /\ DOMAIN b = 1 .. end
  <2> HIDE DEF Value1, end
  <2>1. [i \in 1 .. end |-> Value1(i)] \in Seq(Data)
    BY <1>1, <1>3
  <2>2. QED
    BY <1>1, <1>2, <2>1
<1>5. \A i \in 1 .. end : b[i] = Value1(i)
  BY <1>2
<1> HIDE DEF b
<1>6. \A i \in 0 .. n - 1 : At(b, (w + 1) * i + 1) = 1
  <2> TAKE i \in 0 .. n - 1
  <2> DEFINE j == (w + 1) * i + 1
  <2>1. j \in 1 .. end /\ j # end /\ (j - 1) % (w + 1) = 0
    <3>1. CASE w = 1
      BY <3>1
    <3>2. CASE w = 2
      BY <3>2
    <3>3. QED
      BY <3>1, <3>2
  <2> HIDE DEF j
  <2>2. b[j] = 1
    BY <1>5, <2>1
  <2>3. QED
    BY <1>4, <2>1, <2>2 DEF At, j
<1>7. At(b, (w + 1) * n + 1) = 0
  BY <1>1, <1>4, <1>5 DEF At
<1>8. n \in 0 .. Len(b)
  <2>1. CASE w = 1
    BY <1>4, <2>1
  <2>2. CASE w = 2
    BY <1>4, <2>2
  <2>3. QED
    BY <2>1, <2>2
<1>9. Min({i \in 0 .. Len(b) : At(b, (w + 1) * i + 1) # 1}) = n
  <2> DEFINE M == {i \in 0 .. Len(b) : At(b, (w + 1) * i + 1) # 1}
  <2>1. n \in M
    BY <1>7, <1>8
  <2>2. \A i \in M : n <= i
    BY <1>6, <1>4
  <2>3. M \subseteq Nat
    BY <1>4
  <2> HIDE DEF M
  <2>4. \A x \in M : (\A y \in M : x <= y) => x = n
    BY <2>1, <2>2, <2>3
  <2>5. Min(M) = n
    BY <2>1, <2>2, <2>4 DEF Min
  <2>6. QED
    BY <2>5 DEF M
<1>10. ASSUME NEW i \in 1 .. w * n
       PROVE  At(b, (w + 1) * ((i - 1) \div w) + ((i - 1) % w) + 2) = L[i]
  <2> DEFINE j == (w + 1) * ((i - 1) \div w) + ((i - 1) % w) + 2
  <2>1. /\ j \in 1 .. end /\ j # end /\ (j - 1) % (w + 1) # 0
        /\ (j - 1) - (j - 1) \div (w + 1) = i
    <3>1. CASE w = 1
      BY <3>1
    <3>2. CASE w = 2
      BY <3>2
    <3>3. QED
      BY <3>1, <3>2
  <2> HIDE DEF j
  <2>2. b[j] = L[i]
    BY <1>5, <2>1
  <2>3. QED
    BY <1>4, <2>1, <2>2 DEF At, j
<1>11. [i \in 1 .. w * n |-> At(b, (w + 1) * ((i - 1) \div w) + ((i - 1) % w) + 2)] = L
  BY <1>10
<1>12. (w + 1) - 1 = w
  OBVIOUS
<1>13. ReadWhileOne(b, w + 1) = Returns((w + 1) * n + 1, L)
  BY <1>9, <1>11, <1>12 DEF ReadWhileOne
<1>14. QED
  BY <1>1, <1>4, <1>13 DEF b

\* The entries are finitely many.
LEMMA FiniteEntries ==
    ASSUME NEW ks, ks \subseteq Entries
    PROVE  IsFiniteSet(ks)
BY CallersAssumption, FS_Subset DEF Entries

\* A count and its pairs are read to the end, and read as the pairs.
LEMMA PairsAreRead ==
    ASSUME NEW L \in Seq(Data), NEW n \in Nat, Len(L) = 2 * n
    PROVE  /\ <<n>> \o L \in Seq(Data)
           /\ ReadPairs(<<n>> \o L) = Returns(Len(<<n>> \o L), L)
<1>0. n \in Data
  BY DEF Data
<1>1. PICK one \in Seq(Data) : one = <<n>> /\ Len(one) = 1 /\ one[1] = n
  BY <1>0, ShortBodies
<1>2. PICK b \in Seq(Data) : /\ b = one \o L /\ Len(b) = Len(one) + Len(L)
                             /\ \A i \in 1 .. Len(one) : b[i] = one[i]
                             /\ \A i \in 1 .. Len(L) : b[Len(one) + i] = L[i]
  BY Joined
<1>3. At(b, 1) = n
  BY <1>1, <1>2 DEF At
<1>4. Len(b) = 1 + 2 * n
  BY <1>1, <1>2
<1>5. SubSeq(b, 2, 1 + 2 * n) = L
  <2>1. /\ SubSeq(b, 2, 1 + 2 * n) \in Seq(Data)
        /\ Len(SubSeq(b, 2, 1 + 2 * n)) = 2 * n
        /\ \A i \in 1 .. 2 * n : SubSeq(b, 2, 1 + 2 * n)[i] = b[1 + i]
    BY <1>4
  <2>2. \A i \in 1 .. 2 * n : SubSeq(b, 2, 1 + 2 * n)[i] = L[i]
    BY <1>1, <1>2, <2>1
  <2>3. QED
    BY <2>1, <2>2, SeqEqual
<1>6. ReadPairs(b) = Returns(Len(b), L)
  BY <1>3, <1>4, <1>5 DEF ReadPairs
<1>7. b = <<n>> \o L
  BY <1>1, <1>2
<1>8. QED
  BY <1>6, <1>7

\* The operations on the whole cache.
LEMMA CacheOpsUnderstood ==
    ASSUME StoreOK, NEW c, Asks(c), c.op \in CacheOps, NEW compat \in BOOLEAN
    PROVE  Understood(c, compat)
<1> DEFINE sent == Sent(c, compat)
<1>1. Wire(c.op) = c.op /\ c.op \notin KeyOps \cup {"getAll"}
  BY DEF CacheOps, Wire, KeyOps, KeyReads, PutFamily, Versioned
<1>2. << 0 >> \in Seq(Data) /\ << 1 >> \in Seq(Data) /\ << 2 >> \in Seq(Data) /\ <<>> \in Seq(Data)
  BY ShortBodies DEF Data
<1>3. IsFiniteSet(Entries) /\ Cardinality(Entries) \in Nat
  BY FiniteEntries, FS_CardinalityType
<1>4. Execute(c).status = 0
  BY <1>1, StatusFacts DEF Execute, Answer, CacheOps, KeyOps, KeyReads, PutFamily, Versioned
<1>5. sent = IF compat THEN 6 ELSE 0
  BY <1>4, StatusFacts DEF Sent
<1>6. isSuccess(sent) /\ sent \in Nat
  BY <1>5, StatusFacts
<1>7. hasCompatibility(sent) <=> compat
  BY <1>5 DEF hasCompatibility, NO_ERROR_STATUS_COMPAT, SUCCESS_WITH_PREVIOUS_COMPAT,
     NOT_EXECUTED_WITH_PREVIOUS_COMPAT
<1> HIDE DEF sent
<1>8. CASE c.op = "getBulk"
  <2> DEFINE L == Listing(Entries, 2)
             b == Marked(L, 2)
  <2>1. Execute(c).body = b /\ Execute(c).means = L
    BY <1>8 DEF Execute, Answer, PutFamily
  <2>2. L \in Seq(Data) /\ Len(L) = 2 * Cardinality(Entries)
    BY <1>3, ListingFacts
  <2> HIDE DEF L
  <2>3. b \in Seq(Data) /\ ReadWhileOne(b, 2 + 1) = Returns(Len(b), L)
    BY <1>3, <2>2, MarkedIsRead
  <2> HIDE DEF b
  <2>4. executeOperation(c.op, sent, b) = Returns(Len(b), L)
    BY <1>8, <2>3, Dispatch
  <2>5. Means(c, compat) = L
    BY <1>8, <2>1 DEF Means
  <2>6. QED
    BY <1>1, <1>6, <2>1, <2>2, <2>3, <2>4, <2>5 DEF Understood, sent
<1>9. CASE c.op = "keySet"
  <2> DEFINE L == Listing(Entries, 1)
             b == Marked(L, 1)
  <2>1. Execute(c).body = b /\ Execute(c).means = L
    BY <1>9 DEF Execute, Answer, PutFamily
  <2>2. L \in Seq(Data) /\ Len(L) = 1 * Cardinality(Entries)
    BY <1>3, ListingFacts
  <2> HIDE DEF L
  <2>3. b \in Seq(Data) /\ ReadWhileOne(b, 1 + 1) = Returns(Len(b), L)
    BY <1>3, <2>2, MarkedIsRead
  <2> HIDE DEF b
  <2>4. executeOperation(c.op, sent, b) = Returns(Len(b), L)
    BY <1>9, <2>3, Dispatch
  <2>5. Means(c, compat) = L
    BY <1>9, <2>1 DEF Means
  <2>6. QED
    BY <1>1, <1>6, <2>1, <2>2, <2>3, <2>4, <2>5 DEF Understood, sent
<1>10. CASE c.op = "stats"
  <2> DEFINE b == <<1, 0, 0>>
  <2>1. Execute(c).body = b /\ Execute(c).means = <<0, 0>>
    BY <1>10 DEF Execute, Answer, PutFamily
  <2>2. b \in Seq(Data) /\ Len(b) = 3 /\ At(b, 1) = 1 /\ <<0, 0>> \in Seq(Data)
    BY DEF At, Data
  <2>3. SubSeq(b, 2, 3) = <<0, 0>>
    <3>1. b[2] = 0 /\ b[3] = 0
      OBVIOUS
    <3>2. PICK z \in Seq(Data) : z = <<0, 0>> /\ Len(z) = 2 /\ z[1] = 0 /\ z[2] = 0
      BY <2>2
    <3> HIDE DEF b
    <3>3. /\ SubSeq(b, 2, 3) \in Seq(Data) /\ Len(SubSeq(b, 2, 3)) = 2
          /\ \A i \in 1 .. 2 : SubSeq(b, 2, 3)[i] = b[1 + i]
      BY <2>2, SMTT(30)
    <3>4. \A i \in 1 .. 2 : SubSeq(b, 2, 3)[i] = z[i]
      BY <3>1, <3>2, <3>3
    <3>5. SubSeq(b, 2, 3) = z
      BY <3>2, <3>3, <3>4, SeqEqual
    <3>6. QED
      BY <3>2, <3>5
  <2> HIDE DEF b
  <2>4. ReadPairs(b) = Returns(Len(b), <<0, 0>>)
    <3>1. 1 + 2 * At(b, 1) = 3
      BY <2>2
    <3>2. ReadPairs(b) = Returns(3, SubSeq(b, 2, 3))
      BY <3>1 DEF ReadPairs
    <3>3. QED
      BY <2>2, <2>3, <3>2
  <2>5. Means(c, compat) = <<0, 0>>
    BY <1>10, <2>1 DEF Means
  <2>6. executeOperation(c.op, sent, b) = Returns(Len(b), <<0, 0>>)
    BY <1>10, <2>4, Dispatch
  <2>7. QED
    BY <1>1, <1>6, <2>1, <2>2, <2>5, <2>6 DEF Understood, sent
<1>11. CASE c.op \in {"size", "execute", "query"}
  <2>1. PICK x \in Data : x = IF c.op = "size" THEN Cardinality(Entries) ELSE 0
    BY <1>3 DEF Data
  <2>2. Execute(c).body = <<x>> /\ Execute(c).means = <<x>>
    BY <1>11, <2>1 DEF Execute, Answer, PutFamily
  <2>3. Means(c, compat) = <<x>>
    BY <1>11, <2>2 DEF Means
  <2>4. <<x>> \in Seq(Data) /\ Len(<<x>>) = 1 /\ At(<<x>>, 1) = x
    BY ShortBodies
  <2>5. executeOperation(c.op, sent, <<x>>) = Returns(1, <<x>>)
    BY <1>6, <1>11, <2>4, Dispatch, ZenonT(30) DEF SizeOperation, ExecuteCmdOperation, QueryOperation
  <2>6. QED
    BY <1>1, <1>6, <2>2, <2>3, <2>4, <2>5 DEF Understood, sent
<1>12. CASE c.op = "clear"
  <2>1. Execute(c).body = <<>> /\ Means(c, compat) = <<>> /\ Len(<<>>) = 0
    BY <1>12 DEF Execute, Answer, Means, PutFamily
  <2>2. executeOperation(c.op, sent, <<>>) = Returns(0, <<>>)
    BY <1>12, Dispatch DEF ClearOperation
  <2>3. QED
    BY <1>1, <1>2, <1>6, <2>1, <2>2 DEF Understood, sent
<1>13. CASE c.op = "ping"
  <2> DEFINE m == IF compat THEN << 2 >> ELSE << 1 >>
  <2>1. Execute(c).body = <<>> /\ Means(c, compat) = m /\ Len(<<>>) = 0
    BY <1>13 DEF Execute, Answer, Means, PutFamily
  <2>2. PingOperation(sent, <<>>) = Returns(0, m)
    BY <1>6, <1>7 DEF PingOperation
  <2>3. m \in Seq(Data)
    BY <1>2
  <2> HIDE DEF m
  <2>4. executeOperation(c.op, sent, <<>>) = Returns(0, m)
    BY <1>13, <2>2, Dispatch
  <2>5. QED
    BY <1>1, <1>2, <1>6, <2>1, <2>3, <2>4 DEF Understood, sent
<1>14. QED
  BY <1>8, <1>9, <1>10, <1>11, <1>12, <1>13 DEF CacheOps

\* getAll, which knows the plain success status only.
LEMMA GetAllUnderstood ==
    ASSUME StoreOK, NEW c, Asks(c), c.op = "getAll", NEW compat \in BOOLEAN, ~compat
    PROVE  Understood(c, compat)
<1> DEFINE found == GetAllKeys(c.rest) \cap Entries
           L == Listing(found, 2)
           n == Cardinality(found)
           b == <<n>> \o L
<1>1. Execute(c) = Answer(0, b, L)
  BY StatusFacts DEF Execute, PutFamily
<1>2. IsFiniteSet(found)
  BY FiniteEntries
<1>3. L \in Seq(Data) /\ Len(L) = 2 * n /\ n \in Nat
  BY <1>2, ListingFacts
<1> HIDE DEF L, n, found
<1>4. b \in Seq(Data) /\ ReadPairs(b) = Returns(Len(b), L)
  BY <1>3, PairsAreRead
<1> HIDE DEF b
<1>5. Execute(c).body = b /\ Execute(c).means = L /\ Execute(c).status = 0
  BY <1>1 DEF Answer
<1>6. Sent(c, compat) = 0 /\ Means(c, compat) = L /\ Wire(c.op) = "getAll"
  BY <1>5 DEF Sent, Means, Wire
<1>7. executeOperation("getAll", 0, b) = Returns(Len(b), L)
  BY <1>4, StatusFacts, Dispatch DEF GetAllOperation
<1>8. QED
  BY <1>3, <1>4, <1>5, <1>6, <1>7 DEF Understood

\* Every operation reads all of the response to it, and returns what the server means.
LEMMA ResponsesAreUnderstood ==
    ASSUME StoreOK, NEW c, Asks(c), NEW compat \in BOOLEAN, c.op = "getAll" => ~compat
    PROVE  Understood(c, compat)
<1>1. CASE c.op = "getAll"
  BY <1>1, GetAllUnderstood
<1>2. CASE c.op # "getAll"
  BY <1>2, PutFamilyUnderstood, RemovalUnderstood, KeyReadsUnderstood, CacheOpsUnderstood
  DEF Asks, Ops, KeyOps
<1>3. QED
  BY <1>1, <1>2

\* The response codes of the requests are not that of an error.
LEMMA ResponseCodes ==
    ASSUME NEW op \in Ops
    PROVE  /\ toOpRespCode(OpCode[Wire(op)]) \in Nat
           /\ toOpRespCode(OpCode[Wire(op)]) # ERROR_RESPONSE
BY DEF toOpRespCode, OpCode, Wire, ERROR_RESPONSE, Ops, KeyOps, CacheOps, PutFamily, Versioned,
   KeyReads

\* The tokens s are a response to the request c, and the value in it is v.
Carries(c, s, v) ==
    /\ s # <<>>
    /\ readResponse(Wire(c.op), s, c.id) = Returns(Len(s), v)

\* The tokens s are an error response to the request c.
Refuses(c, s) ==
    /\ s # <<>>
    /\ readResponse(Wire(c.op), s, c.id) = Throws(Len(s))

\* The header of the response and its body are read together.
LEMMA ResponseIsRead ==
    ASSUME StoreOK, NEW c, Asks(c), c.id \in Nat, NEW compat \in BOOLEAN,
           c.op = "getAll" => ~compat
    PROVE  \E s, v \in Seq(Data) :
               /\ s = Response(c.id, toOpRespCode(OpCode[Wire(c.op)]), Sent(c, compat),
                               Execute(c).body)
               /\ v = Means(c, compat)
               /\ Carries(c, s, v)
<1>1. PICK code \in Nat : code = toOpRespCode(OpCode[Wire(c.op)]) /\ code # ERROR_RESPONSE
  BY ResponseCodes DEF Asks
<1>2. Understood(c, compat)
  BY ResponsesAreUnderstood
<1>3. PICK status \in Nat, body \in Seq(Data), v \in Seq(Data) :
          /\ status = Sent(c, compat) /\ body = Execute(c).body /\ v = Means(c, compat)
          /\ executeOperation(Wire(c.op), status, body) = Returns(Len(body), v)
  BY <1>2 DEF Understood
<1>4. PICK id \in Nat : id = c.id
  OBVIOUS
<1>5. PICK s \in Seq(Data) : Tokens(s, id, code, status, body)
  BY ResponseTokens
<1>6. readHeader(s, id, OpCode[Wire(c.op)]) = Returns(5, <<status>>)
  BY <1>1, <1>5 DEF readHeader, Tokens
<1>7. readResponse(Wire(c.op), s, id) = [Returns(Len(body), v) EXCEPT !.reads = 5 + Len(body)]
  <2>1. Returns(5, <<status>>).throws = FALSE /\ Returns(Len(body), v).reads = Len(body)
    BY ChangedResult
  <2>2. executeOperation(Wire(c.op), At(s, 4), SubSeq(s, 6, Len(s))) = Returns(Len(body), v)
    BY <1>3, <1>5 DEF Tokens
  <2>3. QED
    BY <1>6, <2>1, <2>2 DEF readResponse
<1>8. readResponse(Wire(c.op), s, id) = Returns(Len(s), v)
  BY <1>5, <1>7, ChangedResult DEF Tokens
<1>9. s # <<>>
  BY <1>5 DEF Tokens
<1>10. Carries(c, s, v)
  BY <1>4, <1>8, <1>9 DEF Carries
<1>11. QED
  BY <1>1, <1>3, <1>4, <1>5, <1>10 DEF Tokens

\* The message of an error is read with its header.
LEMMA ErrorIsRead ==
    ASSUME NEW c, c.op \in Ops, c.id \in Nat,
           NEW status \in INVALID_MAGIC_OR_MESSAGE_ID_STATUS .. COMMAND_TIMEOUT_STATUS
    PROVE  \E s \in Seq(Data) : /\ s = Response(c.id, ERROR_RESPONSE, status, <<Message>>)
                                /\ Refuses(c, s)
<1>1. PICK id \in Nat : id = c.id
  OBVIOUS
<1>2. status \in Nat /\ ERROR_RESPONSE \in Nat
  BY DEF INVALID_MAGIC_OR_MESSAGE_ID_STATUS, COMMAND_TIMEOUT_STATUS, ERROR_RESPONSE
<1>3. PICK body \in Seq(Data) : body = <<Message>> /\ Len(body) = 1
  <2>1. Message \in Data
    BY DEF Message, Data
  <2>2. QED
    BY <2>1, ShortBodies
<1>4. PICK s \in Seq(Data) : Tokens(s, id, ERROR_RESPONSE, status, body)
  BY <1>2, ResponseTokens
<1>5. readHeader(s, id, OpCode[Wire(c.op)]) = checkForErrorsInResponseStatus(status)
  BY <1>4, ResponseCodes DEF readHeader, Tokens
<1>6. readHeader(s, id, OpCode[Wire(c.op)]) = Throws(6)
  BY <1>5 DEF checkForErrorsInResponseStatus
<1>7. Throws(6).throws = TRUE
  BY DEF Throws
<1>8. readResponse(Wire(c.op), s, id) = Throws(6)
  BY <1>6, <1>7 DEF readResponse
<1>9. s # <<>> /\ Len(s) = 6
  <2>1. Len(s) = 5 + Len(body) /\ Len(body) = 1
    BY <1>3, <1>4 DEF Tokens
  <2>2. Len(s) = 6
    BY <2>1
  <2>3. ASSUME s = <<>> PROVE FALSE
    <3>1. Len(s) = 0
      BY <2>3
    <3>2. QED
      BY <2>2, <3>1
  <2>4. QED
    BY <2>2, <2>3
<1>10. Refuses(c, s)
  BY <1>1, <1>8, <1>9 DEF Refuses
<1>11. QED
  BY <1>1, <1>3, <1>4, <1>10 DEF Tokens

-----------------------------------------------------------------------------
(* The invariant *)

CallType ==
    [op : Ops, key : Key, val : Value \cup {0}, version : Nat, life : Nat, idle : Nat,
     rest : SUBSET Key, flags : SUBSET Flag, id : Nat, got : Seq(Data), callback : BOOLEAN,
     asked : Nat \X DOMAIN TimeUnit, unitOnly : BOOLEAN, wanted : SUBSET Flag]

ReportType ==
    [op : Ops, ok : BOOLEAN, ret : Seq(Data), callback : {"none", "success", "fail"},
     meant : Seq(Data), served : BOOLEAN, applied : Nat]

Types ==
    /\ StoreOK
    /\ flags \in [Cache -> SUBSET Flag]
    /\ wanted \in [Cache -> SUBSET Flag]
    /\ pc \in [Thread -> {"idle", "called", "marshalled", "ready", "sent"}]
    /\ call \in [Thread -> CallType]
    /\ unread \in [Thread -> Seq(Data)]
    /\ msgId \in Nat
    /\ report \in [Thread -> ReportType]
    /\ meant \in [Thread -> Seq(Data)]
    /\ applied \in [Thread -> Nat]

\* Only putAll and getAll go on with further keys, and only getAll gathers.
CallPart(c) ==
    /\ c.op \notin {"putAll", "getAll"} => c.rest = {}
    /\ c.op # "getAll" => c.got = <<>>

\* A call starts with nothing executed for it.
MeantPart(p, c, m, a) ==
    /\ p = "idle" => m = <<>> /\ a = 0
    /\ p = "called" /\ c.op # "putAll" => m = <<>>

\* While a request waits, its connection holds nothing, the whole response that says what
\* the server's last execution came to, or a whole error response; otherwise nothing.
UnreadPart(p, c, s, m) ==
    /\ p # "sent" => s = <<>>
    /\ p = "sent" => \/ s = <<>>
                     \/ \E v \in Seq(Data) : m = c.got \o v /\ Carries(c, s, v)
                     \/ Refuses(c, s)

\* A change that needs a version is made at most once: it makes the version disappear, and
\* versions do not come back.
Gone(c, st) == st[c.key] # <<>> => st[c.key][1].version # c.version

VersionPart(p, c, m, a, st, nv) ==
    p # "idle" /\ c.op \in Versioned =>
        /\ c.version < nv
        /\ a \in {0, 1}
        /\ a = 1 => Gone(c, st)
        /\ m = << 1 >> => a = 1

ReportPart(r) ==
    /\ r.ok /\ r.op # "putAll" => r.ret = r.meant
    /\ r.ok /\ r.op \in Versioned /\ r.ret = << 1 >> => r.applied = 1

Part(t) ==
    /\ CallPart(call[t])
    /\ MeantPart(pc[t], call[t], meant[t], applied[t])
    /\ UnreadPart(pc[t], call[t], unread[t], meant[t])
    /\ VersionPart(pc[t], call[t], meant[t], applied[t], store, nextVersion)
    /\ ReportPart(report[t])

CacheInv == Types /\ \A t \in Thread : Part(t)

\* How the entries change: they stay, go, or get a new version.
StoreMoves ==
    /\ nextVersion' >= nextVersion
    /\ \A k \in Key : \/ store'[k] = store[k]
                      \/ store'[k] = <<>>
                      \/ store'[k][1].version >= nextVersion

\* A step of thread t changes nothing that another thread has.
Frame(t) ==
    \A u \in Thread \ {t} :
        /\ pc'[u] = pc[u] /\ call'[u] = call[u] /\ unread'[u] = unread[u]
        /\ meant'[u] = meant[u] /\ applied'[u] = applied[u] /\ report'[u] = report[u]

\* What a call is before it is made, and how a duration is converted.
LEMMA NoCallType ==
    /\ NoCall \in CallType /\ NoCall.op = "get" /\ NoCall.rest = {} /\ NoCall.got = <<>>
    /\ CallPart(NoCall)
    /\ NoReport \in ReportType /\ ReportPart(NoReport) /\ ~NoReport.ok
<1>1. (CHOOSE k \in Key : TRUE) \in Key
  BY CallersAssumption
<1>2. Zero \in Nat \X DOMAIN TimeUnit
  BY DEF Zero, TimeUnit
<1>3. <<>> \in Seq(Data) /\ "get" \in Ops
  BY DEF Ops, KeyOps, KeyReads
<1>4. NoCall \in CallType
  BY <1>1, <1>2, <1>3 DEF NoCall, CallType
<1>5. NoReport \in ReportType
  BY <1>3 DEF NoReport, ReportType
<1>6. NoCall.op = "get" /\ NoCall.rest = {} /\ NoCall.got = <<>> /\ NoReport.ok = FALSE
  BY DEF NoCall, NoReport
<1>7. CallPart(NoCall) /\ ReportPart(NoReport)
  BY <1>6 DEF CallPart, ReportPart
<1>8. QED
  BY <1>4, <1>5, <1>6, <1>7

\* Durations are numbers of seconds.
LEMMA SecondsType ==
    ASSUME NEW d \in Nat \X DOMAIN TimeUnit
    PROVE  toSeconds(d) \in Nat
<1>1. PICK n \in Nat, unit \in DOMAIN TimeUnit : d = <<n, unit>>
  OBVIOUS
<1>2. unit \in DOMAIN PerSecond \/ unit \in DOMAIN Seconds
  BY DEF TimeUnit, PerSecond, Seconds
<1>3. CASE unit \in DOMAIN PerSecond
  <2>1. PICK p \in Nat \ {0} : p = PerSecond[unit]
    BY <1>3 DEF PerSecond
  <2>2. n \div p \in Nat
    BY <2>1
  <2>3. toSeconds(d) = n \div p + (IF n % p = 0 THEN 0 ELSE 1)
    BY <1>1, <1>3, <2>1 DEF toSeconds
  <2>4. QED
    BY <2>2, <2>3
<1>4. CASE unit \notin DOMAIN PerSecond
  <2>1. PICK p \in Nat : p = Seconds[unit]
    BY <1>2, <1>4 DEF Seconds
  <2>2. toSeconds(d) = n * p
    BY <1>1, <1>4, <2>1 DEF toSeconds
  <2>3. QED
    BY <2>2
<1>5. QED
  BY <1>3, <1>4

\* What the other threads have stays in order.
LEMMA OthersKeep ==
    ASSUME CacheInv, Types', StoreMoves, NEW t, Frame(t), NEW u \in Thread \ {t}
    PROVE  Part(u)'
<1>1. /\ pc'[u] = pc[u] /\ call'[u] = call[u] /\ unread'[u] = unread[u]
      /\ meant'[u] = meant[u] /\ applied'[u] = applied[u] /\ report'[u] = report[u]
  BY DEF Frame
<1>2. Part(u)
  BY DEF CacheInv
<1>3. VersionPart(pc[u], call[u], meant[u], applied[u], store', nextVersion')
  <2>1. SUFFICES ASSUME pc[u] # "idle", call[u].op \in Versioned
                 PROVE  /\ call[u].version < nextVersion'
                        /\ applied[u] = 1 => Gone(call[u], store')
    BY <1>2 DEF Part, VersionPart
  <2>2. /\ call[u].version \in Nat /\ call[u].key \in Key
        /\ nextVersion \in Nat /\ nextVersion' \in Nat
    BY DEF CacheInv, Types, StoreOK, CallType
  <2>3. call[u].version < nextVersion /\ (applied[u] = 1 => Gone(call[u], store))
    BY <1>2, <2>1 DEF Part, VersionPart
  <2>4. call[u].version < nextVersion'
    BY <2>2, <2>3 DEF StoreMoves
  <2>5. ASSUME applied[u] = 1 PROVE Gone(call[u], store')
    <3> DEFINE k == call[u].key
    <3>1. CASE store'[k] = store[k]
      BY <2>3, <2>5, <3>1 DEF Gone
    <3>2. CASE store'[k] = <<>>
      BY <3>2 DEF Gone
    <3>3. CASE store'[k][1].version >= nextVersion
      BY <2>2, <2>3, <3>3 DEF Gone
    <3>4. QED
      BY <2>2, <3>1, <3>2, <3>3 DEF StoreMoves
  <2>6. QED
    BY <2>4, <2>5
<1>4. QED
  BY <1>1, <1>2, <1>3 DEF Part

\* A step of thread t keeps the invariant if it keeps the types and its own part.
LEMMA StepOf ==
    ASSUME CacheInv, NEW t \in Thread, Types', Part(t)', StoreMoves, Frame(t)
    PROVE  CacheInv'
BY OthersKeep DEF CacheInv

-----------------------------------------------------------------------------
(* The calls of the API *)

\* A call that is well formed.
CallOK(c) ==
    /\ c \in CallType
    /\ CallPart(c)
    /\ c.op \in Versioned => c.version < nextVersion

\* The store stays as it is.
LEMMA StoreStays ==
    ASSUME Types, UNCHANGED <<store, nextVersion>>
    PROVE  StoreMoves /\ StoreOK'
BY DEF Types, StoreOK, StoreMoves

\* A call begins.
LEMMA CallKeeps ==
    ASSUME CacheInv, NEW t \in Thread, NEW c, CallOK(c), Call(t, c)
    PROVE  CacheInv'
<1>1. /\ pc[t] = "idle" /\ pc' = [pc EXCEPT ![t] = "called"]
      /\ call' = [call EXCEPT ![t] = c]
      /\ report' = [report EXCEPT ![t] = NoReport]
      /\ UNCHANGED <<flags, wanted, unread, msgId, store, nextVersion, meant, applied>>
  BY DEF Call, client, server
<1>2. StoreMoves /\ StoreOK'
  BY <1>1, StoreStays DEF CacheInv
<1>3. Types'
  BY <1>1, <1>2, NoCallType DEF CacheInv, Types, CallOK
<1>4. Frame(t)
  BY <1>1 DEF Frame, CacheInv, Types
<1>5. /\ pc'[t] = "called" /\ call'[t] = c /\ report'[t] = NoReport
      /\ unread'[t] = unread[t] /\ meant'[t] = meant[t] /\ applied'[t] = applied[t]
  BY <1>1 DEF CacheInv, Types
<1>6. meant[t] = <<>> /\ applied[t] = 0 /\ unread[t] = <<>>
  BY <1>1 DEF CacheInv, Part, MeantPart, UnreadPart
<1>7. Part(t)'
  <2>1. MeantPart("called", c, <<>>, 0) /\ UnreadPart("called", c, <<>>, <<>>)
    BY DEF MeantPart, UnreadPart
  <2>2. VersionPart("called", c, <<>>, 0, store', nextVersion')
    BY <1>1 DEF VersionPart, CallOK
  <2>3. QED
    BY <1>5, <1>6, <2>1, <2>2, NoCallType DEF Part, CallOK
<1>8. QED
  BY <1>2, <1>3, <1>4, <1>7, StepOf

\* The calls with a key.
LEMMA KeyCallKeeps ==
    ASSUME CacheInv, NEW t \in Thread, NEW op \in {"remove"} \cup KeyReads, KeyCall(t, op)
    PROVE  CacheInv'
<1>1. PICK k \in Key, cb \in BOOLEAN :
          Call(t, [NoCall EXCEPT !.op = op, !.key = k, !.callback = cb])
  BY DEF KeyCall, WithCallback
<1>2. PICK c : c = [NoCall EXCEPT !.op = op, !.key = k, !.callback = cb]
  OBVIOUS
<1>3. op \in Ops /\ op \notin Versioned \cup {"putAll", "getAll"}
  BY DEF Ops, KeyOps, KeyReads, Versioned
<1>4. c \in CallType
  BY <1>2, <1>3, NoCallType DEF CallType
<1>5. c.op = op /\ c.rest = {} /\ c.got = <<>>
  BY <1>2, NoCallType DEF CallType
<1>6. CallOK(c)
  BY <1>3, <1>4, <1>5 DEF CallOK, CallPart
<1>7. QED
  BY <1>1, <1>2, <1>6, CallKeeps

\* The calls without a key.
LEMMA CacheCallKeeps ==
    ASSUME CacheInv, NEW t \in Thread, NEW op \in CacheOps, CacheCall(t, op)
    PROVE  CacheInv'
<1>1. PICK c : c = [NoCall EXCEPT !.op = op]
  OBVIOUS
<1>2. op \in Ops /\ op \notin Versioned \cup {"putAll", "getAll"}
  BY DEF Ops, CacheOps, Versioned
<1>3. c \in CallType
  BY <1>1, <1>2, NoCallType DEF CallType
<1>4. c.op = op /\ c.rest = {} /\ c.got = <<>>
  BY <1>1, NoCallType DEF CallType
<1>5. CallOK(c)
  BY <1>2, <1>3, <1>4 DEF CallOK, CallPart
<1>6. QED
  BY <1>1, <1>5, CallKeeps DEF CacheCall

\* The calls with a key, a value and times.
LEMMA ValueCallKeeps ==
    ASSUME CacheInv, NEW t \in Thread, NEW op \in (PutFamily \ {"putAll"}) \cup Versioned,
           NEW versions \in SUBSET Nat, op \in Versioned => \A n \in versions : n < nextVersion,
           ValueCall(t, op, versions)
    PROVE  CacheInv'
<1>1. PICK k \in Key, v \in Value, n \in versions, d \in Duration, cb \in BOOLEAN,
           idle \in {Zero} \cup Duration :
          Call(t, [NoCall EXCEPT !.op = op, !.key = k, !.val = v, !.version = n,
                                 !.life = toSeconds(d), !.idle = toSeconds(idle),
                                 !.callback = cb, !.asked = d])
  BY ZenonT(30) DEF ValueCall, WithCallback
<1>2. PICK c : c = [NoCall EXCEPT !.op = op, !.key = k, !.val = v, !.version = n,
                                 !.life = toSeconds(d), !.idle = toSeconds(idle),
                                 !.callback = cb, !.asked = d]
  OBVIOUS
<1>3. op \in Ops /\ op \notin {"putAll", "getAll"}
  BY DEF Ops, KeyOps, PutFamily, Versioned
<1>4. Zero \in Nat \X DOMAIN TimeUnit /\ d \in Nat \X DOMAIN TimeUnit
  BY CallersAssumption DEF Zero, TimeUnit
<1>5. idle \in Nat \X DOMAIN TimeUnit
  BY <1>4, CallersAssumption
<1>6. toSeconds(d) \in Nat /\ toSeconds(idle) \in Nat
  BY <1>4, <1>5, SecondsType
<1>7. c \in CallType
  BY <1>2, <1>3, <1>4, <1>6, NoCallType DEF CallType
<1>8. c.op = op /\ c.rest = {} /\ c.got = <<>> /\ c.version = n
  BY <1>2, NoCallType DEF CallType
<1>9. CallOK(c)
  BY <1>3, <1>7, <1>8 DEF CallOK, CallPart
<1>10. QED
  BY <1>1, <1>2, <1>9, CallKeeps

\* The other calls.
LEMMA OtherCallsKeep ==
    ASSUME CacheInv, NEW t \in Thread,
           getAll(t) \/ putAsyncWithUnit(t) \/ putAll(t) \/ removeWithVersion(t)
    PROVE  CacheInv'
<1>1. CASE getAll(t)
  <2>1. PICK ks \in SUBSET Key : Call(t, [NoCall EXCEPT !.op = "getAll", !.rest = ks])
    BY <1>1 DEF getAll
  <2>2. PICK c : c = [NoCall EXCEPT !.op = "getAll", !.rest = ks]
    OBVIOUS
  <2>3. c \in CallType
    BY <2>2, NoCallType DEF CallType, Ops
  <2>4. CallOK(c)
    BY <2>2, <2>3, NoCallType DEF CallOK, CallPart, CallType, Versioned
  <2>5. QED
    BY <2>1, <2>2, <2>4, CallKeeps
<1>2. CASE putAsyncWithUnit(t)
  <2>1. PICK k \in Key, v \in Value, d \in Duration, cb \in BOOLEAN :
          Call(t, [NoCall EXCEPT !.op = "put", !.key = k, !.val = v, !.life = d[1],
                                 !.idle = TimeUnit[d[2]], !.callback = cb, !.asked = d,
                                 !.unitOnly = TRUE])
    BY <1>2 DEF putAsyncWithUnit, WithCallback
  <2>2. PICK c : c = [NoCall EXCEPT !.op = "put", !.key = k, !.val = v, !.life = d[1],
                                    !.idle = TimeUnit[d[2]], !.callback = cb, !.asked = d,
                                    !.unitOnly = TRUE]
    OBVIOUS
  <2>3. d \in Nat \X DOMAIN TimeUnit
    BY CallersAssumption
  <2>4. d[1] \in Nat /\ TimeUnit[d[2]] \in Nat
    BY <2>3 DEF TimeUnit
  <2>5. c \in CallType
    BY <2>2, <2>3, <2>4, NoCallType DEF CallType, Ops, KeyOps, PutFamily
  <2>6. c.op = "put" /\ c.rest = {} /\ c.got = <<>>
    BY <2>2, NoCallType DEF CallType
  <2>7. CallOK(c)
    BY <2>5, <2>6 DEF CallOK, CallPart, Versioned
  <2>8. QED
    BY <2>1, <2>2, <2>7, CallKeeps
<1>3. CASE putAll(t)
  <2>1. PICK ks \in (SUBSET Key) \ {{}}, v \in Value, d \in Duration :
          Call(t, [NoCall EXCEPT !.op = "putAll", !.key = CHOOSE k \in ks : TRUE, !.val = v,
                                 !.rest = ks \ {CHOOSE k \in ks : TRUE},
                                 !.life = toSeconds(d), !.asked = d])
    BY <1>3 DEF putAll
  <2>2. PICK c : c = [NoCall EXCEPT !.op = "putAll", !.key = CHOOSE k \in ks : TRUE, !.val = v,
                                    !.rest = ks \ {CHOOSE k \in ks : TRUE},
                                    !.life = toSeconds(d), !.asked = d]
    OBVIOUS
  <2>3. d \in Nat \X DOMAIN TimeUnit
    BY CallersAssumption
  <2>4. toSeconds(d) \in Nat
    BY <2>3, SecondsType
  <2>5. (CHOOSE k \in ks : TRUE) \in ks
    OBVIOUS
  <2>6. c \in CallType
    BY <2>2, <2>3, <2>4, <2>5, NoCallType DEF CallType, Ops, KeyOps, PutFamily
  <2>7. c.op = "putAll" /\ c.got = <<>>
    BY <2>2, NoCallType DEF CallType
  <2>8. CallOK(c)
    BY <2>6, <2>7 DEF CallOK, CallPart, Versioned
  <2>9. QED
    BY <2>1, <2>2, <2>8, CallKeeps
<1>4. CASE removeWithVersion(t)
  <2>1. PICK k \in Key, n \in 1 .. nextVersion - 1, cb \in BOOLEAN :
          Call(t, [NoCall EXCEPT !.op = "removeWithVersion", !.key = k, !.version = n,
                                 !.callback = cb])
    BY <1>4 DEF removeWithVersion, WithCallback
  <2>2. PICK c : c = [NoCall EXCEPT !.op = "removeWithVersion", !.key = k, !.version = n,
                                    !.callback = cb]
    OBVIOUS
  <2>3. n \in Nat /\ n < nextVersion
    BY DEF CacheInv, Types, StoreOK
  <2>4. c \in CallType
    BY <2>2, <2>3, NoCallType DEF CallType, Ops, KeyOps, Versioned
  <2>5. c.op = "removeWithVersion" /\ c.rest = {} /\ c.got = <<>> /\ c.version = n
    BY <2>2, NoCallType DEF CallType
  <2>6. CallOK(c)
    BY <2>3, <2>4, <2>5 DEF CallOK, CallPart
  <2>7. QED
    BY <2>1, <2>2, <2>6, CallKeeps
<1>5. QED
  BY <1>1, <1>2, <1>3, <1>4

\* Nothing that a call has changes.
LEMMA NothingKeeps ==
    ASSUME CacheInv, flags' \in [Cache -> SUBSET Flag], wanted' \in [Cache -> SUBSET Flag],
           UNCHANGED <<pc, call, unread, msgId, report, store, nextVersion, meant, applied>>
    PROVE  CacheInv'
<1>1. StoreOK'
  BY StoreStays DEF CacheInv
<1>2. Types'
  BY <1>1 DEF CacheInv, Types
<1>3. ASSUME NEW u \in Thread PROVE Part(u)'
  BY DEF CacheInv, Part
<1>4. QED
  BY <1>2, <1>3 DEF CacheInv

\* Every method of the API, and the start of the manager.
LEMMA APIKeeps ==
    ASSUME CacheInv, (\E t \in Thread : API(t)) \/ start
    PROVE  CacheInv'
<1>1. CASE start
  <2>1. [c \in Cache |-> {}] \in [Cache -> SUBSET Flag]
    OBVIOUS
  <2>2. QED
    BY <1>1, <2>1, NothingKeeps DEF start, server
<1>2. ASSUME NEW t \in Thread, API(t) PROVE CacheInv'
  <2>1. CASE goAsync(t)
    <3>1. PICK r : r = [NoReport EXCEPT !.op = "clear", !.ok = TRUE, !.callback = "success"]
      OBVIOUS
    <3>2. r \in ReportType /\ r.op = "clear" /\ r.ret = <<>> /\ r.meant = <<>>
      BY <3>1, NoCallType DEF ReportType, NoReport, Ops, CacheOps
    <3>3. ReportPart(r)
      BY <3>2 DEF ReportPart, Versioned
    <3>4. /\ report' = [report EXCEPT ![t] = r]
          /\ UNCHANGED <<flags, wanted, pc, call, unread, msgId, store, nextVersion, meant, applied>>
      BY <2>1, <3>1 DEF goAsync, client, server
    <3>5. StoreMoves /\ StoreOK'
      BY <3>4, StoreStays DEF CacheInv
    <3>6. Types' /\ Frame(t) /\ report'[t] = r
      BY <3>2, <3>4, <3>5 DEF CacheInv, Types, Frame
    <3>7. Part(t)
      BY DEF CacheInv
    <3>8. Part(t)'
      BY <3>3, <3>4, <3>6, <3>7 DEF Part
    <3>9. QED
      BY <3>5, <3>6, <3>8, StepOf
  <2>2. CASE withFlags(t)
    <3>1. PICK f \in Flag : /\ flags' = [flags EXCEPT ![CacheOf[t]] = {f}]
                            /\ wanted' = [wanted EXCEPT ![CacheOf[t]] = {f}]
      BY <2>2 DEF withFlags
    <3>2. flags' \in [Cache -> SUBSET Flag] /\ wanted' \in [Cache -> SUBSET Flag]
      BY <3>1 DEF CacheInv, Types
    <3>3. QED
      BY <2>2, <3>2, NothingKeeps DEF withFlags, server
  <2>3. CASE get(t) \/ remove(t) \/ containsKey(t) \/ getWithVersion(t) \/ getWithMetadata(t)
    BY <2>3, KeyCallKeeps DEF get, remove, containsKey, getWithVersion, getWithMetadata, KeyReads
  <2>4. CASE \/ getBulk(t) \/ execute(t) \/ query(t) \/ keySet(t) \/ size(t) \/ stats(t)
             \/ clear(t) \/ ping(t)
    BY <2>4, CacheCallKeeps
    DEF getBulk, execute, query, keySet, size, stats, clear, ping, CacheOps
  <2>5. CASE put(t) \/ putIfAbsent(t) \/ replace(t) \/ replaceWithVersion(t)
    <3>1. nextVersion \in Nat
      BY DEF CacheInv, Types, StoreOK
    <3>2. /\ {0} \in SUBSET Nat /\ 1 .. nextVersion - 1 \in SUBSET Nat
          /\ \A n \in 1 .. nextVersion - 1 : n < nextVersion
      BY <3>1
    <3>3. CASE put(t)
      BY <3>2, <3>3, ValueCallKeeps DEF put, PutFamily, Versioned
    <3>4. CASE putIfAbsent(t)
      BY <3>2, <3>4, ValueCallKeeps DEF putIfAbsent, PutFamily, Versioned
    <3>5. CASE replace(t)
      BY <3>2, <3>5, ValueCallKeeps DEF replace, PutFamily, Versioned
    <3>6. CASE replaceWithVersion(t)
      BY <3>2, <3>6, ValueCallKeeps DEF replaceWithVersion, PutFamily, Versioned
    <3>7. QED
      BY <2>5, <3>3, <3>4, <3>5, <3>6
  <2>6. QED
    BY <1>2, <2>1, <2>2, <2>3, <2>4, <2>5, OtherCallsKeep DEF API
<1>3. QED
  BY <1>1, <1>2

-----------------------------------------------------------------------------
(* The steps of an operation *)

\* A call ends: what the other steps have to show of it.
LEMMA ReturnKeeps ==
    ASSUME CacheInv, NEW t \in Thread, NEW ok \in BOOLEAN, NEW ret \in Seq(Data),
           Return(t, ok, ret),
           unread' = [unread EXCEPT ![t] = <<>>],
           flags' \in [Cache -> SUBSET Flag], UNCHANGED <<wanted, msgId>>,
           ok /\ call[t].op # "putAll" => ret = meant[t]
    PROVE  CacheInv'
<1>1. PICK r : /\ r = [op |-> call[t].op, ok |-> ok, ret |-> ret, meant |-> meant[t],
                      served |-> call[t].id > 0, applied |-> applied[t],
                      callback |-> CASE ~call[t].callback -> "none"
                                     [] call[t].callback /\ ok -> "success"
                                     [] OTHER -> "fail"]
               /\ report' = [report EXCEPT ![t] = r]
  BY DEF Return
<1>2. /\ pc' = [pc EXCEPT ![t] = "idle"] /\ call' = [call EXCEPT ![t] = NoCall]
      /\ meant' = [meant EXCEPT ![t] = <<>>] /\ applied' = [applied EXCEPT ![t] = 0]
      /\ UNCHANGED <<store, nextVersion>>
  BY DEF Return
<1>3. /\ call[t] \in CallType /\ meant[t] \in Seq(Data) /\ applied[t] \in Nat
      /\ pc[t] \in {"idle", "called", "marshalled", "ready", "sent"}
  BY DEF CacheInv, Types
<1>4. r.op = call[t].op /\ r.ok = ok /\ r.ret = ret /\ r.meant = meant[t] /\ r.applied = applied[t]
  BY <1>1
<1>5. r \in ReportType
  <2>1. (call[t].id > 0) \in BOOLEAN
    BY <1>3 DEF CallType
  <2>2. (CASE ~call[t].callback -> "none" [] call[t].callback /\ ok -> "success"
           [] OTHER -> "fail") \in {"none", "success", "fail"}
    OBVIOUS
  <2>3. call[t].op \in Ops
    BY <1>3 DEF CallType
  <2>4. QED
    BY <1>1, <1>3, <2>1, <2>2, <2>3 DEF ReportType
<1>6. StoreMoves /\ StoreOK'
  BY <1>2, StoreStays DEF CacheInv
<1>7. Types'
  <2>1. <<>> \in Seq(Data) /\ NoCall \in CallType /\ 0 \in Nat
    BY NoCallType
  <2>2. QED
    BY <1>1, <1>2, <1>5, <1>6, <2>1 DEF CacheInv, Types
<1>8. Frame(t)
  BY <1>1, <1>2 DEF Frame, CacheInv, Types
<1>9. /\ pc'[t] = "idle" /\ call'[t] = NoCall /\ meant'[t] = <<>> /\ applied'[t] = 0
      /\ unread'[t] = <<>> /\ report'[t] = r
  BY <1>1, <1>2 DEF CacheInv, Types
<1>10. ReportPart(r)
  <2>1. Part(t)
    BY DEF CacheInv
  <2>2. ASSUME ok, call[t].op \in Versioned, ret = << 1 >> PROVE applied[t] = 1
    <3>1. meant[t] = << 1 >> /\ call[t].op # "putAll"
      BY <2>2 DEF Versioned
    <3>2. << 1 >> # <<>>
      OBVIOUS
    <3>3. pc[t] # "idle"
      BY <2>1, <3>1, <3>2 DEF Part, MeantPart
    <3>4. QED
      BY <2>1, <2>2, <3>1, <3>3 DEF Part, VersionPart
  <2>3. QED
    BY <1>4, <2>2 DEF ReportPart
<1>11. Part(t)'
  <2>1. /\ MeantPart("idle", NoCall, <<>>, 0) /\ UnreadPart("idle", NoCall, <<>>, <<>>)
        /\ VersionPart("idle", NoCall, <<>>, 0, store', nextVersion')
    BY DEF MeantPart, UnreadPart, VersionPart
  <2>2. QED
    BY <1>9, <1>10, <2>1, NoCallType DEF Part
<1>12. QED
  BY <1>6, <1>7, <1>8, <1>11, StepOf

\* A step that sends nothing: the operation is made, or goes on, or tries again.
LEMMA GoesOn ==
    ASSUME CacheInv, NEW t \in Thread, NEW p \in {"called", "marshalled", "ready"}, NEW c,
           c \in CallType, CallPart(c), c.op = call[t].op, pc[t] # "idle",
           c.op \in Versioned => c.key = call[t].key /\ c.version = call[t].version,
           p = "called" => c.op = "putAll",
           pc' = [pc EXCEPT ![t] = p], call' = [call EXCEPT ![t] = c],
           unread' = [unread EXCEPT ![t] = <<>>],
           flags' \in [Cache -> SUBSET Flag], wanted' \in [Cache -> SUBSET Flag],
           UNCHANGED <<msgId, report, store, nextVersion, meant, applied>>
    PROVE  CacheInv'
<1>1. StoreMoves /\ StoreOK'
  BY StoreStays DEF CacheInv
<1>2. Types'
  <2>1. <<>> \in Seq(Data)
    OBVIOUS
  <2>2. QED
    BY <1>1, <2>1 DEF CacheInv, Types
<1>3. Frame(t)
  BY DEF Frame, CacheInv, Types
<1>4. /\ pc'[t] = p /\ call'[t] = c /\ unread'[t] = <<>> /\ meant'[t] = meant[t]
      /\ applied'[t] = applied[t] /\ report'[t] = report[t]
  BY DEF CacheInv, Types
<1>5. Part(t)
  BY DEF CacheInv
<1>6. Part(t)'
  <2>1. MeantPart(p, c, meant[t], applied[t]) /\ UnreadPart(p, c, <<>>, meant[t])
    BY DEF MeantPart, UnreadPart
  <2>2. VersionPart(p, c, meant[t], applied[t], store, nextVersion)
    BY <1>5 DEF Part, VersionPart, Gone
  <2>3. QED
    BY <1>4, <1>5, <2>1, <2>2 DEF Part
<1>7. QED
  BY <1>1, <1>2, <1>3, <1>6, StepOf

\* Nothing is left unread but in a request's wait.
LEMMA QuietUnread ==
    ASSUME CacheInv, NEW t \in Thread, pc[t] # "sent", UNCHANGED unread
    PROVE  unread' = [unread EXCEPT ![t] = <<>>]
<1>1. unread[t] = <<>> /\ unread \in [Thread -> Seq(Data)]
  BY DEF CacheInv, Types, Part, UnreadPart
<1>2. QED
  BY <1>1

\* NotStarted, marshall and newOperation.
LEMMA MakingKeeps ==
    ASSUME CacheInv, NEW t \in Thread, NotStarted(t) \/ marshall(t) \/ newOperation(t)
    PROVE  CacheInv'
<1>1. /\ call[t] \in CallType /\ CallPart(call[t]) /\ Part(t) /\ CacheOf[t] \in Cache
      /\ flags \in [Cache -> SUBSET Flag] /\ wanted \in [Cache -> SUBSET Flag]
      /\ pc \in [Thread -> {"idle", "called", "marshalled", "ready", "sent"}]
      /\ call \in [Thread -> CallType]
  BY CallersAssumption DEF CacheInv, Types, Part
<1>2. <<>> \in Seq(Data)
  OBVIOUS
<1>3. CASE NotStarted(t)
  <2>1. unread' = [unread EXCEPT ![t] = <<>>]
    BY <1>3, QuietUnread DEF NotStarted
  <2>2. Return(t, FALSE, <<>>) /\ UNCHANGED <<flags, wanted, msgId>>
    BY <1>3 DEF NotStarted, client
  <2>3. QED
    BY <1>1, <1>2, <2>1, <2>2, ReturnKeeps
<1>4. CASE marshall(t)
  <2>1. unread' = [unread EXCEPT ![t] = <<>>]
    BY <1>4, QuietUnread DEF marshall
  <2>2. flags' \in [Cache -> SUBSET Flag]
    <3>1. applyDefaultExpirationFlags(call[t]) \subseteq Flag
      BY DEF applyDefaultExpirationFlags, Flag
    <3>2. flags' = [flags EXCEPT ![CacheOf[t]] = @ \cup applyDefaultExpirationFlags(call[t])]
      BY <1>4 DEF marshall
    <3>3. QED
      BY <1>1, <3>1, <3>2
  <2>3. pc[t] = "called" /\ UNCHANGED <<wanted, msgId>>
    BY <1>4 DEF marshall
  <2>4. CASE call[t].op = "getAll" /\ call[t].rest = {}
    <3>1. Return(t, TRUE, <<>>)
      BY <1>4, <2>4 DEF marshall
    <3>2. meant[t] = <<>>
      BY <1>1, <2>3, <2>4 DEF Part, MeantPart
    <3>3. QED
      BY <1>2, <2>1, <2>2, <2>3, <3>1, <3>2, ReturnKeeps
  <2>5. CASE ~(call[t].op = "getAll" /\ call[t].rest = {})
    <3>1. pc' = [pc EXCEPT ![t] = "marshalled"] /\ UNCHANGED <<call, report, server>>
      BY <1>4, <2>5 DEF marshall
    <3>2. PICK c : c = call[t]
      OBVIOUS
    <3>3. call' = [call EXCEPT ![t] = c]
      BY <1>1, <3>1, <3>2
    <3>4. c \in CallType /\ CallPart(c) /\ c.op = call[t].op
      BY <1>1, <3>2
    <3>5. UNCHANGED <<msgId, report, store, nextVersion, meant, applied>>
      BY <2>3, <3>1 DEF server
    <3>6. QED
      BY <1>1, <2>1, <2>2, <2>3, <3>1, <3>2, <3>3, <3>4, <3>5, GoesOn
  <2>6. QED
    BY <2>4, <2>5
<1>5. CASE newOperation(t)
  <2>1. unread' = [unread EXCEPT ![t] = <<>>]
    BY <1>5, QuietUnread DEF newOperation
  <2>2. /\ pc[t] = "marshalled" /\ pc' = [pc EXCEPT ![t] = "ready"]
        /\ flags' = [flags EXCEPT ![CacheOf[t]] = {}]
        /\ wanted' = [wanted EXCEPT ![CacheOf[t]] = {}]
        /\ UNCHANGED <<msgId, report, store, nextVersion, meant, applied>>
    BY <1>5 DEF newOperation, getFlags, server
  <2>3. flags' \in [Cache -> SUBSET Flag] /\ wanted' \in [Cache -> SUBSET Flag]
    BY <1>1, <2>2
  <2>4. PICK fs : fs = IF call[t].op = "ping" THEN {}
                       ELSE flags[CacheOf[t]] \cup {f \in {"FORCE_RETURN_VALUE"} : ForceReturnValue}
    OBVIOUS
  <2>5. fs \in SUBSET Flag
    BY <1>1, <2>4 DEF Flag
  <2>6. PICK w : w = wanted[CacheOf[t]]
    OBVIOUS
  <2>7. w \in SUBSET Flag
    BY <1>1, <2>6
  <2>8. PICK old : old = call[t]
    OBVIOUS
  <2>9. PICK c : c = [old EXCEPT !.flags = fs, !.life = @ % UInt32, !.idle = @ % UInt32,
                                 !.wanted = w]
    OBVIOUS
  <2>10. call' = [call EXCEPT ![t] = c]
    <3>1. call' = [call EXCEPT ![t] =
                       [call[t] EXCEPT !.flags = fs, !.life = @ % UInt32, !.idle = @ % UInt32,
                                       !.wanted = w]]
      BY <1>5, <2>4, <2>6 DEF newOperation
    <3>2. QED
      BY <2>8, <2>9, <3>1
  <2>11. old \in CallType /\ CallPart(old) /\ old.life \in Nat /\ old.idle \in Nat
    BY <1>1, <2>8 DEF CallType
  <2>12. old.life % UInt32 \in Nat /\ old.idle % UInt32 \in Nat
    BY <2>11, CallersAssumption
  <2>13. c \in CallType
    BY <2>5, <2>7, <2>9, <2>11, <2>12 DEF CallType
  <2>14. /\ c.op = old.op /\ c.key = old.key /\ c.version = old.version /\ c.rest = old.rest
         /\ c.got = old.got
    BY <2>9, <2>11 DEF CallType
  <2>15. CallPart(c)
    BY <2>11, <2>14 DEF CallPart
  <2>16. QED
    BY <2>1, <2>2, <2>3, <2>8, <2>10, <2>13, <2>14, <2>15, GoesOn
<1>6. QED
  BY <1>3, <1>4, <1>5

\* Another client changes an entry.
LEMMA OtherClientKeeps ==
    ASSUME CacheInv, NEW k \in Key, OtherClient(k)
    PROVE  CacheInv'
<1>1. UNCHANGED <<flags, wanted, pc, call, unread, msgId, report, meant, applied>>
  BY DEF OtherClient, client
<1>2. StoreOK
  BY DEF CacheInv, Types
<1>3. StoreMoves /\ StoreOK'
  <2>1. CASE /\ nextVersion' = nextVersion + 1
             /\ store' = [store EXCEPT ![k] = <<[val |-> 0, version |-> nextVersion,
                                                life |-> 0, idle |-> 0]>>]
    <3>0. PICK e : e = [val |-> 0, version |-> nextVersion, life |-> 0, idle |-> 0]
      OBVIOUS
    <3>1. e \in Entry /\ e.version = nextVersion
      BY <1>2, <3>0 DEF StoreOK, Entry
    <3>2. store' = [store EXCEPT ![k] = <<e>>]
      BY <2>1, <3>0
    <3>3. <<e>> \in {<<x>> : x \in Entry} /\ <<e>>[1] = e
      BY <3>1
    <3>4. /\ store'[k] = <<e>> /\ \A j \in Key \ {k} : store'[j] = store[j]
          /\ store' \in [Key -> {<<>>} \cup {<<x>> : x \in Entry}]
      BY <1>2, <3>2, <3>3 DEF StoreOK
    <3>5. store'[k][1].version = nextVersion
      BY <3>1, <3>3, <3>4
    <3>6. StoreMoves
      BY <1>2, <2>1, <3>4, <3>5 DEF StoreMoves, StoreOK
    <3>7. ASSUME NEW j \in Key, store'[j] # <<>> PROVE store'[j][1].version < nextVersion'
      <4>1. CASE j = k
        BY <1>2, <2>1, <3>5, <4>1 DEF StoreOK
      <4>2. CASE j # k
        <5>1. store[j] # <<>> /\ store'[j] = store[j]
          BY <3>4, <3>7, <4>2
        <5>2. store[j][1].version < nextVersion /\ store[j][1].version \in Nat
          BY <1>2, <5>1, StoredEntry DEF StoreOK, Entry
        <5>3. QED
          BY <1>2, <2>1, <5>1, <5>2 DEF StoreOK
      <4>3. QED
        BY <4>1, <4>2
    <3>8. QED
      BY <1>2, <2>1, <3>4, <3>6, <3>7 DEF StoreOK
  <2>2. CASE store' = [store EXCEPT ![k] = <<>>] /\ UNCHANGED nextVersion
    BY <1>2, <2>2 DEF StoreOK, StoreMoves
  <2>3. QED
    BY <2>1, <2>2 DEF OtherClient
<1>4. Types'
  BY <1>1, <1>3 DEF CacheInv, Types
<1>5. ASSUME NEW u \in Thread PROVE Part(u)'
  <2>1. PICK t : t \notin Thread
    BY NoSetContainsEverything
  <2>2. Frame(t)
    BY <1>1 DEF Frame
  <2>3. QED
    BY <1>3, <1>4, <2>1, <2>2, OthersKeep
<1>6. QED
  BY <1>4, <1>5 DEF CacheInv

-----------------------------------------------------------------------------
(* The server and the response *)

\* The server keeps to the part of the protocol that the client reads: the errors are the
\* six whose message checkForErrorsInResponseStatus reads (it leaves the message of
\* NODE_SUSPECTED and ILLEGAL_LIFECYCLE_STATE in the connection), and a getAll is not
\* answered in compatibility mode (GetAllOperation takes that status for a failure and
\* leaves the entries in the connection).
ServerKeepsToProtocol ==
    /\ ErrorStatus \subseteq INVALID_MAGIC_OR_MESSAGE_ID_STATUS .. COMMAND_TIMEOUT_STATUS
    /\ "getAll" \notin CompatOps

\* A request is one that the lemmas about responses know.
LEMMA RequestAsks ==
    ASSUME NEW c \in CallType
    PROVE  Asks(c) /\ c.op \in Ops /\ c.id \in Nat /\ c.key \in Key /\ c.version \in Nat
BY DEF CallType, Asks

\* What an execution does to the entries.
LEMMA ExecutionMoves ==
    ASSUME StoreOK, NEW c \in CallType, store' = Effect(c),
           nextVersion' = IF store' # store /\ Done(c) THEN nextVersion + 1 ELSE nextVersion
    PROVE  /\ StoreMoves /\ StoreOK'
           /\ ~Done(c) => UNCHANGED <<store, nextVersion>>
           /\ Done(c) /\ c.op \in Versioned =>
                ~Gone(c, store) /\ (c.version < nextVersion => Gone(c, store'))
<1>1. Asks(c) /\ c.op \in Ops /\ c.key \in Key /\ c.version \in Nat
  BY RequestAsks
<1>2. nextVersion \in Nat
  BY DEF StoreOK
<1>3. CASE ~Done(c)
  <2>1. UNCHANGED <<store, nextVersion>>
    BY <1>3 DEF Effect
  <2>2. StoreMoves /\ StoreOK'
    BY <2>1 DEF StoreMoves, StoreOK
  <2>3. QED
    BY <1>3, <2>1, <2>2
<1>4. CASE Done(c) /\ c.op = "clear"
  <2>1. store' = [k \in Key |-> <<>>]
    BY <1>4 DEF Effect, PutFamily
  <2>2. StoreMoves /\ StoreOK'
    BY <1>2, <2>1 DEF StoreMoves, StoreOK
  <2>3. QED
    BY <1>4, <2>2 DEF Versioned
<1>5. CASE Done(c) /\ c.op \in {"remove", "removeWithVersion"}
  <2>1. store' = [store EXCEPT ![c.key] = <<>>]
    BY <1>5 DEF Effect, PutFamily
  <2>2. /\ store'[c.key] = <<>> /\ \A j \in Key \ {c.key} : store'[j] = store[j]
        /\ store' \in [Key -> {<<>>} \cup {<<x>> : x \in Entry}]
    BY <1>1, <2>1 DEF StoreOK
  <2>3. nextVersion' \in Nat /\ nextVersion' >= nextVersion
    BY <1>2
  <2>4. StoreMoves
    BY <2>2, <2>3 DEF StoreMoves
  <2>5. ASSUME NEW j \in Key, store'[j] # <<>> PROVE store'[j][1].version < nextVersion'
    <3>1. store[j] # <<>> /\ store'[j] = store[j]
      BY <2>2, <2>5
    <3>2. store[j][1].version < nextVersion /\ store[j][1].version \in Nat
      BY <3>1, StoredEntry DEF StoreOK, Entry
    <3>3. QED
      BY <1>2, <2>3, <3>1, <3>2
  <2>6. StoreOK'
    BY <2>2, <2>3, <2>5 DEF StoreOK
  <2>7. Gone(c, store') /\ (c.op \in Versioned => ~Gone(c, store))
    BY <1>1, <1>5, <2>2, DoneFacts DEF Gone
  <2>8. QED
    BY <1>5, <2>4, <2>6, <2>7
<1>6. CASE Done(c) /\ c.op \in PutFamily \cup {"replaceWithVersion"}
  <2>1. PICK e : e = [val |-> c.val, version |-> nextVersion,
                      life |-> IF "DEFAULT_LIFESPAN" \in c.flags THEN 0 ELSE c.life,
                      idle |-> IF "DEFAULT_MAXIDLE" \in c.flags THEN 0 ELSE c.idle]
    OBVIOUS
  <2>2. e \in Entry /\ e.version = nextVersion
    BY <1>2, <2>1 DEF CallType, Entry
  <2>3. store' = [store EXCEPT ![c.key] = <<e>>]
    BY <1>6, <2>1 DEF Effect, PutFamily
  <2>4. <<e>> \in {<<x>> : x \in Entry} /\ <<e>>[1] = e /\ <<e>> # <<>>
    BY <2>2
  <2>5. /\ store'[c.key] = <<e>> /\ \A j \in Key \ {c.key} : store'[j] = store[j]
        /\ store' \in [Key -> {<<>>} \cup {<<x>> : x \in Entry}]
    BY <1>1, <2>3, <2>4 DEF StoreOK
  <2>6. store'[c.key][1].version = nextVersion
    BY <2>2, <2>4, <2>5
  <2>7. store' # store
    <3>1. store[c.key] # <<>> => store[c.key][1].version < nextVersion
      BY <1>1 DEF StoreOK
    <3>2. ASSUME store[c.key] = store'[c.key] PROVE FALSE
      <4>1. store[c.key] # <<>>
        BY <2>4, <2>5, <3>2
      <4>2. nextVersion < nextVersion
        BY <2>6, <3>1, <3>2, <4>1
      <4>3. QED
        BY <1>2, <4>2
    <3>3. QED
      BY <3>2
  <2>8. nextVersion' = nextVersion + 1
    BY <1>6, <2>7
  <2>9. StoreMoves
    BY <1>2, <2>5, <2>6, <2>8 DEF StoreMoves
  <2>10. ASSUME NEW j \in Key, store'[j] # <<>> PROVE store'[j][1].version < nextVersion'
    <3>1. CASE j = c.key
      BY <1>2, <2>6, <2>8, <3>1
    <3>2. CASE j # c.key
      <4>1. store[j] # <<>> /\ store'[j] = store[j]
        BY <2>5, <2>10, <3>2
      <4>2. store[j][1].version < nextVersion /\ store[j][1].version \in Nat
        BY <4>1, StoredEntry DEF StoreOK, Entry
      <4>3. QED
        BY <1>2, <2>8, <4>1, <4>2
    <3>3. QED
      BY <3>1, <3>2
  <2>11. StoreOK'
    BY <1>2, <2>5, <2>8, <2>10 DEF StoreOK
  <2>12. c.version < nextVersion => Gone(c, store')
    BY <1>1, <1>2, <2>6 DEF Gone
  <2>13. c.op \in Versioned => ~Gone(c, store)
    BY <1>1, <1>6, DoneFacts DEF Gone
  <2>14. QED
    BY <1>6, <2>9, <2>11, <2>12, <2>13
<1>7. QED
  BY <1>1, <1>3, <1>4, <1>5, <1>6, DoneFacts DEF Ops, KeyOps, CacheOps, KeyReads, Versioned, PutFamily

\* What the answer to an operation with a version means.
LEMMA VersionedMeans ==
    ASSUME NEW c \in CallType, c.op \in Versioned, NEW compat \in BOOLEAN, Means(c, compat) = << 1 >>
    PROVE  Done(c)
<1>1. Asks(c)
  BY RequestAsks
<1>2. Means(c, compat) = Execute(c).means
  BY DEF Means, Versioned
<1>3. CASE store[c.key] = <<>>
  <2>1. Execute(c) = [Missing EXCEPT !.means = << 0 >>]
    BY <1>3 DEF Execute, Versioned, PutFamily
  <2>2. Execute(c).means = << 0 >>
    BY <2>1 DEF Missing, Answer
  <2>3. << 0 >> = << 1 >>
    BY <1>2, <2>2
  <2>4. QED
    BY <2>3
<1>4. CASE store[c.key] # <<>>
  <2>1. PICK d : d = IF Done(c) THEN 1 ELSE 0
    OBVIOUS
  <2>2. Execute(c) = [Conditional(c, Done(c)) EXCEPT !.means = <<d>>]
    BY <1>4, <2>1 DEF Execute, Versioned, PutFamily
  <2>3. Execute(c).means = <<d>>
    BY <2>2 DEF Conditional, Answer
  <2>4. d = 1
    BY <1>2, <2>3
  <2>5. QED
    BY <2>1, <2>4
<1>5. QED
  BY <1>3, <1>4

\* The request c of thread t, and what goes with its sending.
Requests(t, c) ==
    /\ c \in CallType
    /\ CallPart(c)
    /\ c.op = call[t].op /\ c.key = call[t].key /\ c.version = call[t].version
    /\ pc[t] = "ready" /\ pc' = [pc EXCEPT ![t] = "sent"]
    /\ call' = [call EXCEPT ![t] = c]
    /\ msgId' \in Nat
    /\ UNCHANGED <<flags, wanted, report>>

\* What thread t has before it sends, and after.
LEMMA RequestFacts ==
    ASSUME CacheInv, NEW t \in Thread, NEW c, Requests(t, c)
    PROVE  /\ pc'[t] = "sent" /\ call'[t] = c /\ report'[t] = report[t]
           /\ unread[t] = <<>> /\ Part(t) /\ StoreOK
           /\ VersionPart("ready", c, meant[t], applied[t], store, nextVersion)
           /\ MeantPart("sent", c, meant[t], applied[t])
<1>1. /\ pc'[t] = "sent" /\ call'[t] = c /\ report'[t] = report[t] /\ StoreOK
  BY DEF CacheInv, Types, Requests
<1>2. Part(t) /\ pc[t] = "ready"
  BY DEF CacheInv, Requests
<1>3. unread[t] = <<>>
  BY <1>2 DEF Part, UnreadPart
<1>4. VersionPart("ready", c, meant[t], applied[t], store, nextVersion)
  BY <1>2 DEF Part, VersionPart, Requests, Gone
<1>5. MeantPart("sent", c, meant[t], applied[t])
  BY DEF MeantPart
<1>6. QED
  BY <1>1, <1>2, <1>3, <1>4, <1>5

\* The request is sent: s is what comes back, m what the last execution came to and a how
\* often the server did it.
LEMMA SendingKeeps ==
    ASSUME CacheInv, NEW t \in Thread, NEW c, Requests(t, c),
           NEW s \in Seq(Data), NEW m \in Seq(Data), NEW a \in Nat,
           unread' = [unread EXCEPT ![t] = s], meant' = [meant EXCEPT ![t] = m],
           applied' = [applied EXCEPT ![t] = a],
           StoreMoves, StoreOK',
           UnreadPart("sent", c, s, m),
           VersionPart("sent", c, m, a, store', nextVersion')
    PROVE  CacheInv'
<1>1. /\ pc' = [pc EXCEPT ![t] = "sent"] /\ call' = [call EXCEPT ![t] = c] /\ msgId' \in Nat
      /\ UNCHANGED <<flags, wanted, report>> /\ c \in CallType /\ CallPart(c)
  BY DEF Requests
<1>2. Types'
  BY <1>1 DEF CacheInv, Types
<1>3. Frame(t)
  BY <1>1 DEF Frame, CacheInv, Types
<1>4. unread'[t] = s /\ meant'[t] = m /\ applied'[t] = a
  BY DEF CacheInv, Types
<1>5. pc'[t] = "sent" /\ call'[t] = c /\ report'[t] = report[t] /\ ReportPart(report[t])
  BY RequestFacts DEF Part
<1>6. MeantPart("sent", c, m, a)
  BY DEF MeantPart
<1>7. Part(t)'
  BY <1>1, <1>4, <1>5, <1>6 DEF Part
<1>8. QED
  BY <1>2, <1>3, <1>7, StepOf

\* What is sent to an empty connection.
LEMMA SendsToEmpty ==
    ASSUME NEW t \in Thread, unread[t] = <<>>, NEW s \in Seq(Data), Sends(t, s)
    PROVE  unread' = [unread EXCEPT ![t] = s]
<1>1. <<>> \o s = s
  BY ConcatEmptySeq
<1>2. unread' = [unread EXCEPT ![t] = unread[t] \o s]
  BY DEF Sends
<1>3. QED
  BY <1>1, <1>2

\* An execution in thread t's step.
LEMMA ExecutesFacts ==
    ASSUME CacheInv, NEW t \in Thread, NEW c, Requests(t, c), Executes(t, c)
    PROVE  /\ StoreMoves /\ StoreOK'
           /\ \E a \in Nat :
                /\ applied' = [applied EXCEPT ![t] = a]
                /\ \A m : (Done(c) \/ m = meant[t] \/ m # << 1 >>) =>
                          VersionPart("sent", c, m, a, store', nextVersion')
<1>1. /\ store' = Effect(c) /\ c \in CallType /\ StoreOK
      /\ nextVersion' = IF store' # store /\ Done(c) THEN nextVersion + 1 ELSE nextVersion
  BY RequestFacts DEF Executes, Requests
<1>2. /\ StoreMoves /\ StoreOK'
      /\ ~Done(c) => UNCHANGED <<store, nextVersion>>
      /\ Done(c) /\ c.op \in Versioned =>
            ~Gone(c, store) /\ (c.version < nextVersion => Gone(c, store'))
  BY <1>1, ExecutionMoves
<1>3. applied[t] \in Nat
  BY DEF CacheInv, Types
<1>4. PICK a \in Nat : a = applied[t] + (IF Done(c) THEN 1 ELSE 0)
  BY <1>3
<1>5. applied' = [applied EXCEPT ![t] = a]
  BY <1>4 DEF Executes
<1>6. VersionPart("ready", c, meant[t], applied[t], store, nextVersion)
  BY RequestFacts
<1>7. ASSUME NEW m, Done(c) \/ m = meant[t] \/ m # << 1 >>
      PROVE  VersionPart("sent", c, m, a, store', nextVersion')
  <2>1. SUFFICES ASSUME c.op \in Versioned
                 PROVE  /\ c.version < nextVersion' /\ a \in {0, 1}
                        /\ a = 1 => Gone(c, store')
                        /\ m = << 1 >> => a = 1
    BY DEF VersionPart
  <2>2. /\ c.version < nextVersion /\ applied[t] \in {0, 1}
        /\ applied[t] = 1 => Gone(c, store)
        /\ meant[t] = << 1 >> => applied[t] = 1
    BY <1>6, <2>1 DEF VersionPart
  <2>3. c.version \in Nat /\ nextVersion \in Nat /\ nextVersion' \in Nat
    BY <1>1, <1>2, RequestAsks DEF StoreOK
  <2>4. CASE Done(c)
    <3>1. applied[t] = 0 /\ a = 1 /\ Gone(c, store')
      BY <1>2, <1>3, <1>4, <2>1, <2>2, <2>4
    <3>2. c.version < nextVersion'
      BY <1>2, <2>2, <2>3 DEF StoreMoves
    <3>3. QED
      BY <3>1, <3>2
  <2>5. CASE ~Done(c)
    <3>1. a = applied[t] /\ store' = store /\ nextVersion' = nextVersion
      BY <1>2, <1>3, <1>4, <2>5
    <3>2. QED
      BY <1>7, <2>2, <2>5, <3>1
  <2>6. QED
    BY <2>4, <2>5
<1>8. QED
  BY <1>2, <1>5, <1>7

\* The server executes and answers.
LEMMA ServeKeeps ==
    ASSUME CacheInv, ServerKeepsToProtocol, NEW t \in Thread, NEW c, Requests(t, c), Serve(t, c)
    PROVE  CacheInv'
<1>1. PICK compat \in {FALSE, c.op \in CompatOps} :
          /\ Executes(t, c)
          /\ Sends(t, Response(c.id, toOpRespCode(OpCode[Wire(c.op)]), Sent(c, compat),
                               Execute(c).body))
          /\ meant' = [meant EXCEPT ![t] = c.got \o Means(c, compat)]
  BY DEF Serve, Sent, Means
<1>2. compat \in BOOLEAN /\ (c.op = "getAll" => ~compat)
  <2>1. CASE compat = FALSE
    BY <2>1
  <2>2. CASE compat = (c.op \in CompatOps)
    <3>1. compat \in BOOLEAN
      BY <2>2
    <3>2. c.op = "getAll" => ~(c.op \in CompatOps)
      BY DEF ServerKeepsToProtocol
    <3>3. c.op = "getAll" => ~compat
      BY <2>2, <3>2, Zenon
    <3>4. QED
      BY <3>1, <3>3
  <2>3. QED
    BY <2>1, <2>2
<1>3. c \in CallType /\ CallPart(c) /\ StoreOK /\ unread[t] = <<>>
  BY RequestFacts DEF Requests
<1>4. Asks(c) /\ c.id \in Nat /\ c.got \in Seq(Data)
  BY <1>3, RequestAsks DEF CallType
<1>5. PICK s \in Seq(Data), v \in Seq(Data) :
          /\ s = Response(c.id, toOpRespCode(OpCode[Wire(c.op)]), Sent(c, compat),
                          Execute(c).body)
          /\ v = Means(c, compat)
          /\ Carries(c, s, v)
  BY <1>2, <1>3, <1>4, ResponseIsRead
<1>6. Sends(t, s)
  BY <1>1, <1>5
<1>7. unread' = [unread EXCEPT ![t] = s]
  BY <1>3, <1>6, SendsToEmpty
<1>8. PICK m \in Seq(Data) : m = c.got \o v
  BY <1>4, ConcatProperties
<1>9. meant' = [meant EXCEPT ![t] = m]
  BY <1>1, <1>5, <1>8
<1>10. PICK a \in Nat :
          /\ applied' = [applied EXCEPT ![t] = a]
          /\ \A x : (Done(c) \/ x = meant[t] \/ x # << 1 >>) =>
                    VersionPart("sent", c, x, a, store', nextVersion')
  BY <1>1, ExecutesFacts
<1>11. StoreMoves /\ StoreOK'
  BY <1>1, ExecutesFacts
<1>12. UnreadPart("sent", c, s, m)
  BY <1>5, <1>8 DEF UnreadPart
<1>13. VersionPart("sent", c, m, a, store', nextVersion')
  <2>1. CASE c.op \notin Versioned
    BY <2>1 DEF VersionPart
  <2>2. CASE c.op \in Versioned
    <3>1. c.got = <<>>
      BY <1>3, <2>2 DEF CallPart, Versioned
    <3>2. m = v
      BY <1>8, <3>1, ConcatEmptySeq
    <3>3. m = << 1 >> => Done(c)
      BY <1>2, <1>3, <1>5, <2>2, <3>2, VersionedMeans
    <3>4. QED
      BY <1>10, <3>3
  <2>3. QED
    BY <2>1, <2>2
<1>14. QED
  BY <1>7, <1>9, <1>10, <1>11, <1>12, <1>13, SendingKeeps

\* An error response, or none.
LEMMA RefusalKeeps ==
    ASSUME CacheInv, ServerKeepsToProtocol, NEW t \in Thread, NEW c, Requests(t, c),
           ServeError(t, c) \/ Lose(t)
    PROVE  CacheInv'
<1>1. c \in CallType /\ CallPart(c) /\ StoreOK /\ unread[t] = <<>>
  BY RequestFacts DEF Requests
<1>2. PICK m \in Seq(Data), a \in Nat : m = meant[t] /\ a = applied[t]
  BY DEF CacheInv, Types
<1>3. VersionPart("ready", c, m, a, store, nextVersion)
  BY <1>2, RequestFacts
<1>4. ASSUME UNCHANGED meant PROVE meant' = [meant EXCEPT ![t] = m]
  BY <1>2, <1>4 DEF CacheInv, Types
<1>5. ASSUME UNCHANGED <<store, nextVersion, applied>>
      PROVE  /\ StoreMoves /\ StoreOK' /\ applied' = [applied EXCEPT ![t] = a]
             /\ VersionPart("sent", c, m, a, store', nextVersion')
  <2>1. StoreMoves /\ StoreOK'
    BY <1>5, StoreStays DEF CacheInv
  <2>2. applied' = [applied EXCEPT ![t] = a]
    BY <1>2, <1>5 DEF CacheInv, Types
  <2>3. VersionPart("sent", c, m, a, store', nextVersion')
    BY <1>3, <1>5 DEF VersionPart
  <2>4. QED
    BY <2>1, <2>2, <2>3
<1>6. CASE Lose(t)
  <2>1. UNCHANGED <<unread, store, nextVersion, meant, applied>>
    BY <1>6 DEF Lose, server
  <2>2. unread' = [unread EXCEPT ![t] = <<>>]
    BY <1>1, <2>1 DEF CacheInv, Types
  <2>3. UnreadPart("sent", c, <<>>, m) /\ <<>> \in Seq(Data)
    BY DEF UnreadPart
  <2>4. QED
    BY <1>4, <1>5, <2>1, <2>2, <2>3, SendingKeeps
<1>7. CASE ServeError(t, c)
  <2>1. PICK status \in ErrorStatus :
          /\ Sends(t, Response(c.id, ERROR_RESPONSE, status, <<Message>>))
          /\ UNCHANGED <<store, nextVersion, applied>> \/ (Done(c) /\ Executes(t, c))
    BY <1>7 DEF ServeError
  <2>2. UNCHANGED meant
    BY <1>7 DEF ServeError
  <2>3. c.op \in Ops /\ c.id \in Nat
    BY <1>1, RequestAsks
  <2>4. PICK s \in Seq(Data) : /\ s = Response(c.id, ERROR_RESPONSE, status, <<Message>>)
                               /\ Refuses(c, s)
    BY <2>3, ErrorIsRead DEF ServerKeepsToProtocol
  <2>5. Sends(t, s)
    BY <2>1, <2>4
  <2>6. unread' = [unread EXCEPT ![t] = s]
    BY <1>1, <2>5, SendsToEmpty
  <2>7. UnreadPart("sent", c, s, m)
    BY <2>4 DEF UnreadPart
  <2>8. CASE UNCHANGED <<store, nextVersion, applied>>
    BY <1>4, <1>5, <2>2, <2>6, <2>7, <2>8, SendingKeeps
  <2>9. CASE Done(c) /\ Executes(t, c)
    <3>1. PICK b \in Nat :
            /\ applied' = [applied EXCEPT ![t] = b]
            /\ \A x : (Done(c) \/ x = meant[t] \/ x # << 1 >>) =>
                      VersionPart("sent", c, x, b, store', nextVersion')
      BY <2>9, ExecutesFacts
    <3>2. StoreMoves /\ StoreOK'
      BY <2>9, ExecutesFacts
    <3>3. VersionPart("sent", c, m, b, store', nextVersion')
      BY <2>9, <3>1
    <3>4. QED
      BY <1>4, <2>2, <2>6, <2>7, <3>1, <3>2, <3>3, SendingKeeps
  <2>10. QED
    BY <2>1, <2>8, <2>9
<1>8. QED
  BY <1>6, <1>7

\* The request is written, and the server does with it what it does.
LEMMA WriteRequestKeeps ==
    ASSUME CacheInv, ServerKeepsToProtocol, NEW t \in Thread, writeRequest(t)
    PROVE  CacheInv'
<1>1. PICK c : c = [call[t] EXCEPT !.id = msgId + 1]
  OBVIOUS
<1>2. /\ pc[t] = "ready" /\ pc' = [pc EXCEPT ![t] = "sent"] /\ msgId' = msgId + 1
      /\ call' = [call EXCEPT ![t] = c]
      /\ Serve(t, c) \/ ServeError(t, c) \/ Lose(t)
      /\ UNCHANGED <<flags, wanted, report>>
  BY <1>1 DEF writeRequest, client
<1>3. call[t] \in CallType /\ CallPart(call[t]) /\ msgId \in Nat
  BY DEF CacheInv, Types, Part
<1>4. msgId + 1 \in Nat
  BY <1>3
<1>5. /\ c \in CallType /\ c.op = call[t].op /\ c.key = call[t].key
      /\ c.version = call[t].version /\ c.rest = call[t].rest /\ c.got = call[t].got
  BY <1>1, <1>3, <1>4 DEF CallType
<1>6. CallPart(c)
  BY <1>3, <1>5 DEF CallPart
<1>7. Requests(t, c)
  BY <1>2, <1>4, <1>5, <1>6 DEF Requests
<1>8. QED
  BY <1>2, <1>7, ServeKeeps, RefusalKeeps

\* A failed try: the call ends with an exception, or is tried again.
LEMMA FailureKeeps ==
    ASSUME CacheInv, NEW t \in Thread, pc[t] = "sent", logErrorAndThrowExceptionIfNeeded(t),
           unread' = [unread EXCEPT ![t] = <<>>], UNCHANGED <<flags, wanted, msgId>>
    PROVE  CacheInv'
<1>1. /\ call[t] \in CallType /\ CallPart(call[t]) /\ call \in [Thread -> CallType]
      /\ flags' \in [Cache -> SUBSET Flag] /\ wanted' \in [Cache -> SUBSET Flag]
  BY DEF CacheInv, Types, Part
<1>2. CASE Return(t, FALSE, <<>>)
  <2>1. <<>> \in Seq(Data)
    OBVIOUS
  <2>2. QED
    BY <1>1, <1>2, <2>1, ReturnKeeps
<1>3. CASE pc' = [pc EXCEPT ![t] = "ready"] /\ UNCHANGED <<call, report, server>>
  <2>1. PICK c : c = call[t]
    OBVIOUS
  <2>2. call' = [call EXCEPT ![t] = c]
    BY <1>1, <1>3, <2>1
  <2>3. UNCHANGED <<report, store, nextVersion, meant, applied>>
    BY <1>3 DEF server
  <2>4. QED
    BY <1>1, <1>3, <2>1, <2>2, <2>3, GoesOn
<1>4. QED
  BY <1>2, <1>3 DEF logErrorAndThrowExceptionIfNeeded

\* A response that carries v is taken: the call ends with it, or goes on.
LEMMA ContinueKeeps ==
    ASSUME CacheInv, NEW t \in Thread, pc[t] = "sent", NEW v \in Seq(Data),
           meant[t] = call[t].got \o v, Continue(t, v),
           unread' = [unread EXCEPT ![t] = <<>>], UNCHANGED <<flags, wanted, msgId>>
    PROVE  CacheInv'
<1>1. /\ call[t] \in CallType /\ CallPart(call[t]) /\ call \in [Thread -> CallType]
      /\ flags' \in [Cache -> SUBSET Flag] /\ wanted' \in [Cache -> SUBSET Flag]
      /\ meant[t] \in Seq(Data)
  BY DEF CacheInv, Types, Part
<1>2. PICK c : c = call[t]
  OBVIOUS
<1>3. PICK rest : rest = IF c.op = "getAll" THEN c.rest \ GetAllKeys(c.rest) ELSE c.rest
  OBVIOUS
<1>4. PICK got : got = IF c.op = "getAll" THEN c.got \o v ELSE <<>>
  OBVIOUS
<1>5. rest \in SUBSET Key /\ got \in Seq(Data)
  <2>1. c.got \in Seq(Data) /\ c.rest \in SUBSET Key
    BY <1>1, <1>2 DEF CallType
  <2>2. c.got \o v \in Seq(Data)
    BY <2>1, ConcatProperties
  <2>3. QED
    BY <1>3, <1>4, <2>1, <2>2
<1>6. CASE rest = {}
  <2>1. PICK ret : ret = CASE c.op = "putAll" -> <<>> [] c.op = "getAll" -> got [] OTHER -> v
    OBVIOUS
  <2>2. Return(t, TRUE, ret)
    BY <1>2, <1>3, <1>4, <1>6, <2>1 DEF Continue
  <2>3. ret \in Seq(Data)
    BY <1>5, <2>1
  <2>4. c.op # "putAll" => ret = meant[t]
    <3>1. CASE c.op = "getAll"
      BY <1>2, <1>4, <2>1, <3>1
    <3>2. CASE c.op \notin {"putAll", "getAll"}
      <4>1. c.got = <<>> /\ ret = v
        BY <1>1, <1>2, <2>1, <3>2 DEF CallPart
      <4>2. <<>> \o v = v
        BY ConcatEmptySeq
      <4>3. QED
        BY <1>2, <4>1, <4>2
    <3>3. QED
      BY <3>1, <3>2
  <2>5. QED
    BY <1>1, <1>2, <2>2, <2>3, <2>4, ReturnKeeps
<1>7. CASE rest # {}
  <2>1. c.op \in {"putAll", "getAll"}
    BY <1>1, <1>2, <1>3, <1>7 DEF CallPart
  <2>2. PICK next \in rest : next = CHOOSE k \in rest : TRUE
    BY <1>7
  <2>3. toSeconds(c.asked) \in Nat
    BY <1>1, <1>2, SecondsType DEF CallType
  <2>4. PICK d : d = IF c.op = "getAll" THEN [c EXCEPT !.rest = rest, !.got = got]
                     ELSE [c EXCEPT !.rest = rest \ {next}, !.key = next,
                                    !.life = toSeconds(c.asked)]
    OBVIOUS
  <2>5. PICK p : p = IF c.op = "getAll" THEN "marshalled" ELSE "called"
    OBVIOUS
  <2>6. /\ pc' = [pc EXCEPT ![t] = p] /\ call' = [call EXCEPT ![t] = d]
        /\ UNCHANGED <<report, server>>
    BY <1>2, <1>3, <1>4, <1>7, <2>2, <2>4, <2>5, ZenonT(30) DEF Continue
  <2>7. c \in CallType
    BY <1>1, <1>2
  <2>8. /\ d \in CallType /\ d.op = c.op /\ (c.op # "getAll" => d.got = c.got)
    <3>1. CASE c.op = "getAll"
      BY <1>5, <2>4, <2>7, <3>1 DEF CallType
    <3>2. CASE c.op # "getAll"
      <4>1. next \in Key /\ rest \ {next} \in SUBSET Key
        BY <1>5, <2>2
      <4>2. d = [c EXCEPT !.rest = rest \ {next}, !.key = next, !.life = toSeconds(c.asked)]
        BY <2>4, <3>2
      <4>3. QED
        BY <2>3, <2>7, <4>1, <4>2 DEF CallType
    <3>3. QED
      BY <3>1, <3>2
  <2>9. CallPart(d)
    BY <1>1, <1>2, <2>1, <2>8 DEF CallPart
  <2>10. UNCHANGED <<report, store, nextVersion, meant, applied>>
    BY <2>6 DEF server
  <2>11. d.op \notin Versioned /\ (p = "called" => d.op = "putAll")
         /\ p \in {"called", "marshalled", "ready"}
    BY <2>1, <2>5, <2>8 DEF Versioned
  <2>12. QED
    BY <1>1, <1>2, <2>6, <2>8, <2>9, <2>10, <2>11, GoesOn
<1>8. QED
  BY <1>6, <1>7

\* The response is read, or not waited for.
LEMMA ReadingKeeps ==
    ASSUME CacheInv, NEW t \in Thread, readAnswer(t) \/ transportException(t)
    PROVE  CacheInv'
<1>1. CASE transportException(t)
  <2>1. /\ pc[t] = "sent" /\ logErrorAndThrowExceptionIfNeeded(t)
        /\ unread' = [unread EXCEPT ![t] = <<>>] /\ UNCHANGED <<flags, wanted, msgId>>
    BY <1>1 DEF transportException, invalidateTransport, client
  <2>2. QED
    BY <2>1, FailureKeeps
<1>2. CASE readAnswer(t)
  <2>1. PICK s \in Seq(Data), c \in CallType : s = unread[t] /\ c = call[t]
    BY DEF CacheInv, Types
  <2>2. PICK r : r = readResponse(Wire(c.op), s, c.id)
    OBVIOUS
  <2>3. /\ pc[t] = "sent" /\ s # <<>>
        /\ releaseTransport(t, r.reads, ~(r.throws /\ invalidates(At(s, 4))))
        /\ IF r.throws THEN logErrorAndThrowExceptionIfNeeded(t) ELSE Continue(t, r.ret)
        /\ UNCHANGED <<flags, wanted, msgId>>
    BY <1>2, <2>1, <2>2 DEF readAnswer, client
  <2>4. \/ \E v \in Seq(Data) : meant[t] = c.got \o v /\ Carries(c, s, v)
        \/ Refuses(c, s)
    BY <2>1, <2>3 DEF CacheInv, Part, UnreadPart
  <2>5. SubSeq(s, Len(s) + 1, Len(s)) = <<>>
    OBVIOUS
  <2>6. ASSUME r.reads = Len(s) PROVE unread' = [unread EXCEPT ![t] = <<>>]
    <3>1. unread' = [unread EXCEPT ![t] = IF ~(r.throws /\ invalidates(At(s, 4)))
                                          THEN SubSeq(unread[t], r.reads + 1, Len(unread[t]))
                                          ELSE <<>>]
      BY <2>3 DEF releaseTransport
    <3>2. QED
      BY <2>1, <2>5, <2>6, <3>1
  <2>7. CASE Refuses(c, s)
    <3>1. r = Throws(Len(s))
      BY <2>2, <2>7 DEF Refuses
    <3>2. r.reads = Len(s) /\ r.throws = TRUE
      BY <3>1 DEF Throws
    <3>3. QED
      BY <2>3, <2>6, <3>2, FailureKeeps
  <2>8. ASSUME NEW v \in Seq(Data), meant[t] = c.got \o v, Carries(c, s, v) PROVE CacheInv'
    <3>1. r = Returns(Len(s), v)
      BY <2>2, <2>8 DEF Carries
    <3>2. r.reads = Len(s) /\ r.ret = v /\ r.throws = FALSE
      BY <3>1, ChangedResult
    <3>3. Continue(t, v)
      BY <2>3, <3>2
    <3>4. QED
      BY <2>1, <2>3, <2>6, <2>8, <3>2, <3>3, ContinueKeeps
  <2>9. QED
    BY <2>4, <2>7, <2>8
<1>3. QED
  BY <1>1, <1>2

\* The invariant holds at the start.
LEMMA InitKeeps ==
    ASSUME Init
    PROVE  CacheInv
<1>1. StoreOK
  <2>1. CASE store = [k \in Key |-> <<>>]
    BY <2>1 DEF Init, StoreOK
  <2>2. CASE store # [k \in Key |-> <<>>]
    <3>1. PICK e : e = [val |-> CHOOSE v \in Value : TRUE, version |-> 1, life |-> 0, idle |-> 0]
      OBVIOUS
    <3>2. (CHOOSE v \in Value : TRUE) \in Value
      BY CallersAssumption
    <3>3. e \in Entry /\ e.version = 1
      BY <3>1, <3>2 DEF Entry
    <3>4. store = [k \in Key |-> IF k = NoCall.key THEN <<e>> ELSE <<>>]
      BY <2>2, <3>1 DEF Init
    <3>5. <<e>> \in {<<x>> : x \in Entry} /\ <<e>>[1] = e
      BY <3>3
    <3>6. store \in [Key -> {<<>>} \cup {<<x>> : x \in Entry}]
      BY <3>4, <3>5
    <3>7. \A k \in Key : store[k] # <<>> => store[k][1].version < 2
      BY <3>3, <3>4, <3>5
    <3>8. QED
      BY <3>6, <3>7 DEF Init, StoreOK
  <2>3. QED
    BY <2>1, <2>2
<1>2. Types
  <2>1. <<>> \in Seq(Data)
    OBVIOUS
  <2>2. QED
    BY <1>1, <2>1, NoCallType DEF Init, Types
<1>3. ASSUME NEW t \in Thread PROVE Part(t)
  <2>1. /\ pc[t] = "idle" /\ call[t] = NoCall /\ unread[t] = <<>> /\ meant[t] = <<>>
        /\ applied[t] = 0 /\ report[t] = NoReport
    BY DEF Init
  <2>2. /\ MeantPart("idle", NoCall, <<>>, 0) /\ UnreadPart("idle", NoCall, <<>>, <<>>)
        /\ VersionPart("idle", NoCall, <<>>, 0, store, nextVersion)
    BY DEF MeantPart, UnreadPart, VersionPart
  <2>3. QED
    BY <2>1, <2>2, NoCallType DEF Part
<1>4. QED
  BY <1>2, <1>3 DEF CacheInv

\* Every step keeps the invariant.
LEMMA NextKeeps ==
    ASSUME CacheInv, ServerKeepsToProtocol, [Next]_vars
    PROVE  CacheInv'
<1>1. CASE UNCHANGED vars
  BY <1>1, NothingKeeps DEF vars, CacheInv, Types
<1>2. CASE Next
  BY <1>2, APIKeeps, OtherClientKeeps, MakingKeeps, WriteRequestKeeps, ReadingKeeps DEF Next
<1>3. QED
  BY <1>1, <1>2

-----------------------------------------------------------------------------
(* Theorems *)

\* The invariant, of a server that keeps to the protocol.
THEOREM CacheInvariant ==
    ASSUME ServerKeepsToProtocol
    PROVE  Spec => []CacheInv
<1>1. Init => CacheInv
  BY InitKeeps
<1>2. CacheInv /\ [Next]_vars => CacheInv'
  BY NextKeeps
<1>3. QED
  BY <1>1, <1>2, PTL DEF Spec

\* Whatever is lost, late, refused or tried again, an operation leaves no token of its
\* response in the connection that the next one uses (readHeader,
\* checkForErrorsInResponseStatus, releaseTransport, invalidateTransport).
THEOREM ConnectionsStayInSync ==
    ASSUME ServerKeepsToProtocol
    PROVE  Spec => []InSync
<1>1. CacheInv => InSync
  BY DEF CacheInv, Part, UnreadPart, InSync
<1>2. QED
  BY <1>1, CacheInvariant, PTL

\* Every call that returns, returns what the server's last execution of it came to
\* (executeOperation of every operation, with the retries).
THEOREM CallsAreAnswered ==
    ASSUME ServerKeepsToProtocol
    PROVE  Spec => []AnswersTheCall
<1>1. CacheInv => AnswersTheCall
  BY DEF CacheInv, Part, ReportPart, AnswersTheCall
<1>2. QED
  BY <1>1, CacheInvariant, PTL

\* A versioned operation that returns true was applied once, although requests without a
\* response are repeated: the change makes the version disappear, and versions do not
\* come back.
THEOREM VersionedChangesAreMadeOnce ==
    ASSUME ServerKeepsToProtocol
    PROVE  Spec => []VersionedTrueIsAppliedOnce
<1>1. CacheInv => VersionedTrueIsAppliedOnce
  BY DEF CacheInv, Part, ReportPart, VersionedTrueIsAppliedOnce, Versioned
<1>2. QED
  BY <1>1, CacheInvariant, PTL

-----------------------------------------------------------------------------
(* The times that the callers ask for *)

\* No cache is used by two threads: the flags of a cache are shared without a lock, and
\* one thread's operation may take those of another's.
OneThreadPerCache == \A t, u \in Thread : CacheOf[t] = CacheOf[u] => t = u

\* The flags of the cache are those that withFlags set and, between marshall and
\* newOperation, those for the default times.
FlagsPart(p, c, fs, ws) ==
    fs = IF p = "marshalled" THEN ws \cup applyDefaultExpirationFlags(c) ELSE ws

\* The operation has the seconds that were asked for, before they are cut to 32 bits, and
\* the flag for the default if they are 0.
LifePart(p, c) ==
    c.op \in PutFamily /\ ~c.unitOnly =>
        /\ p \in {"called", "marshalled"} => c.life = toSeconds(c.asked)
        /\ p \in {"ready", "sent"} =>
            /\ c.life = toSeconds(c.asked) % UInt32
            /\ "DEFAULT_LIFESPAN" \in c.flags
                  <=> toSeconds(c.asked) = 0 \/ "DEFAULT_LIFESPAN" \in c.wanted

\* The manager was started, which resets the flags, before flags were added to them.
StartedPart(p, c, st) == p = "marshalled" /\ c.op \in PutFamily => st

Honour(t) ==
    /\ FlagsPart(pc[t], call[t], flags[CacheOf[t]], wanted[CacheOf[t]])
    /\ LifePart(pc[t], call[t])
    /\ StartedPart(pc[t], call[t], started)

HonourInv == \A t \in Thread : Honour(t)

\* A step of thread t that leaves the other threads and their caches alone.
OwnCache(t) ==
    /\ started' = started
    /\ \A u \in Thread \ {t} : pc'[u] = pc[u] /\ call'[u] = call[u]
    /\ \A c \in Cache \ {CacheOf[t]} : flags'[c] = flags[c] /\ wanted'[c] = wanted[c]

\* The other threads keep their part.
LEMMA HonourStep ==
    ASSUME HonourInv, OneThreadPerCache, NEW t \in Thread, OwnCache(t), Honour(t)'
    PROVE  HonourInv'
<1>1. ASSUME NEW u \in Thread \ {t} PROVE Honour(u)'
  <2>1. CacheOf[u] \in Cache \ {CacheOf[t]}
    BY CallersAssumption DEF OneThreadPerCache
  <2>2. /\ pc'[u] = pc[u] /\ call'[u] = call[u] /\ started' = started
        /\ flags'[CacheOf[u]] = flags[CacheOf[u]] /\ wanted'[CacheOf[u]] = wanted[CacheOf[u]]
    BY <2>1 DEF OwnCache
  <2>3. Honour(u)
    BY DEF HonourInv
  <2>4. QED
    BY <2>2, <2>3 DEF Honour
<1>2. QED
  BY <1>1 DEF HonourInv

\* A step of thread t that leaves the flags alone, from a state in which they are those of
\* withFlags to another.
LEMMA HonourPlain ==
    ASSUME Types, HonourInv, OneThreadPerCache, NEW t \in Thread,
           NEW p \in {"idle", "called", "ready", "sent"}, NEW c,
           pc[t] # "marshalled", pc' = [pc EXCEPT ![t] = p], call' = [call EXCEPT ![t] = c],
           UNCHANGED <<started, flags, wanted>>, LifePart(p, c)
    PROVE  HonourInv'
<1>1. /\ pc'[t] = p /\ call'[t] = c /\ \A u \in Thread \ {t} : pc'[u] = pc[u] /\ call'[u] = call[u]
  BY DEF Types
<1>2. OwnCache(t)
  BY <1>1 DEF OwnCache
<1>3. flags[CacheOf[t]] = wanted[CacheOf[t]]
  BY DEF HonourInv, Honour, FlagsPart
<1>4. FlagsPart(p, c, flags[CacheOf[t]], wanted[CacheOf[t]])
  BY <1>3 DEF FlagsPart
<1>5. StartedPart(p, c, started)
  BY DEF StartedPart
<1>6. Honour(t)'
  BY <1>1, <1>4, <1>5 DEF Honour
<1>7. QED
  BY <1>2, <1>6, HonourStep

\* A call begins.
LEMMA HonourCall ==
    ASSUME Types, HonourInv, OneThreadPerCache, NEW t \in Thread, NEW c, Call(t, c),
           c.op \in PutFamily /\ ~c.unitOnly => c.life = toSeconds(c.asked)
    PROVE  HonourInv'
<1>1. /\ pc[t] = "idle" /\ pc' = [pc EXCEPT ![t] = "called"] /\ call' = [call EXCEPT ![t] = c]
      /\ UNCHANGED <<started, flags, wanted>>
  BY DEF Call, client
<1>2. LifePart("called", c)
  BY DEF LifePart
<1>3. QED
  BY <1>1, <1>2, HonourPlain

\* Nothing of it changes.
LEMMA HonourUnchanged ==
    ASSUME HonourInv, UNCHANGED <<started, flags, wanted, pc, call>>
    PROVE  HonourInv'
<1>1. ASSUME NEW u \in Thread PROVE Honour(u)'
  BY DEF HonourInv, Honour
<1>2. QED
  BY <1>1 DEF HonourInv

\* Every method of the API.
LEMMA HonourAPI ==
    ASSUME Types, HonourInv, OneThreadPerCache, NEW t \in Thread, API(t)
    PROVE  HonourInv'
<1>1. ASSUME NEW op, op \notin PutFamily, KeyCall(t, op) PROVE HonourInv'
  <2>1. PICK k \in Key, cb \in BOOLEAN :
            Call(t, [NoCall EXCEPT !.op = op, !.key = k, !.callback = cb])
    BY <1>1 DEF KeyCall, WithCallback
  <2>2. PICK c : c = [NoCall EXCEPT !.op = op, !.key = k, !.callback = cb]
    OBVIOUS
  <2>3. c.op = op
    BY <2>2, NoCallType DEF CallType
  <2>4. QED
    BY <1>1, <2>1, <2>2, <2>3, HonourCall
<1>2. ASSUME NEW op, op \notin PutFamily, CacheCall(t, op) PROVE HonourInv'
  <2>1. PICK c : c = [NoCall EXCEPT !.op = op]
    OBVIOUS
  <2>2. c.op = op
    BY <2>1, NoCallType DEF CallType
  <2>3. QED
    BY <1>2, <2>1, <2>2, HonourCall DEF CacheCall
<1>3. ASSUME NEW op, NEW versions, ValueCall(t, op, versions) PROVE HonourInv'
  <2>1. PICK k \in Key, v \in Value, n \in versions, d \in Duration, cb \in BOOLEAN,
             idle \in {Zero} \cup Duration :
            Call(t, [NoCall EXCEPT !.op = op, !.key = k, !.val = v, !.version = n,
                                   !.life = toSeconds(d), !.idle = toSeconds(idle),
                                   !.callback = cb, !.asked = d])
    BY <1>3, ZenonT(30) DEF ValueCall, WithCallback
  <2>2. PICK c : c = [NoCall EXCEPT !.op = op, !.key = k, !.val = v, !.version = n,
                                   !.life = toSeconds(d), !.idle = toSeconds(idle),
                                   !.callback = cb, !.asked = d]
    OBVIOUS
  <2>3. c.life = toSeconds(d) /\ c.asked = d
    BY <2>2, NoCallType DEF CallType
  <2>4. QED
    BY <2>1, <2>2, <2>3, HonourCall
<1>4. CASE \/ get(t) \/ remove(t) \/ containsKey(t) \/ getWithVersion(t) \/ getWithMetadata(t)
  BY <1>1, <1>4 DEF get, remove, containsKey, getWithVersion, getWithMetadata, PutFamily
<1>5. CASE \/ getBulk(t) \/ execute(t) \/ query(t) \/ keySet(t) \/ size(t) \/ stats(t)
           \/ clear(t) \/ ping(t)
  BY <1>2, <1>5 DEF getBulk, execute, query, keySet, size, stats, clear, ping, PutFamily
<1>6. CASE put(t) \/ putIfAbsent(t) \/ replace(t) \/ replaceWithVersion(t)
  BY <1>3, <1>6 DEF put, putIfAbsent, replace, replaceWithVersion
<1>7. CASE getAll(t)
  <2>1. PICK ks \in SUBSET Key : Call(t, [NoCall EXCEPT !.op = "getAll", !.rest = ks])
    BY <1>7 DEF getAll
  <2>2. PICK c : c = [NoCall EXCEPT !.op = "getAll", !.rest = ks]
    OBVIOUS
  <2>3. c.op = "getAll"
    BY <2>2, NoCallType DEF CallType
  <2>4. QED
    BY <2>1, <2>2, <2>3, HonourCall DEF PutFamily
<1>8. CASE putAsyncWithUnit(t)
  <2>1. PICK k \in Key, v \in Value, d \in Duration, cb \in BOOLEAN :
          Call(t, [NoCall EXCEPT !.op = "put", !.key = k, !.val = v, !.life = d[1],
                                 !.idle = TimeUnit[d[2]], !.callback = cb, !.asked = d,
                                 !.unitOnly = TRUE])
    BY <1>8 DEF putAsyncWithUnit, WithCallback
  <2>2. PICK c : c = [NoCall EXCEPT !.op = "put", !.key = k, !.val = v, !.life = d[1],
                                    !.idle = TimeUnit[d[2]], !.callback = cb, !.asked = d,
                                    !.unitOnly = TRUE]
    OBVIOUS
  <2>3. c.unitOnly = TRUE
    BY <2>2, NoCallType DEF CallType
  <2>4. QED
    BY <2>1, <2>2, <2>3, HonourCall
<1>9. CASE putAll(t)
  <2>1. PICK ks \in SUBSET Key, v \in Value, d \in Duration :
          Call(t, [NoCall EXCEPT !.op = "putAll", !.key = CHOOSE k \in ks : TRUE, !.val = v,
                                 !.rest = ks \ {CHOOSE k \in ks : TRUE},
                                 !.life = toSeconds(d), !.asked = d])
    BY <1>9 DEF putAll
  <2>2. PICK c : c = [NoCall EXCEPT !.op = "putAll", !.key = CHOOSE k \in ks : TRUE, !.val = v,
                                    !.rest = ks \ {CHOOSE k \in ks : TRUE},
                                    !.life = toSeconds(d), !.asked = d]
    OBVIOUS
  <2>3. c.life = toSeconds(d) /\ c.asked = d
    BY <2>2, NoCallType DEF CallType
  <2>4. QED
    BY <2>1, <2>2, <2>3, HonourCall
<1>10. CASE removeWithVersion(t)
  <2>1. PICK k \in Key, n \in 1 .. nextVersion - 1, cb \in BOOLEAN :
          Call(t, [NoCall EXCEPT !.op = "removeWithVersion", !.key = k, !.version = n,
                                 !.callback = cb])
    BY <1>10 DEF removeWithVersion, WithCallback
  <2>2. PICK c : c = [NoCall EXCEPT !.op = "removeWithVersion", !.key = k, !.version = n,
                                    !.callback = cb]
    OBVIOUS
  <2>3. c.op = "removeWithVersion"
    BY <2>2, NoCallType DEF CallType
  <2>4. QED
    BY <2>1, <2>2, <2>3, HonourCall DEF PutFamily
<1>11. CASE goAsync(t)
  BY <1>11, HonourUnchanged DEF goAsync, client
<1>12. CASE withFlags(t)
  <2>1. PICK f \in Flag : /\ flags' = [flags EXCEPT ![CacheOf[t]] = {f}]
                          /\ wanted' = [wanted EXCEPT ![CacheOf[t]] = {f}]
    BY <1>12 DEF withFlags
  <2>2. pc[t] = "idle" /\ UNCHANGED <<started, pc, call>>
    BY <1>12 DEF withFlags
  <2>3. OwnCache(t)
    BY <2>1, <2>2 DEF OwnCache, Types
  <2>4. flags'[CacheOf[t]] = {f} /\ wanted'[CacheOf[t]] = {f}
    BY <2>1, CallersAssumption DEF Types
  <2>5. FlagsPart(pc[t], call[t], {f}, {f})
    BY <2>2 DEF FlagsPart
  <2>6. Honour(t)'
    BY <2>2, <2>4, <2>5 DEF Honour, HonourInv
  <2>7. QED
    BY <2>3, <2>6, HonourStep
<1>13. QED
  BY <1>4, <1>5, <1>6, <1>7, <1>8, <1>9, <1>10, <1>11, <1>12 DEF API

\* A call ends.
LEMMA HonourReturn ==
    ASSUME Types, HonourInv, OneThreadPerCache, NEW t \in Thread, NEW ok, NEW ret,
           Return(t, ok, ret), pc[t] # "marshalled", UNCHANGED <<started, flags, wanted>>
    PROVE  HonourInv'
<1>1. pc' = [pc EXCEPT ![t] = "idle"] /\ call' = [call EXCEPT ![t] = NoCall]
  BY DEF Return
<1>2. LifePart("idle", NoCall)
  BY DEF LifePart
<1>3. QED
  BY <1>1, <1>2, HonourPlain

\* The flags are completed, and the operation is made with them.
LEMMA HonourMaking ==
    ASSUME Types, HonourInv, OneThreadPerCache, NEW t \in Thread,
           NotStarted(t) \/ marshall(t) \/ newOperation(t)
    PROVE  HonourInv'
<1>1. /\ Honour(t) /\ CacheOf[t] \in Cache /\ call[t] \in CallType
      /\ flags \in [Cache -> SUBSET Flag] /\ wanted \in [Cache -> SUBSET Flag]
      /\ pc \in [Thread -> {"idle", "called", "marshalled", "ready", "sent"}]
      /\ call \in [Thread -> CallType]
  BY CallersAssumption DEF HonourInv, Types
<1>2. CASE NotStarted(t)
  BY <1>2, HonourReturn DEF NotStarted, client
<1>3. CASE marshall(t)
  <2>1. /\ pc[t] = "called" /\ started' = started /\ wanted' = wanted
        /\ assertRemoteCacheManagerIsStarted(t)
        /\ flags' = [flags EXCEPT ![CacheOf[t]] = @ \cup applyDefaultExpirationFlags(call[t])]
    BY <1>3 DEF marshall
  <2>2. PICK c : c = call[t]
    OBVIOUS
  <2>3. PICK fs, ws : fs = flags[CacheOf[t]] /\ ws = wanted[CacheOf[t]]
    OBVIOUS
  <2>4. fs = ws /\ fs \in SUBSET Flag
    BY <1>1, <2>1, <2>3 DEF Honour, FlagsPart
  <2>5. CASE c.op = "getAll" /\ c.rest = {}
    <3>1. applyDefaultExpirationFlags(c) = {}
      BY <2>5 DEF applyDefaultExpirationFlags, PutFamily
    <3>2. flags' = flags
      BY <1>1, <2>1, <2>2, <3>1
    <3>3. Return(t, TRUE, <<>>)
      BY <1>3, <2>2, <2>5 DEF marshall
    <3>4. QED
      BY <2>1, <3>2, <3>3, HonourReturn
  <2>6. CASE ~(c.op = "getAll" /\ c.rest = {})
    <3>1. pc' = [pc EXCEPT ![t] = "marshalled"] /\ UNCHANGED call
      BY <1>3, <2>2, <2>6 DEF marshall
    <3>2. OwnCache(t)
      BY <1>1, <2>1, <3>1 DEF OwnCache
    <3>3. /\ pc'[t] = "marshalled" /\ call'[t] = c /\ wanted'[CacheOf[t]] = ws
          /\ flags'[CacheOf[t]] = fs \cup applyDefaultExpirationFlags(c)
      BY <1>1, <2>1, <2>2, <2>3, <3>1
    <3>4. FlagsPart("marshalled", c, fs \cup applyDefaultExpirationFlags(c), ws)
      BY <2>4 DEF FlagsPart
    <3>5. LifePart("marshalled", c)
      BY <1>1, <2>1, <2>2 DEF Honour, LifePart
    <3>6. StartedPart("marshalled", c, started)
      BY <2>1, <2>2 DEF StartedPart, assertRemoteCacheManagerIsStarted, PutFamily
    <3>7. Honour(t)'
      BY <2>1, <3>3, <3>4, <3>5, <3>6 DEF Honour
    <3>8. QED
      BY <3>2, <3>7, HonourStep
  <2>7. QED
    BY <2>5, <2>6
<1>4. CASE newOperation(t)
  <2>1. PICK fs, ws : fs = flags[CacheOf[t]] /\ ws = wanted[CacheOf[t]]
    OBVIOUS
  <2>2. PICK old : old = call[t]
    OBVIOUS
  <2>3. PICK gs : gs = IF old.op = "ping" THEN {}
                       ELSE fs \cup {f \in {"FORCE_RETURN_VALUE"} : ForceReturnValue}
    OBVIOUS
  <2>4. PICK c : c = [old EXCEPT !.flags = gs, !.life = @ % UInt32, !.idle = @ % UInt32,
                                 !.wanted = ws]
    OBVIOUS
  <2>5. /\ pc[t] = "marshalled" /\ pc' = [pc EXCEPT ![t] = "ready"]
        /\ call' = [call EXCEPT ![t] = c]
        /\ flags' = [flags EXCEPT ![CacheOf[t]] = {}]
        /\ wanted' = [wanted EXCEPT ![CacheOf[t]] = {}]
        /\ started' = started
    BY <1>4, <2>1, <2>2, <2>3, <2>4 DEF newOperation, getFlags
  <2>6. OwnCache(t)
    BY <1>1, <2>5 DEF OwnCache
  <2>7. /\ pc'[t] = "ready" /\ call'[t] = c /\ wanted'[CacheOf[t]] = {}
        /\ flags'[CacheOf[t]] = {}
    BY <1>1, <2>5
  <2>8. FlagsPart("ready", c, {}, {}) /\ StartedPart("ready", c, started)
    BY DEF FlagsPart, StartedPart
  <2>9. LifePart("ready", c)
    <3>1. SUFFICES ASSUME c.op \in PutFamily, ~c.unitOnly
                   PROVE  /\ c.life = toSeconds(c.asked) % UInt32
                          /\ "DEFAULT_LIFESPAN" \in c.flags
                                <=> toSeconds(c.asked) = 0 \/ "DEFAULT_LIFESPAN" \in c.wanted
      BY DEF LifePart
    <3>2. old \in CallType
      BY <1>1, <2>2
    <3>3. /\ c.op = old.op /\ c.asked = old.asked /\ c.unitOnly = old.unitOnly
          /\ c.life = old.life % UInt32 /\ c.flags = gs /\ c.wanted = ws
      BY <2>4, <3>2 DEF CallType
    <3>4. LifePart("marshalled", old) /\ fs = ws \cup applyDefaultExpirationFlags(old)
      BY <1>1, <2>1, <2>2, <2>5 DEF Honour, FlagsPart
    <3>5. old.life = toSeconds(old.asked)
      BY <3>1, <3>3, <3>4 DEF LifePart
    <3>6. "DEFAULT_LIFESPAN" \in gs <=> "DEFAULT_LIFESPAN" \in fs
      BY <2>3, <3>1, <3>3 DEF PutFamily
    <3>7. "DEFAULT_LIFESPAN" \in applyDefaultExpirationFlags(old) <=> old.life = 0
      BY <3>1, <3>3 DEF applyDefaultExpirationFlags
    <3>8. QED
      BY <3>3, <3>4, <3>5, <3>6, <3>7
  <2>10. Honour(t)'
    BY <2>5, <2>7, <2>8, <2>9 DEF Honour
  <2>11. QED
    BY <2>6, <2>10, HonourStep
<1>5. QED
  BY <1>2, <1>3, <1>4

\* The request and its response.
LEMMA HonourExchange ==
    ASSUME Types, HonourInv, OneThreadPerCache, NEW t \in Thread,
           writeRequest(t) \/ readAnswer(t) \/ transportException(t)
    PROVE  HonourInv'
<1>1. Honour(t) /\ call[t] \in CallType /\ call \in [Thread -> CallType]
  BY DEF HonourInv, Types
<1>2. CASE writeRequest(t)
  <2>1. PICK old : old = call[t]
    OBVIOUS
  <2>2. PICK c : c = [old EXCEPT !.id = msgId + 1]
    OBVIOUS
  <2>3. /\ pc[t] = "ready" /\ pc' = [pc EXCEPT ![t] = "sent"]
        /\ call' = [call EXCEPT ![t] = c] /\ UNCHANGED <<started, flags, wanted>>
    BY <1>2, <2>1, <2>2 DEF writeRequest, client
  <2>4. /\ c.op = old.op /\ c.asked = old.asked /\ c.unitOnly = old.unitOnly
        /\ c.life = old.life /\ c.flags = old.flags /\ c.wanted = old.wanted
    BY <1>1, <2>1, <2>2 DEF CallType
  <2>5. LifePart("sent", c)
    BY <1>1, <2>1, <2>3, <2>4 DEF Honour, LifePart
  <2>6. QED
    BY <2>3, <2>5, HonourPlain
<1>3. ASSUME pc[t] = "sent", logErrorAndThrowExceptionIfNeeded(t), UNCHANGED <<started, flags, wanted>>
      PROVE  HonourInv'
  <2>1. PICK c : c = call[t]
    OBVIOUS
  <2>2. CASE Return(t, FALSE, <<>>)
    BY <1>3, <2>2, HonourReturn
  <2>3. CASE pc' = [pc EXCEPT ![t] = "ready"] /\ UNCHANGED call
    <3>1. call' = [call EXCEPT ![t] = c]
      BY <1>1, <2>1, <2>3
    <3>2. LifePart("ready", c)
      BY <1>1, <1>3, <2>1 DEF Honour, LifePart
    <3>3. QED
      BY <1>3, <2>3, <3>1, <3>2, HonourPlain
  <2>4. QED
    BY <1>3, <2>2, <2>3 DEF logErrorAndThrowExceptionIfNeeded
<1>4. ASSUME NEW ret, pc[t] = "sent", Continue(t, ret), UNCHANGED <<started, flags, wanted>>
      PROVE  HonourInv'
  <2>1. PICK c : c = call[t]
    OBVIOUS
  <2>2. CASE \E r : Return(t, TRUE, r)
    BY <1>4, <2>2, HonourReturn
  <2>3. CASE /\ c.op = "getAll" /\ pc' = [pc EXCEPT ![t] = "marshalled"]
             /\ \E rest, got : call' = [call EXCEPT ![t] = [c EXCEPT !.rest = rest, !.got = got]]
    <3>1. PICK rest, got : call' = [call EXCEPT ![t] = [c EXCEPT !.rest = rest, !.got = got]]
      BY <2>3
    <3>2. PICK d : d = [c EXCEPT !.rest = rest, !.got = got]
      OBVIOUS
    <3>3. d.op = "getAll"
      BY <1>1, <2>1, <2>3, <3>2 DEF CallType
    <3>4. PICK fs, ws : fs = flags[CacheOf[t]] /\ ws = wanted[CacheOf[t]]
      OBVIOUS
    <3>5. /\ pc'[t] = "marshalled" /\ call'[t] = d
          /\ \A u \in Thread \ {t} : pc'[u] = pc[u] /\ call'[u] = call[u]
      BY <2>3, <3>1, <3>2 DEF Types
    <3>6. fs = ws
      BY <1>1, <1>4, <3>4 DEF Honour, FlagsPart
    <3>7. FlagsPart("marshalled", d, fs, ws) /\ LifePart("marshalled", d)
      BY <3>3, <3>6 DEF FlagsPart, LifePart, applyDefaultExpirationFlags, PutFamily
    <3>8. StartedPart("marshalled", d, started)
      BY <3>3 DEF StartedPart, PutFamily
    <3>9. OwnCache(t)
      BY <1>4, <3>5 DEF OwnCache
    <3>10. Honour(t)'
      BY <1>4, <3>4, <3>5, <3>7, <3>8 DEF Honour
    <3>11. QED
      BY <3>9, <3>10, HonourStep
  <2>4. CASE /\ pc' = [pc EXCEPT ![t] = "called"]
             /\ \E rest, next : call' = [call EXCEPT ![t] =
                    [c EXCEPT !.rest = rest, !.key = next, !.life = toSeconds(c.asked)]]
    <3>1. PICK rest, next : call' = [call EXCEPT ![t] =
                    [c EXCEPT !.rest = rest, !.key = next, !.life = toSeconds(c.asked)]]
      BY <2>4
    <3>2. PICK d : d = [c EXCEPT !.rest = rest, !.key = next, !.life = toSeconds(c.asked)]
      OBVIOUS
    <3>3. d.life = toSeconds(c.asked) /\ d.asked = c.asked
      BY <1>1, <2>1, <3>2 DEF CallType
    <3>4. LifePart("called", d)
      BY <3>3 DEF LifePart
    <3>5. call' = [call EXCEPT ![t] = d]
      BY <3>1, <3>2
    <3>6. QED
      BY <1>4, <2>4, <3>4, <3>5, HonourPlain
  <2>5. QED
    <3>1. PICK rest, next, got :
            /\ rest = IF c.op = "getAll" THEN c.rest \ GetAllKeys(c.rest) ELSE c.rest
            /\ next = CHOOSE k \in rest : TRUE
            /\ got = IF c.op = "getAll" THEN c.got \o ret ELSE <<>>
      OBVIOUS
    <3>2. CASE rest = {}
      <4>1. \E r : Return(t, TRUE, r)
        BY <1>4, <2>1, <3>1, <3>2 DEF Continue
      <4>2. QED
        BY <2>2, <4>1
    <3>3. CASE rest # {} /\ c.op = "getAll"
      <4>1. /\ pc' = [pc EXCEPT ![t] = "marshalled"]
            /\ call' = [call EXCEPT ![t] = [c EXCEPT !.rest = rest, !.got = got]]
        BY <1>4, <2>1, <3>1, <3>3 DEF Continue
      <4>2. QED
        BY <2>3, <3>3, <4>1
    <3>4. CASE rest # {} /\ c.op # "getAll"
      <4>1. /\ pc' = [pc EXCEPT ![t] = "called"]
            /\ call' = [call EXCEPT ![t] = [c EXCEPT !.rest = rest \ {next}, !.key = next,
                                                     !.life = toSeconds(c.asked)]]
        BY <1>4, <2>1, <3>1, <3>4 DEF Continue
      <4>2. QED
        BY <2>4, <4>1
    <3>5. QED
      BY <3>2, <3>3, <3>4
<1>5. CASE readAnswer(t)
  <2>1. PICK r : r = readResponse(Wire(call[t].op), unread[t], call[t].id)
    OBVIOUS
  <2>2. /\ pc[t] = "sent" /\ UNCHANGED <<started, flags, wanted>>
        /\ IF r.throws THEN logErrorAndThrowExceptionIfNeeded(t) ELSE Continue(t, r.ret)
    BY <1>5, <2>1 DEF readAnswer, client
  <2>3. QED
    BY <1>3, <1>4, <2>2
<1>6. CASE transportException(t)
  BY <1>3, <1>6 DEF transportException, client
<1>7. QED
  BY <1>2, <1>5, <1>6

\* The manager is started.
LEMMA HonourStart ==
    ASSUME Types, HonourInv, start
    PROVE  HonourInv'
<1>1. SUFFICES ASSUME NEW t \in Thread PROVE Honour(t)'
  BY DEF HonourInv
<1>2. /\ ~started /\ started' = TRUE /\ UNCHANGED <<pc, call>>
      /\ flags' = [c \in Cache |-> {}] /\ wanted' = [c \in Cache |-> {}]
  BY DEF start
<1>3. flags'[CacheOf[t]] = {} /\ wanted'[CacheOf[t]] = {}
  BY <1>2, CallersAssumption
<1>4. Honour(t)
  BY DEF HonourInv
<1>5. pc[t] = "marshalled" => call[t].op \notin PutFamily
  BY <1>2, <1>4 DEF Honour, StartedPart
<1>6. FlagsPart(pc[t], call[t], {}, {})
  BY <1>5 DEF FlagsPart, applyDefaultExpirationFlags
<1>7. StartedPart(pc[t], call[t], started')
  BY <1>2 DEF StartedPart
<1>8. QED
  BY <1>2, <1>3, <1>4, <1>6, <1>7 DEF Honour

\* Every step.
LEMMA HonourNext ==
    ASSUME CacheInv, HonourInv, OneThreadPerCache, [Next]_vars
    PROVE  HonourInv'
<1>1. Types
  BY DEF CacheInv
<1>2. CASE start
  BY <1>1, <1>2, HonourStart
<1>3. ASSUME NEW k \in Key, OtherClient(k) PROVE HonourInv'
  BY <1>3, HonourUnchanged DEF OtherClient, client
<1>4. ASSUME NEW t \in Thread, API(t) PROVE HonourInv'
  BY <1>1, <1>4, HonourAPI
<1>5. ASSUME NEW t \in Thread, NotStarted(t) \/ marshall(t) \/ newOperation(t) PROVE HonourInv'
  BY <1>1, <1>5, HonourMaking
<1>6. ASSUME NEW t \in Thread, writeRequest(t) \/ readAnswer(t) \/ transportException(t)
      PROVE  HonourInv'
  BY <1>1, <1>6, HonourExchange
<1>7. CASE UNCHANGED vars
  BY <1>7, HonourUnchanged DEF vars
<1>8. QED
  BY <1>2, <1>3, <1>4, <1>5, <1>6, <1>7 DEF Next

\* The first state.
LEMMA HonourInit ==
    ASSUME Init
    PROVE  HonourInv
<1>1. SUFFICES ASSUME NEW t \in Thread PROVE Honour(t)
  BY DEF HonourInv
<1>2. pc[t] = "idle" /\ flags[CacheOf[t]] = {} /\ wanted[CacheOf[t]] = {}
  BY CallersAssumption DEF Init
<1>3. QED
  BY <1>2 DEF Honour, FlagsPart, LifePart, StartedPart

\* Division with the remainder rounded up.
LEMMA RoundedUp ==
    ASSUME NEW m \in Nat \ {0}, NEW time \in Nat, NEW n \in Nat,
           NEW s, s = time \div m + (IF time % m = 0 THEN 0 ELSE 1)
    PROVE  s \in Nat /\ (time <= n * m <=> s <= n)
<1>1. PICK q, r : q = time \div m /\ r = time % m
  OBVIOUS
<1>2. q \in Nat /\ r \in 0 .. m - 1
  BY <1>1
<1>3. time = m * (time \div m) + (time % m)
  BY SMT
<1>4. time = m * q + r /\ s = q + (IF r = 0 THEN 0 ELSE 1)
  BY <1>1, <1>3
<1>5. CASE r = 0
  BY <1>2, <1>4, <1>5
<1>6. CASE r # 0
  BY <1>2, <1>4, <1>6
<1>7. QED
  BY <1>5, <1>6

\* The units.
LEMMA Units ==
    /\ \A u \in DOMAIN PerSecond : PerSecond[u] \in Nat \ {0}
    /\ \A u \in DOMAIN TimeUnit \ DOMAIN PerSecond : Seconds[u] \in Nat \ {0}
<1>1. \A u \in DOMAIN PerSecond : PerSecond[u] \in Nat \ {0}
  BY SMT DEF PerSecond
<1>2. \A u \in {"SECONDS", "MINUTES", "HOURS", "DAYS"} : Seconds[u] \in Nat \ {0}
  BY SMT DEF Seconds
<1>3. DOMAIN TimeUnit \ DOMAIN PerSecond \subseteq {"SECONDS", "MINUTES", "HOURS", "DAYS"}
  BY SMT DEF TimeUnit, PerSecond
<1>4. QED
  BY <1>1, <1>2, <1>3

\* The seconds are the duration, rounded up.
LEMMA SecondsRoundUp ==
    ASSUME NEW d \in Nat \X DOMAIN TimeUnit
    PROVE  /\ toSeconds(d) \in Nat
           /\ \A n \in Nat : AtMost(d, n) <=> toSeconds(d) <= n
           /\ toSeconds(d) = 0 <=> d[1] = 0
<1>1. PICK time \in Nat, unit \in DOMAIN TimeUnit : d[1] = time /\ d[2] = unit
  OBVIOUS
<1>2. PICK s : s = toSeconds(d)
  OBVIOUS
<1>3. ASSUME NEW n \in Nat PROVE s \in Nat /\ (AtMost(d, n) <=> s <= n)
  <2>1. CASE unit \in DOMAIN PerSecond
    <3>1. PICK m \in Nat \ {0} : m = PerSecond[unit]
      BY <2>1, Units
    <3>2. s = time \div m + (IF time % m = 0 THEN 0 ELSE 1)
      BY <1>1, <1>2, <2>1, <3>1 DEF toSeconds
    <3>3. AtMost(d, n) <=> time <= n * m
      BY <1>1, <2>1, <3>1 DEF AtMost
    <3>4. QED
      BY <3>2, <3>3, RoundedUp
  <2>2. CASE unit \notin DOMAIN PerSecond
    <3>1. PICK m \in Nat \ {0} : m = Seconds[unit]
      BY <2>2, Units
    <3>2. s = time * m
      BY <1>1, <1>2, <2>2, <3>1 DEF toSeconds
    <3>3. AtMost(d, n) <=> time * m <= n
      BY <1>1, <2>2, <3>1 DEF AtMost
    <3>4. QED
      BY <3>2, <3>3, SMT
  <2>3. QED
    BY <2>1, <2>2
<1>4. AtMost(d, 0) <=> time = 0
  <2>1. CASE unit \in DOMAIN PerSecond
    <3>1. PICK m \in Nat \ {0} : m = PerSecond[unit]
      BY <2>1, Units
    <3>2. AtMost(d, 0) <=> time <= 0 * m
      BY <1>1, <2>1, <3>1 DEF AtMost
    <3>3. QED
      BY <3>2, SMT
  <2>2. CASE unit \notin DOMAIN PerSecond
    <3>1. PICK m \in Nat \ {0} : m = Seconds[unit]
      BY <2>2, Units
    <3>2. AtMost(d, 0) <=> time * m <= 0
      BY <1>1, <2>2, <3>1 DEF AtMost
    <3>3. QED
      BY <3>2, SMT
  <2>3. QED
    BY <2>1, <2>2
<1>5. s \in Nat /\ (s = 0 <=> time = 0)
  BY <1>3, <1>4
<1>6. QED
  BY <1>1, <1>2, <1>3, <1>5

\* An operation that is sent has the lifespan that was asked for: with what a cache's
\* flags are (no flag of one operation is left for the next) and what toSeconds returns,
\* for any times and units.  Each cache is used by one thread.
THEOREM LifespansAreHonoured ==
    ASSUME ServerKeepsToProtocol, OneThreadPerCache
    PROVE  Spec => []LifespanIsHonoured
<1>1. Init => HonourInv
  BY HonourInit
<1>2. CacheInv /\ HonourInv /\ [Next]_vars => HonourInv'
  BY HonourNext
<1>3. CacheInv /\ HonourInv => LifespanIsHonoured
  <2>1. SUFFICES ASSUME CacheInv, HonourInv, NEW t \in Thread, NEW c, c = call[t],
                        pc[t] \in {"ready", "sent"}, c.op \in PutFamily, ~c.unitOnly,
                        AtMost(c.asked, UInt32 - 1)
                 PROVE  /\ AtMost(c.asked, c.life)
                        /\ c.life > 0 => ~AtMost(c.asked, c.life - 1)
                        /\ "DEFAULT_LIFESPAN" \in c.flags
                              <=> c.asked[1] = 0 \/ "DEFAULT_LIFESPAN" \in c.wanted
    BY DEF LifespanIsHonoured
  <2>2. PICK n : n = toSeconds(c.asked)
    OBVIOUS
  <2>3. c.asked \in Nat \X DOMAIN TimeUnit
    BY <2>1 DEF CacheInv, Types, CallType
  <2>4. /\ n \in Nat /\ \A k \in Nat : AtMost(c.asked, k) <=> n <= k
        /\ n = 0 <=> c.asked[1] = 0
    BY <2>2, <2>3, SecondsRoundUp
  <2>5. UInt32 \in Nat \ {0} /\ UInt32 - 1 \in Nat
    BY CallersAssumption
  <2>6. n < UInt32
    BY <2>1, <2>4, <2>5
  <2>7. n % UInt32 = n
    BY <2>4, <2>5, <2>6
  <2>8. /\ c.life = n
        /\ "DEFAULT_LIFESPAN" \in c.flags <=> n = 0 \/ "DEFAULT_LIFESPAN" \in c.wanted
    BY <2>1, <2>2, <2>7 DEF HonourInv, Honour, LifePart
  <2>9. c.life > 0 => c.life - 1 \in Nat /\ ~(n <= c.life - 1)
    BY <2>4, <2>8
  <2>10. QED
    BY <2>4, <2>8, <2>9
<1>4. Spec => []CacheInv
  BY CacheInvariant
<1>5. QED
  BY <1>1, <1>2, <1>3, <1>4, PTL DEF Spec

=============================================================================
