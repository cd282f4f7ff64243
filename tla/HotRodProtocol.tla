--------------------------- MODULE HotRodProtocol ---------------------------
(***************************************************************************)
(* How the client reads a response (impl/protocol, impl/operations).  A    *)
(* connection is a stream of tokens, one for each value that a read of     *)
(* Transport takes from it (readByte, readVInt, readLong, readArray,       *)
(* readString).  A response is a header of five tokens -- magic, message   *)
(* id, operation, status, topology byte -- and a body whose shape depends  *)
(* on the operation and on the status.  Every operation is the function    *)
(* from the status and the tokens that follow the header to the number of  *)
(* tokens it reads and the value it returns; a value is a sequence, empty  *)
(* for the null pointer.  The topology that a header may carry is the      *)
(* subject of module Topology, and the topology byte is 0 here.            *)
(***************************************************************************)
EXTENDS Integers, Sequences, FiniteSetsExt

REQUEST_MAGIC == 160
RESPONSE_MAGIC == 161

\* The request codes of the operations on caches and counters.
OpCode ==
    [put |-> 1, get |-> 3, putIfAbsent |-> 5, replace |-> 7, replaceWithVersion |-> 9,
     remove |-> 11, removeWithVersion |-> 13, containsKey |-> 15, getWithVersion |-> 17,
     clear |-> 19, stats |-> 21, ping |-> 23, getBulk |-> 25, getWithMetadata |-> 27,
     keySet |-> 29, query |-> 31, size |-> 41, execute |-> 43, getAll |-> 47,
     counterCreate |-> 75, counterGetConfiguration |-> 77, counterIsDefined |-> 79,
     counterAddAndGet |-> 82, counterReset |-> 84, counterGet |-> 86, counterCas |-> 88,
     counterAddListener |-> 90, counterRemoveListener |-> 92, counterRemove |-> 94,
     counterGetNames |-> 100]

ERROR_RESPONSE == 80

\* 0x50, which would be the response to 0x4F, is ERROR_RESPONSE.
toOpRespCode(code) == IF code = OpCode.counterIsDefined THEN 81 ELSE code + 1

NO_ERROR_STATUS == 0
NOT_PUT_REMOVED_REPLACED_STATUS == 1
KEY_DOES_NOT_EXIST_STATUS == 2
SUCCESS_WITH_PREVIOUS == 3
NOT_EXECUTED_WITH_PREVIOUS == 4
NO_ERROR_STATUS_COMPAT == 6
SUCCESS_WITH_PREVIOUS_COMPAT == 7
NOT_EXECUTED_WITH_PREVIOUS_COMPAT == 8
INVALID_MAGIC_OR_MESSAGE_ID_STATUS == 129
UNKNOWN_COMMAND_STATUS == 130
UNKNOWN_VERSION_STATUS == 131
REQUEST_PARSING_ERROR_STATUS == 132
SERVER_ERROR_STATUS == 133
COMMAND_TIMEOUT_STATUS == 134
NODE_SUSPECTED == 135
ILLEGAL_LIFECYCLE_STATE == 136

isSuccess(status) ==
    status \in {NO_ERROR_STATUS, NO_ERROR_STATUS_COMPAT,
                SUCCESS_WITH_PREVIOUS, SUCCESS_WITH_PREVIOUS_COMPAT}

isNotExecuted(status) ==
    status \in {NOT_PUT_REMOVED_REPLACED_STATUS,
                NOT_EXECUTED_WITH_PREVIOUS, NOT_EXECUTED_WITH_PREVIOUS_COMPAT}

hasPrevious(status) ==
    status \in {SUCCESS_WITH_PREVIOUS, SUCCESS_WITH_PREVIOUS_COMPAT,
                NOT_EXECUTED_WITH_PREVIOUS, NOT_EXECUTED_WITH_PREVIOUS_COMPAT}

hasCompatibility(status) ==
    status \in {NO_ERROR_STATUS_COMPAT, SUCCESS_WITH_PREVIOUS_COMPAT,
                NOT_EXECUTED_WITH_PREVIOUS_COMPAT}

-----------------------------------------------------------------------------
(* Reading *)

\* The i-th token; a read past the end waits for the socket timeout.
At(s, i) == IF i \in DOMAIN s THEN s[i] ELSE -1

Returns(n, value) == [reads |-> n, ret |-> value, throws |-> FALSE]
Throws(n) == [reads |-> n, ret |-> <<>>, throws |-> TRUE]

\* Pairs (width 3) or single values (width 2), each after a byte 1, up to another byte.
ReadWhileOne(body, width) ==
    LET n == Min({i \in 0 .. Len(body) : At(body, width * i + 1) # 1})
    IN  Returns(width * n + 1,
                [i \in 1 .. (width - 1) * n |->
                    At(body, width * ((i - 1) \div (width - 1)) + ((i - 1) % (width - 1)) + 2)])

\* A count, then so many pairs.
ReadPairs(body) ==
    Returns(1 + 2 * At(body, 1), SubSeq(body, 2, 1 + 2 * At(body, 1)))

-----------------------------------------------------------------------------
(* Operations: what executeOperation does after readHeaderAndValidate *)

returnPossiblePrevValue(status, body) ==
    IF hasPrevious(status) THEN Returns(1, <<At(body, 1)>>) ELSE Returns(0, <<>>)

GetOperation(status, body) ==
    IF isSuccess(status) THEN Returns(1, <<At(body, 1)>>) ELSE Returns(0, <<>>)

PutOperation(status, body) ==
    IF isSuccess(status) THEN returnPossiblePrevValue(status, body) ELSE Throws(0)

PutIfAbsentOperation(status, body) ==
    IF isNotExecuted(status) THEN returnPossiblePrevValue(status, body) ELSE Returns(0, <<>>)

ReplaceOperation(status, body) == returnPossiblePrevValue(status, body)

RemoveOperation(status, body) == returnPossiblePrevValue(status, body)

ContainsKeyOperation(status, body) == Returns(0, <<IF isSuccess(status) THEN 1 ELSE 0>>)

\* Mutant of returnVersionedOperationResponse: only a missing key is a failure.
returnVersionedOperationResponseLenient(status, body) ==
    IF isSuccess(status) \/ isNotExecuted(status) \/ status = KEY_DOES_NOT_EXIST_STATUS
    THEN [returnPossiblePrevValue(status, body) EXCEPT
             !.ret = <<IF status = KEY_DOES_NOT_EXIST_STATUS THEN 0 ELSE 1>>]
    ELSE Throws(0)

\* VersionedOperationResponse: what the caller sees of it is isUpdated().
returnVersionedOperationResponse(status, body) ==
    IF isSuccess(status) \/ isNotExecuted(status) \/ status = KEY_DOES_NOT_EXIST_STATUS
    THEN [returnPossiblePrevValue(status, body) EXCEPT
             !.ret = <<IF isSuccess(status) THEN 1 ELSE 0>>]
    ELSE Throws(0)

ReplaceIfUnmodifiedOperation(status, body) == returnVersionedOperationResponse(status, body)

RemoveIfUnmodifiedOperation(status, body) == returnVersionedOperationResponse(status, body)

\* version, value
GetWithVersionOperation(status, body) ==
    IF isSuccess(status) THEN Returns(2, <<At(body, 1), At(body, 2)>>) ELSE Returns(0, <<>>)

\* Mutant of GetWithMetadataOperation: the flags of the infinite times are swapped.
GetWithMetadataOperationSwapped(status, body) ==
    LET flag == At(body, 1)
        created == IF flag \div 2 = 0 THEN 2 ELSE 0
        lastUsed == IF flag % 2 = 0 THEN 2 ELSE 0
        n == 1 + created + lastUsed
    IN  IF isSuccess(status)
        THEN Returns(n + 2,
                 <<At(body, n + 1), At(body, n + 2),
                   IF created = 0 THEN -1 ELSE At(body, 3),
                   IF lastUsed = 0 THEN -1 ELSE At(body, n)>>)
        ELSE Returns(0, <<>>)

\* The bits INFINITE_LIFESPAN and INFINITE_MAXIDLE say which times are absent.  The
\* value is: version, value, lifespan, maxIdle.
GetWithMetadataOperation(status, body) ==
    LET flag == At(body, 1)
        created == IF flag % 2 = 0 THEN 2 ELSE 0
        lastUsed == IF flag \div 2 = 0 THEN 2 ELSE 0
        n == 1 + created + lastUsed
    IN  IF isSuccess(status)
        THEN Returns(n + 2,
                 <<At(body, n + 1), At(body, n + 2),
                   IF created = 0 THEN -1 ELSE At(body, 3),
                   IF lastUsed = 0 THEN -1 ELSE At(body, n)>>)
        ELSE Returns(0, <<>>)

BulkGetOperation(status, body) == ReadWhileOne(body, 3)

BulkGetKeysOperation(status, body) == ReadWhileOne(body, 2)

StatsOperation(status, body) == ReadPairs(body)

ClearOperation(status, body) == Returns(0, <<>>)

SizeOperation(status, body) == Returns(1, <<At(body, 1)>>)

\* FAIL, SUCCESS, SUCCESS_WITH_COMPAT
PingOperation(status, body) ==
    Returns(0, <<CASE ~isSuccess(status) -> 0
                   [] isSuccess(status) /\ ~hasCompatibility(status) -> 1
                   [] OTHER -> 2>>)

\* Only the plain success status is one.
GetAllOperation(status, body) ==
    IF status = NO_ERROR_STATUS THEN ReadPairs(body) ELSE Returns(0, <<>>)

ExecuteCmdOperation(status, body) == Returns(1, <<At(body, 1)>>)

QueryOperation(status, body) ==
    IF isSuccess(status) THEN Returns(1, <<At(body, 1)>>) ELSE Returns(0, <<>>)

executeOperation(op, status, body) ==
    CASE op = "get" -> GetOperation(status, body)
      [] op = "put" -> PutOperation(status, body)
      [] op = "putIfAbsent" -> PutIfAbsentOperation(status, body)
      [] op = "replace" -> ReplaceOperation(status, body)
      [] op = "remove" -> RemoveOperation(status, body)
      [] op = "containsKey" -> ContainsKeyOperation(status, body)
      [] op = "replaceWithVersion" -> ReplaceIfUnmodifiedOperation(status, body)
      [] op = "removeWithVersion" -> RemoveIfUnmodifiedOperation(status, body)
      [] op = "getWithVersion" -> GetWithVersionOperation(status, body)
      [] op = "getWithMetadata" -> GetWithMetadataOperation(status, body)
      [] op = "getBulk" -> BulkGetOperation(status, body)
      [] op = "keySet" -> BulkGetKeysOperation(status, body)
      [] op = "stats" -> StatsOperation(status, body)
      [] op = "clear" -> ClearOperation(status, body)
      [] op = "size" -> SizeOperation(status, body)
      [] op = "ping" -> PingOperation(status, body)
      [] op = "getAll" -> GetAllOperation(status, body)
      [] op = "execute" -> ExecuteCmdOperation(status, body)
      [] op = "query" -> QueryOperation(status, body)

-----------------------------------------------------------------------------
(* The header *)

\* An error response: its message is read unless the status is none of the six known
\* ones (NODE_SUSPECTED and ILLEGAL_LIFECYCLE_STATE are not).
checkForErrorsInResponseStatus(status) ==
    Throws(IF status \in INVALID_MAGIC_OR_MESSAGE_ID_STATUS .. COMMAND_TIMEOUT_STATUS
           THEN 6 ELSE 5)

\* The statuses after which the connection is not to be used again.
invalidates(status) ==
    status \in {INVALID_MAGIC_OR_MESSAGE_ID_STATUS, REQUEST_PARSING_ERROR_STATUS,
                UNKNOWN_COMMAND_STATUS, UNKNOWN_VERSION_STATUS}

\* What an operation with this code and message id reads from the stream s.
readHeader(s, messageId, code) ==
    CASE At(s, 1) # RESPONSE_MAGIC -> Throws(1)
      [] At(s, 1) = RESPONSE_MAGIC /\ At(s, 2) \notin {messageId, 0} -> Throws(2)
      [] OTHER -> CASE At(s, 3) = toOpRespCode(code) -> Returns(5, <<At(s, 4)>>)
                    [] At(s, 3) = ERROR_RESPONSE -> checkForErrorsInResponseStatus(At(s, 4))
                    [] OTHER -> Throws(5)

\* The header, and after a good one the operation's body.
readResponse(op, s, messageId) ==
    LET h == readHeader(s, messageId, OpCode[op])
        b == executeOperation(op, At(s, 4), SubSeq(s, 6, Len(s)))
    IN  IF h.throws THEN h ELSE [b EXCEPT !.reads = 5 + b.reads]

=============================================================================
