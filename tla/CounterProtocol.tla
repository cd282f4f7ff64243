-------------------------- MODULE CounterProtocol ---------------------------
(***************************************************************************)
(* Counters on the wire (impl/operations/CounterOperations.cpp, the        *)
(* decoding of events in impl/event/EventDispatcher.cpp): how a            *)
(* configuration is written and read, and what each operation makes of a   *)
(* status and the tokens that follow the header.  An outcome is a value    *)
(* ("ret"), one of the two bound exceptions, which are not retried, or a   *)
(* HotRodClientException ("throws"), which is.                             *)
(***************************************************************************)
EXTENDS HotRodProtocol

Outcome(kind, val) == [kind |-> kind, val |-> val]

\* The constructor's arguments, in its order.
CounterConfiguration(initial, lower, upper, level, type, storage) ==
    [initial |-> initial, lower |-> lower, upper |-> upper, level |-> level,
     type |-> type, storage |-> storage]

writeConfiguration(c) ==
    LET flags == (CASE c.type = "WEAK" -> 1
                    [] c.type = "BOUNDED_STRONG" -> 2
                    [] c.type = "UNBOUNDED_STRONG" -> 0)
                 + (IF c.storage = "PERSISTENT" THEN 4 ELSE 0)
    IN  <<flags>>
        \o (IF c.type = "WEAK" THEN <<c.level>> ELSE <<>>)
        \o (IF c.type = "BOUNDED_STRONG" THEN <<c.lower, c.upper>> ELSE <<>>)
        \o <<c.initial>>

\* Mutant of readConfiguration: the upper bound is read before the lower one.
readConfigurationSwapped(s) ==
    CounterConfiguration(s[Len(s)], s[3], s[2], 0, "BOUNDED_STRONG", "VOLATILE")

\* Fields that are not on the wire are 0.
readConfiguration(s) ==
    LET weak == s[1] % 4 = 1
        bounded == s[1] % 4 = 2
    IN  CounterConfiguration(
            s[1 + (IF weak THEN 1 ELSE 0) + (IF bounded THEN 2 ELSE 0) + 1],
            IF bounded THEN s[2] ELSE 0,
            IF bounded THEN s[3] ELSE 0,
            IF weak THEN s[2] ELSE 0,
            IF weak THEN "WEAK" ELSE IF bounded THEN "BOUNDED_STRONG" ELSE "UNBOUNDED_STRONG",
            IF (s[1] \div 4) % 2 = 1 THEN "PERSISTENT" ELSE "VOLATILE")

DefineCounterOperation(status) == Outcome("ret", isSuccess(status))

GetCounterConfigurationOperation(status, body) ==
    IF isSuccess(status) THEN Outcome("ret", readConfiguration(body)) ELSE Outcome("throws", 0)

\* A counter that does not exist needs no reset and no removal.
ResetCounterOperation(status) ==
    IF isSuccess(status) \/ status = KEY_DOES_NOT_EXIST_STATUS
    THEN Outcome("ret", 0)
    ELSE Outcome("throws", 0)

RemoveCounterOperation(status) == ResetCounterOperation(status)

GetCounterValueOperation(status, body) ==
    IF isSuccess(status) THEN Outcome("ret", body[1]) ELSE Outcome("throws", 0)

AddAndGetCounterValueOperation(status, body, delta) ==
    CASE status = NOT_EXECUTED_WITH_PREVIOUS ->
            Outcome(IF delta > 0 THEN "upper" ELSE "lower", 0)
      [] isSuccess(status) -> Outcome("ret", body[1])
      [] OTHER -> Outcome("throws", 0)

\* cc is the configuration that the counter object was made with.
CompareAndSwapCounterValueOperation(status, body, update, cc) ==
    CASE status = NOT_EXECUTED_WITH_PREVIOUS ->
            Outcome(IF update >= cc.upper THEN "upper" ELSE "lower", 0)
      [] status = NO_ERROR_STATUS -> Outcome("ret", body[1])
      [] OTHER -> Outcome("throws", 0)

AddCounterListenerOperation(status) == Outcome("ret", status = NO_ERROR_STATUS)

RemoveCounterListenerOperation(status) == Outcome("ret", status = NO_ERROR_STATUS)

CounterState(bits) ==
    CASE bits = 1 -> "LOWER_BOUND_REACHED"
      [] bits = 2 -> "UPPER_BOUND_REACHED"
      [] OTHER -> "VALID"

encoded2OldState(encoded) == CounterState(encoded % 4)

encoded2NewState(encoded) == CounterState((encoded \div 4) % 4)

=============================================================================
