----------------------------- MODULE Connection -----------------------------
(***************************************************************************)
(* How one connection comes into being and carries bytes: the address loop *)
(* of sys::Socket::connect, TLS (SSLSocket on POSIX, SChannelSocket on     *)
(* Windows), the SASL exchange of TransportObjectFactory::makeObject, and  *)
(* the streams of tcp/Socket.cpp with TcpTransport's variable-length       *)
(* integers on top.  The process-wide state of SChannelSocket (the static  *)
(* handshake buffer and the static certificate store) is shared by all     *)
(* connections, each of which is made and used by a thread of its own.     *)
(*                                                                         *)
(* A byte carries GroupBits bits of an integer of Width bits (7 of 32 in   *)
(* the code).  TCP hands out any non-empty prefix of what the server sent. *)
(***************************************************************************)
EXTENDS Integers, Sequences, SequencesExt, FiniteSets, FiniteSetsExt

CONSTANTS
  Conn,          \* the connections
  Platforms,     \* the builds considered, a subset of {"posix", "windows"}
  Addresses,     \* what getaddrinfo returns: TRUE for the preferred IP stack
  BufferSize,    \* InputStream::BufferSize
  GroupBits, Width,
  Values,        \* the integers the application sends
  Securities,    \* the security settings considered: [ssl, auth, caFile, clientCert]
  ArraySize,     \* the size of the array in every response
  MaxSteps,      \* bound: challenges of one SASL exchange
  MaxRequests    \* bound: requests over one connection

ASSUME ConnectionAssumption ==
  /\ Platforms \subseteq {"posix", "windows"}
  /\ \A n \in {BufferSize, GroupBits, Width, ArraySize, MaxSteps} : n \in Nat \ {0}
  /\ Values \cup {ArraySize} \subseteq 0..(2^Width - 1)
  /\ ArraySize < 2^GroupBits

VARIABLES
  platform,       \* the build
  security,       \* the security settings of the Configuration the transports are made from
  conn,           \* the client's end of each connection
  net,            \* what the server sent and the client has not received
  peer,           \* the server's end of each connection
  ioBuffer,       \* static UCHAR IoBuffer[] of clientHandshakeLoop
  hMemStore       \* the static certificate store is open

vars == <<platform, security, conn, net, peer, ioBuffer, hMemStore>>

-----------------------------------------------------------------------------
(* Integers on the wire                                                    *)

Group == 2^GroupBits

writeVInt[n \in 0..(2^Width - 1)] ==
  IF n < Group THEN <<n>> ELSE <<(n % Group) + Group>> \o writeVInt[n \div Group]

\* The groups are or-ed together, each shifted by its place; the int32 keeps
\* the low Width bits.
readVInt(bytes) ==
  MapThenSumSet(LAMBDA i : (bytes[i] % Group) * Group^(i - 1), DOMAIN bytes) % 2^Width

\* The continuation bit of the last byte read.
More(bytes) == Last(bytes) >= Group

\* The protocol's definition, by which the server reads and writes.
VInt(v) ==
  LET n == Min({k \in 1..Width : v < Group^k})
  IN  [i \in 1..n |-> ((v \div Group^(i - 1)) % Group) + (IF i < n THEN Group ELSE 0)]

ServerReads(bytes) == CHOOSE v \in 0..(2^Width - 1) : VInt(v) = bytes

\* What the server answers to a request with v: the integer v and an array.
ArrayData == [i \in 1..ArraySize |-> i]
Response(v) == <<VInt(v), VInt(ArraySize) \o ArrayData>>
Answer(v) == << <<v>>, ArrayData >>

-----------------------------------------------------------------------------
(* State                                                                   *)

Kind == IF ~security.ssl THEN "plain"
        ELSE IF platform = "posix" THEN "ssl" ELSE "schannel"

Fresh == [pc |-> "none", addr |-> 1, preferred |-> TRUE, fd |-> FALSE,
          tls |-> "none", token |-> 0, cb |-> 0, verified |-> FALSE,
          r |-> "none", steps |-> 0, timeout |-> FALSE, requests |-> 0,
          val |-> 0, got |-> <<>>, want |-> 0, acc |-> <<>>,
          buf |-> <<>>, recvBuff |-> <<>>, plain |-> <<>>, decrypted |-> 0]

NoPeer == [records |-> <<>>, asked |-> <<>>, eof |-> FALSE]

Init ==
  /\ platform \in Platforms
  /\ security \in Securities
  /\ conn = [c \in Conn |-> Fresh]
  /\ net = [c \in Conn |-> <<>>]
  /\ peer = [c \in Conn |-> NoPeer]
  /\ ioBuffer = <<>>
  /\ hMemStore = FALSE

At(c, l) == conn[c].pc = l

\* The client's end of c is e from now on.
Becomes(c, e) == conn' = [conn EXCEPT ![c] = e]

Goto(c, l) == Becomes(c, [conn[c] EXCEPT !.pc = l])

\* The constructor throws: unwinding destroys the socket and closes it.
Throw(c) ==
  /\ Becomes(c, [Fresh EXCEPT !.pc = "failed"])
  /\ net' = [net EXCEPT ![c] = <<>>]

-----------------------------------------------------------------------------
(* TransportObjectFactory::makeObject and sys::Socket::connect             *)

makeObject(c) ==
  /\ At(c, "none")
  /\ Goto(c, IF Kind = "schannel" THEN "setup" ELSE "connect")
  /\ UNCHANGED <<net, peer, ioBuffer, hMemStore>>

\* The addresses that the present pass of connectToHost still has to try.
Candidates(c) ==
  {a \in conn[c].addr..Len(Addresses) : Addresses[a] = conn[c].preferred}

Connected(c) ==
  [conn[c] EXCEPT !.fd = TRUE, !.pc = IF Kind = "ssl" THEN "tls" ELSE "options"]

\* One attempt.  When it is refused or times out its descriptor is closed and
\* the next address of the pass is tried.
attemptConnect(c) ==
  /\ At(c, "connect")
  /\ Candidates(c) # {}
  /\ \/ Becomes(c, Connected(c))
     \/ Becomes(c, [conn[c] EXCEPT !.addr = Min(Candidates(c)) + 1])
  /\ UNCHANGED <<net, peer, ioBuffer, hMemStore>>

\* First the preferred stack, then the other one; no address left: throwIOErr.
connectToHost(c) ==
  /\ At(c, "connect")
  /\ Candidates(c) = {}
  /\ IF conn[c].preferred
     THEN Becomes(c, [conn[c] EXCEPT !.preferred = FALSE, !.addr = 1]) /\ UNCHANGED net
     ELSE Throw(c)
  /\ UNCHANGED <<peer, ioBuffer, hMemStore>>

\* SSLSocket::connect after the TCP connect.  SSL_connect returns 1, 0 or -1;
\* only 0 counts as a failure, so a handshake that fails once the peer's
\* certificate is known is noticed by nobody here.
SSL_connect(c) ==
  /\ At(c, "tls")
  /\ \/ /\ \E t \in {"done", "failed"} :
             Becomes(c, [conn[c] EXCEPT !.tls = t, !.pc = "options"])
        /\ UNCHANGED net
     \/ Throw(c)
  /\ UNCHANGED <<peer, ioBuffer, hMemStore>>

\* The end of TcpTransport's constructor, and what makeObject does next.
\* SChannelSocket ignores both socket options.
setTimeout(c) ==
  /\ At(c, "options")
  /\ \/ /\ Becomes(c, [conn[c] EXCEPT !.timeout = (Kind # "schannel"),
                                      !.pc = IF security.auth = "none" THEN "open"
                                             ELSE IF platform = "posix" THEN "mechs" ELSE "start"])
        /\ UNCHANGED net
     \/ Kind # "schannel" /\ Throw(c)
  /\ UNCHANGED <<peer, ioBuffer, hMemStore>>

-----------------------------------------------------------------------------
(* SChannelSocket: certificate store and handshake                         *)

\* What the server sends in the handshake: two tokens of two units each.
Token(c, n) == << <<c, "token", n, 1>>, <<c, "token", n, 2>> >>
LastToken == 2

\* new written into old from position pos on; what is not overwritten stays.
Overlay(old, pos, new) ==
  [i \in 1..Max({Len(old), pos + Len(new)}) |->
     IF i \in (pos + 1)..(pos + Len(new)) THEN new[i - pos] ELSE old[i]]

\* A .p12 file is imported into a store that hMemStore never gets to know.
setupCertStoreServer(c) ==
  /\ At(c, "setup")
  /\ \/ /\ hMemStore' = (hMemStore \/ security.caFile = "pem")
        /\ Goto(c, "credentials")
        /\ UNCHANGED net
     \/ ~hMemStore /\ security.caFile # "none" /\ Throw(c) /\ UNCHANGED hMemStore
  /\ UNCHANGED <<peer, ioBuffer>>

setupCertClient(c) ==
  /\ At(c, "credentials")
  /\ \/ Goto(c, "dial") /\ UNCHANGED net
     \/ security.clientCert /\ Throw(c)
  /\ UNCHANGED <<peer, ioBuffer, hMemStore>>

\* The first address only; its return code is ignored.
connectToServer(c) ==
  /\ At(c, "dial")
  /\ \E fd \in BOOLEAN : Becomes(c, [conn[c] EXCEPT !.fd = fd, !.pc = "hello"])
  /\ UNCHANGED <<net, peer, ioBuffer, hMemStore>>

\* The ClientHello; without a connection it cannot be sent.
performClientHandshake(c) ==
  /\ At(c, "hello")
  /\ \/ /\ conn[c].fd
        /\ Goto(c, "recv")
        /\ net' = [net EXCEPT ![c] = @ \o Token(c, 1)]
     \/ /\ Becomes(c, [conn[c] EXCEPT !.tls = "failed", !.pc = "verify"])
        /\ UNCHANGED net
  /\ UNCHANGED <<peer, ioBuffer, hMemStore>>

\* Nobody reads the buffer beyond what its own handshake has received: the
\* content that is left when the last handshake ends is immaterial.
AfterHandshake(c) ==
  IF \E d \in Conn \ {c} : conn[d].pc \in {"recv", "handshake"} THEN ioBuffer ELSE <<>>

\* The recv of clientHandshakeLoop, behind the cbIoBuffer bytes kept so far.
handshakeRecv(c) ==
  /\ At(c, "recv")
  /\ \/ \E k \in 1..Len(net[c]) :
          /\ ioBuffer' = Overlay(ioBuffer, conn[c].cb, SubSeq(net[c], 1, k))
          /\ net' = [net EXCEPT ![c] = SubSeq(@, k + 1, Len(@))]
          /\ Becomes(c, [conn[c] EXCEPT !.cb = @ + k, !.pc = "handshake"])
     \/ /\ net[c] = <<>> /\ peer[c].eof
        /\ Becomes(c, [conn[c] EXCEPT !.tls = "failed", !.cb = 0, !.pc = "verify"])
        /\ ioBuffer' = AfterHandshake(c)
        /\ UNCHANGED net
  /\ UNCHANGED <<peer, hMemStore>>

\* InitializeSecurityContext over the first cbIoBuffer bytes of the buffer.
clientHandshakeLoop(c) ==
  LET in == SubSeq(ioBuffer, 1, conn[c].cb)
      token == Token(c, conn[c].token + 1)
      extra == SubSeq(in, Len(token) + 1, Len(in))
  IN  /\ At(c, "handshake")
      /\ \/ /\ IsStrictPrefix(in, token)                 \* SEC_E_INCOMPLETE_MESSAGE
            /\ Goto(c, "recv")
            /\ UNCHANGED <<net, ioBuffer>>
         \/ /\ IsPrefix(token, in)
            /\ conn[c].token + 1 < LastToken             \* SEC_I_CONTINUE_NEEDED
            /\ Becomes(c, [conn[c] EXCEPT !.token = @ + 1, !.cb = Len(extra),
                                          !.pc = IF extra = <<>> THEN "recv" ELSE "handshake"])
            /\ ioBuffer' = Overlay(ioBuffer, 0, extra)
            /\ net' = [net EXCEPT ![c] = @ \o Token(c, conn[c].token + 2)]
         \/ /\ IsPrefix(token, in)
            /\ conn[c].token + 1 = LastToken             \* SEC_E_OK
            /\ Becomes(c, [conn[c] EXCEPT !.token = @ + 1, !.cb = 0, !.tls = "done",
                                          !.recvBuff = extra, !.pc = "verify"])
            /\ ioBuffer' = AfterHandshake(c)
            /\ UNCHANGED net
         \/ /\ ~IsPrefix(token, in) /\ ~IsStrictPrefix(in, token)
            /\ Becomes(c, [conn[c] EXCEPT !.tls = "failed", !.cb = 0, !.pc = "verify"])
            /\ ioBuffer' = AfterHandshake(c)
            /\ UNCHANGED net
      /\ UNCHANGED <<peer, hMemStore>>

\* What WinVerifyTrust makes of the server's certificate: 0, or an error.
verifyServerCertificate == {0, 1}

\* SChannelSocket::cleanup closes the store that all sockets share.
cleanup == hMemStore' = (Kind # "schannel" /\ hMemStore)

\* connect after the handshake.  QueryContextAttributes fails on the context of
\* a failed handshake: performClientHandshake's result, ignored, is noticed here.
connectEnds(c) ==
  /\ At(c, "verify")
  /\ \E status \in verifyServerCertificate :
       IF conn[c].tls = "done" /\ status = 0
       THEN /\ Becomes(c, [conn[c] EXCEPT !.verified = TRUE, !.pc = "options"])
            /\ UNCHANGED <<net, hMemStore>>
       ELSE Throw(c) /\ cleanup
  /\ UNCHANGED <<peer, ioBuffer>>

-----------------------------------------------------------------------------
(* do_sasl_authentication                                                  *)

\* An exception of the exchange leaves makeObject with the TcpTransport that
\* nobody deletes: its socket stays open.
Leak(c) == Goto(c, "leaked")

\* A request over this connection may be answered.
Writable(c) == Kind = "plain" \/ conn[c].tls = "done"

AuthMechListOperation(c) ==
  /\ At(c, "mechs")
  /\ \/ Writable(c) /\ Goto(c, "start")
     \/ Leak(c)
  /\ UNCHANGED <<net, peer, ioBuffer, hMemStore>>

saslStart(c) ==
  /\ At(c, "start") /\ platform = "posix"
  /\ \/ \E r \in {"OK", "CONTINUE"} : Becomes(c, [conn[c] EXCEPT !.r = r, !.pc = "auth"])
     \/ Leak(c)
  /\ UNCHANGED <<net, peer, ioBuffer, hMemStore>>

\* On Windows PLAIN and EXTERNAL send one message and are done; only a refusal
\* of the credentials throws.
saslStartWindows(c) ==
  /\ At(c, "start") /\ platform = "windows"
  /\ \/ \E r \in (IF security.auth = "DIGEST-MD5" THEN {"OK", "CONTINUE", "fail"} ELSE {"OK"}) :
          Becomes(c, [conn[c] EXCEPT !.r = r, !.pc = "auth"])
     \/ security.auth # "EXTERNAL" /\ Leak(c)
  /\ UNCHANGED <<net, peer, ioBuffer, hMemStore>>

saslStep(c) ==
  /\ At(c, "step")
  /\ \E r \in {"OK", "CONTINUE", "fail"} :
       /\ r = "CONTINUE" => conn[c].steps < MaxSteps
       /\ Becomes(c, [conn[c] EXCEPT !.r = r, !.steps = @ + 1, !.pc = "auth"])
  /\ UNCHANGED <<net, peer, ioBuffer, hMemStore>>

\* Mutant of AuthOperation: the result of the last step is not looked at.
AuthOperationTrusting(c) ==
  /\ At(c, "auth")
  /\ \/ Writable(c) /\ Goto(c, IF conn[c].r = "CONTINUE" THEN "step" ELSE "open")
     \/ Leak(c)
  /\ UNCHANGED <<net, peer, ioBuffer, hMemStore>>

\* AuthOperation::execute and the loop around it: the message is sent whatever
\* the step returned, and only then the result is looked at (not on Windows).
AuthOperation(c) ==
  /\ At(c, "auth")
  /\ \/ /\ Writable(c)
        /\ IF conn[c].r = "CONTINUE" THEN Goto(c, "step")
           ELSE IF conn[c].r = "OK" \/ platform = "windows" THEN Goto(c, "open")
           ELSE Leak(c)
     \/ Leak(c)
  /\ UNCHANGED <<net, peer, ioBuffer, hMemStore>>

-----------------------------------------------------------------------------
(* The streams                                                             *)

\* A record of the server's TLS layer, which sends each part of a response in
\* one and numbers them over the life of the connection.
Record(c, i, bytes) ==
  <<<<c, "header", i, Len(bytes)>>>> \o [j \in 1..Len(bytes) |-> <<c, "byte", i, bytes[j]>>]

ServerAnswers(c, v) ==
  LET parts == Response(v)
      n == Len(peer[c].records)
  IN  IF Kind = "schannel"
      THEN /\ net' = [net EXCEPT ![c] = @ \o Record(c, n + 1, parts[1]) \o Record(c, n + 2, parts[2])]
           /\ peer' = [peer EXCEPT ![c] = [peer[c] EXCEPT !.asked = Append(@, v), !.records = @ \o parts]]
      ELSE /\ net' = [net EXCEPT ![c] = @ \o parts[1] \o parts[2]]
           /\ peer' = [peer EXCEPT ![c].asked = Append(@, v)]

\* SChannelSocket::write ignores what encryptSend returns: it never throws.
encryptSend == Kind = "schannel"

\* A request with v: written to the OutputStream, flushed in one write, and
\* the first byte of the answer awaited.  A write that fails or is partial
\* throws; one to a server that has gone, or after a handshake that failed, may
\* pass unnoticed and have no answer.
flush(c, v) ==
  /\ At(c, "open") /\ conn[c].requests < MaxRequests
  /\ LET asking == [conn[c] EXCEPT !.pc = "reading", !.val = v, !.got = <<>>, !.acc = <<>>,
                                   !.want = 1, !.requests = @ + 1]
     IN  \/ /\ Writable(c) /\ ~peer[c].eof
            /\ Becomes(c, asking)
            /\ ServerAnswers(c, ServerReads(writeVInt[v]))
         \/ /\ encryptSend \/ ~Writable(c) \/ peer[c].eof
            /\ Becomes(c, asking)
            /\ UNCHANGED <<net, peer>>
         \/ /\ ~encryptSend
            /\ Goto(c, "broken")
            /\ UNCHANGED <<net, peer>>
  /\ UNCHANGED <<ioBuffer, hMemStore>>

\* Mutant of Refill: the part the buffer held is not copied.
RefillForgetting(c, chunk) ==
  [conn[c] EXCEPT !.want = @ - Len(conn[c].buf), !.buf = chunk]

\* InputStream::read when the buffer holds less than what is wanted: all of it
\* is copied, and the socket is read for the rest.
Refill(c, chunk) ==
  [conn[c] EXCEPT !.acc = @ \o conn[c].buf, !.want = @ - Len(conn[c].buf), !.buf = chunk]

Room(c) == Min({conn[c].want - Len(conn[c].buf), BufferSize})

\* The peer closed, or the receive timeout expired: an exception.
ReadThrows(c) == conn[c].timeout \/ (peer[c].eof /\ net[c] = <<>>)

\* Socket::read and SSLSocket::read: some bytes, or an exception.
read(c) ==
  /\ At(c, "reading") /\ Kind # "schannel"
  /\ Len(conn[c].buf) < conn[c].want
  /\ \/ \E k \in 1..Min({Room(c), Len(net[c])}) :
          /\ Becomes(c, Refill(c, SubSeq(net[c], 1, k)))
          /\ net' = [net EXCEPT ![c] = SubSeq(@, k + 1, Len(@))]
     \/ /\ ReadThrows(c)
        /\ Goto(c, "broken")
        /\ UNCHANGED net
  /\ UNCHANGED <<peer, ioBuffer, hMemStore>>

\* The next k records that are not decrypted yet, and the bytes in them.
Cipher(c, k) ==
  LET d == conn[c].decrypted
  IN  FlattenSeq([i \in 1..k |-> Record(c, d + i, peer[c].records[d + i])])

Plain(c, k) ==
  FlattenSeq(SubSeq(peer[c].records, conn[c].decrypted + 1, conn[c].decrypted + k))

\* How many of them a buffer starts with, if any.
Whole(c, buffer) ==
  Max({k \in 0..(Len(peer[c].records) - conn[c].decrypted) :
         k = 0 \/ IsPrefix(Cipher(c, k), buffer)})

\* readDecrypt's recv always writes to the start of recvBuff, over what an
\* incomplete record left there; the count of bytes grows all the same, and
\* the bytes behind are whatever the memory holds.
Received(c, new) ==
  LET old == conn[c].recvBuff
      kept == Overlay(old, 0, new)
  IN  kept \o [i \in 1..(Len(old) + Len(new) - Len(kept)) |-> <<c, "garbage", 0, 0>>]

\* The caller gets the first of some decrypted bytes, the rest is kept.
Deliver(c, data) ==
  [Refill(c, SubSeq(data, 1, Min({Room(c), Len(data)})))
     EXCEPT !.plain = SubSeq(data, Room(c) + 1, Len(data))]

\* readDecrypt over what recv left in the buffer.
readDecrypt(c, buffer) ==
  LET n == Whole(c, buffer)
  IN  [Deliver(c, Plain(c, n)) EXCEPT
         !.recvBuff = SubSeq(buffer, Len(Cipher(c, n)) + 1, Len(buffer)),
         !.decrypted = @ + n]

\* SChannelSocket::read: from the bytes decrypted earlier, or else one
\* readDecrypt, whose error is ignored: the caller then gets no byte at all.
SChannelRead(c) ==
  /\ At(c, "reading") /\ Kind = "schannel"
  /\ Len(conn[c].buf) < conn[c].want
  /\ \/ /\ conn[c].plain # <<>>
        /\ Becomes(c, Deliver(c, conn[c].plain))
        /\ UNCHANGED net
     \/ /\ conn[c].plain = <<>>
        /\ \E k \in 1..Len(net[c]) :
             /\ Becomes(c, readDecrypt(c, Received(c, SubSeq(net[c], 1, k))))
             /\ net' = [net EXCEPT ![c] = SubSeq(@, k + 1, Len(@))]
  /\ UNCHANGED <<peer, ioBuffer, hMemStore>>

\* The buffer holds what is wanted.  readVInt wants one more byte while the
\* continuation bit is set; readArray then wants as many bytes as it read.
take(c) ==
  LET bytes == conn[c].acc \o SubSeq(conn[c].buf, 1, conn[c].want)
      rest == SubSeq(conn[c].buf, conn[c].want + 1, Len(conn[c].buf))
      next == [conn[c] EXCEPT !.buf = rest, !.acc = <<>>]
  IN  /\ At(c, "reading")
      /\ Len(conn[c].buf) >= conn[c].want
      /\ \/ /\ Len(conn[c].got) = 2                              \* the array's bytes
            /\ Becomes(c, [next EXCEPT !.got = <<Head(@), bytes>>, !.want = 0, !.pc = "open"])
         \/ /\ Len(conn[c].got) # 2 /\ More(bytes)
            /\ Becomes(c, [next EXCEPT !.acc = bytes, !.want = 1])
         \/ /\ Len(conn[c].got) = 0 /\ ~More(bytes)
            /\ Becomes(c, [next EXCEPT !.got = <<<<readVInt(bytes)>>>>, !.want = 1])
         \/ /\ Len(conn[c].got) = 1 /\ ~More(bytes)
            /\ Becomes(c, [next EXCEPT !.got = Append(@, <<>>), !.want = readVInt(bytes)])
      /\ UNCHANGED <<net, peer, ioBuffer, hMemStore>>

\* TransportObjectFactory::destroyObject: the socket is shut down (its
\* descriptor is not closed on POSIX).
destroyObject(c) ==
  /\ conn[c].pc \in {"open", "broken"}
  /\ Becomes(c, Fresh)
  /\ net' = [net EXCEPT ![c] = <<>>]
  /\ peer' = [peer EXCEPT ![c] = NoPeer]
  /\ cleanup
  /\ UNCHANGED ioBuffer

\* The exception of a connection that could not be made has been handled.
forget(c) ==
  /\ At(c, "failed")
  /\ Becomes(c, Fresh)
  /\ peer' = [peer EXCEPT ![c] = NoPeer]
  /\ UNCHANGED <<net, ioBuffer, hMemStore>>

\* The server closes the connection (what it sent before still arrives).  When
\* the client is elsewhere it notices nothing until it comes to one of these.
ServerCloses(c) ==
  /\ conn[c].pc \in {"recv", "open", "reading"} /\ ~peer[c].eof
  /\ peer' = [peer EXCEPT ![c].eof = TRUE]
  /\ UNCHANGED <<conn, net, ioBuffer, hMemStore>>

Step(c) ==
  \/ makeObject(c)
  \/ attemptConnect(c) \/ connectToHost(c) \/ SSL_connect(c) \/ setTimeout(c)
  \/ setupCertStoreServer(c) \/ setupCertClient(c)
  \/ connectToServer(c) \/ performClientHandshake(c)
  \/ handshakeRecv(c) \/ clientHandshakeLoop(c) \/ connectEnds(c)
  \/ AuthMechListOperation(c) \/ saslStart(c) \/ saslStartWindows(c) \/ saslStep(c)
  \/ AuthOperation(c)
  \/ \E v \in Values : flush(c, v)
  \/ read(c) \/ SChannelRead(c) \/ take(c)
  \/ destroyObject(c) \/ forget(c) \/ ServerCloses(c)

Next == (\E c \in Conn : Step(c)) /\ UNCHANGED <<platform, security>>

Spec == Init /\ [][Next]_vars

-----------------------------------------------------------------------------
(* Properties                                                              *)

\* writeVInt writes what the protocol defines, a reader that stops at the first
\* byte without the continuation bit stops at the end of it, and readVInt then
\* has the integer back: the loops of TcpTransport.cpp agree on every integer of
\* Width bits.
IntegersAgree ==
  \A v \in 0..(2^Width - 1) :
    /\ writeVInt[v] = VInt(v)
    /\ VInt(v) \in Seq(Nat) \ {<<>>}
    /\ \A i \in DOMAIN VInt(v) : More(SubSeq(VInt(v), 1, i)) <=> i < Len(VInt(v))
    /\ readVInt(VInt(v)) = v

\* What the application reads from a connection is a beginning of what the
\* server answered to what the application wrote, however TCP and TLS cut the
\* bytes up: InputStream::read (tcp/Socket.cpp), readVInt and readArray,
\* writeVInt, and SChannelSocket's readDecrypt and read.
ValuesSurvive ==
  \A c \in Conn :
    LET got == conn[c].got  due == Answer(conn[c].val)
    IN  At(c, "reading") \/ At(c, "open") =>
          /\ Len(got) <= Len(due)
          /\ \A i \in DOMAIN got : got[i] = due[i] \/ (At(c, "reading") /\ i = 2 /\ got[i] = <<>>)
          /\ At(c, "open") /\ conn[c].requests > 0 => got = due

\* No request reaches a server before what the security asks for is in
\* place: the TLS handshake is complete, SChannel has verified the server, and
\* on POSIX the SASL client ended its exchange with SASL_OK.  The return codes
\* of SSL_connect, performClientHandshake and connectToServer are ignored
\* where they are returned; later calls have to catch what they say.
SecuredBeforeUse ==
  \A c \in Conn : peer[c].asked # <<>> =>
    /\ security.ssl => conn[c].tls = "done"
    /\ Kind = "schannel" => conn[c].verified
    /\ security.auth # "none" /\ platform = "posix" => conn[c].r = "OK"

=============================================================================
