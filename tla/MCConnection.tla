---------------------------- MODULE MCConnection ----------------------------
(* Connection on a small instance. *)
EXTENDS Connection

MCAddresses == <<FALSE, TRUE>>
MCSecurities == {[ssl |-> FALSE, auth |-> "DIGEST-MD5", caFile |-> "none", clientCert |-> FALSE],
                 [ssl |-> TRUE, auth |-> "PLAIN", caFile |-> "pem", clientCert |-> TRUE],
                 [ssl |-> TRUE, auth |-> "none", caFile |-> "p12", clientCert |-> FALSE]}

MCSymmetry == Permutations(Conn)

\* The hypothesis of ValuesAreKept (TransportProofs), for every integer of Width bits.
ASSUME IntegersHold == IntegersAgree

=============================================================================
