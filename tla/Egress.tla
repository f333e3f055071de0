------------------------------- MODULE Egress -------------------------------
(***************************************************************************)
(* Which hosts sources and pages are fetched from (crates/aidoku-runtime/  *)
(* src/imports/egress.rs, and the resolver of imports/net.rs that both     *)
(* HTTP clients use): the addresses a name resolves to decide, all or      *)
(* none.  An IPv4 address is its four octets, an IPv6 address its eight    *)
(* segments.                                                               *)
(***************************************************************************)
LOCAL INSTANCE Integers
LOCAL INSTANCE Sequences

METADATA_V4 == {<<169, 254, 169, 254>>, <<169, 254, 169, 253>>}

\* Loopback, private, link-local, unspecified, broadcast and multicast, shared and reserved.
BlockedV4(ip) ==
    LET a == ip[1]
        b == ip[2]
    IN  \/ ip \in METADATA_V4
        \/ a = 127
        \/ a = 10 \/ (a = 172 /\ b \in 16..31) \/ (a = 192 /\ b = 168)
        \/ a = 169 /\ b = 254
        \/ ip \in {<<0, 0, 0, 0>>, <<255, 255, 255, 255>>} \/ a \in 224..239
        \/ (a = 100 /\ b \in 64..127) \/ (a = 192 /\ b = 0 /\ ip[3] = 0)

\* ::1, ::, ff00::/8, fe80::/10 and fc00::/7.
BlockedV6(ip) ==
    \/ \A i \in 1..7 : ip[i] = 0 /\ ip[8] \in {0, 1}
    \/ ip[1] \div 256 = 255
    \/ ip[1] \div 64 = 1018
    \/ ip[1] \div 512 = 126

\* ::ffff:a.b.c.d carries an IPv4 address.
IsMapped(ip) == Len(ip) = 8 /\ (\A i \in 1..5 : ip[i] = 0) /\ ip[6] = 65535

Mapped(ip) == <<ip[7] \div 256, ip[7] % 256, ip[8] \div 256, ip[8] % 256>>

Blocked(ip) ==
    IF Len(ip) = 4 THEN BlockedV4(ip)
    ELSE IF IsMapped(ip) THEN BlockedV4(Mapped(ip)) ELSE BlockedV6(ip)

\* What a name resolves to is used if there is something, and nothing in it is blocked.
Vetted(addresses) == addresses # {} /\ \A ip \in addresses : ~Blocked(ip)
=============================================================================
