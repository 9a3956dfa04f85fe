---------------------------- MODULE ReplayTarget ----------------------------
(***************************************************************************)
(* Which URLs a replay or a forward may be sent to                         *)
(* (infrastructure/http/safe_replay_target.py).  Pure operators: what the  *)
(* resolver answers is the caller's choice.                                *)
(*                                                                         *)
(* HttpUrl, at the boundary, leaves http(s) URLs with a host and a number  *)
(* for a port, in lower case.  A host is an address, told apart by its     *)
(* class in the ipaddress module, or labels, with or without a final dot.  *)
(***************************************************************************)
EXTENDS Integers, Sequences, SequencesExt

(* "shared" is 100.64.0.0/10, of which none of the six tests below is true. *)
Addresses == {"public", "private", "loopback", "link_local", "multicast", "reserved",
              "unspecified", "shared"}

OwnDomain == <<"hooktrace", "io">>      \* _DEFAULT_BLOCKED_HOST_SUFFIXES

Labels == {<<"example", "org">>, <<"nothooktrace", "io">>, OwnDomain, <<"app">> \o OwnDomain}

Hosts == [labels : Labels, dot : BOOLEAN, literal : {"none"}]
            \cup [labels : {<<>>}, dot : {FALSE}, literal : Addresses]

Urls == [host : Hosts, userinfo : BOOLEAN, port : {80, 443, 8080}]

(* What getaddrinfo may do: addresses, nothing in time, or no such name.   *)
Resolutions == [answer : {"addresses"}, ips : {{a} : a \in Addresses}
                                                \cup {{"public", a} : a \in Addresses}]
                 \cup [answer : {"timeout", "unknown"}, ips : {{}}]

IsPrivateOrReserved(ip) ==
    ip \in {"private", "loopback", "link_local", "multicast", "reserved", "unspecified"}

InOwnDomain(labels) == IsSuffix(OwnDomain, labels)

OwnHostAsWritten(host) == ~host.dot /\ InOwnDomain(host.labels)

(* The final dot is stripped before the suffix is compared.                *)
OwnHost(host) == InOwnDomain(host.labels)

(* Only a time-out is translated: for a name that is not known getaddrinfo *)
(* raises what no caller catches.                                          *)
Resolve(resolution) ==
    CASE resolution.answer = "timeout" -> "blocked"
      [] resolution.answer = "unknown" -> "raises"
      [] \E ip \in resolution.ips : IsPrivateOrReserved(ip) -> "blocked"
      [] OTHER -> "valid"

Validate(url, resolution) ==
    CASE url.userinfo \/ url.port \notin {80, 443} \/ OwnHost(url.host) -> "blocked"
      [] OTHER -> IF url.host.literal = "none" THEN Resolve(resolution)
                  ELSE IF IsPrivateOrReserved(url.host.literal) THEN "blocked" ELSE "valid"
=============================================================================
