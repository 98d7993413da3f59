------------------------------- MODULE MCConfig -------------------------------
(* Small instances of Config: files and environments that depart from a     *)
(* plain one in a setting of each kind, or in their routes.                 *)
EXTENDS Config

Name(host, dots, upper) == [host |-> host, dots |-> dots, upper |-> upper]
To(host, port)          == [host |-> host, port |-> port]
Route(name, upstream)   == [sni |-> name, upstream |-> upstream, alpn |-> {}]
Offering(protocols)     == [Route(Name("a", 0, FALSE), To("name", 1)) EXCEPT !.alpn = {protocols}]
Protocol(name, len)     == [name |-> name, len |-> len]

Plain == [s \in Settings |-> IF s \in Optional THEN "unset" ELSE "first"]
None  == [s \in Settings |-> "unset"]

Goes(routes) == [set |-> Plain, routes |-> routes]
Sets(s, v)   == [set |-> [Plain EXCEPT ![s] = v], routes |-> <<>>]

Secret == Route(Name("a", 0, FALSE), To("name", 1))

Routings ==
  {<<>>, <<Secret>>,
   <<Route(Name("a", 2, TRUE), To("address", 1)), Route(Name("b", 0, TRUE), To("name", 2))>>,
   <<Secret, Route(Name("a", 1, FALSE), To("name", 2))>>,
   <<Secret, Route(Name("a", 0, TRUE), To("name", 2))>>,
   <<Route(Name("", 1, FALSE), To("name", 1))>>,
   <<Route(Name("a", 0, FALSE), To("name", 0))>>,
   <<Route(Name("a", 0, FALSE), To("name", -1))>>,
   <<Route(Name("a", 0, FALSE), To("url", 1))>>,
   <<Offering(<<Protocol("h2", 2), Protocol("http/1.1", 8)>>)>>,
   <<Offering(<<>>)>>,
   <<Offering(<<Protocol("h2", 2), Protocol("h2", 2)>>)>>,
   <<Offering(<<Protocol("long", 256)>>)>>}

SmallFiles ==
  {Goes(r) : r \in Routings}
    \cup {Sets(s, "second") : s \in {"listen_addr", "max_connections", "static_dir",
                                     "tls_min_version", "server_header"}}
    \cup {Sets("static_dir", "unset"), Sets("max_connections", "unset"),
          Sets("max_connections", "refused"), Sets("connection_rate_per_ip", "refused")}

Override(s, v) == [None EXCEPT ![s] = v]

SmallEnvs ==
  {None, Override("max_connections", "first"), Override("max_connections", "garbled"),
   Override("max_connections", "refused"), Override("tls_min_version", "second")}
=============================================================================
