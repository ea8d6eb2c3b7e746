-------------------------------- MODULE HttpUrl --------------------------------
(***************************************************************************)
(* UrlParser (HttpParser.hpp): a URL cut into its parts.  The two strings  *)
(* whose role the parser learns late, usernameOrHostname and               *)
(* portOrPassword, are parts of the configuration.                         *)
(***************************************************************************)
EXTENDS HttpParser

CONSTANT Urls    \* the URLs that are written and parsed back

Words(s, classes) == s \in Seq(STRING) /\ \A i \in DOMAIN s : Class(s[i]) \in classes

NoUrl ==
  [scheme |-> <<>>, username |-> <<>>, password |-> <<>>, hostname |-> <<>>, port |-> <<>>,
   path |-> <<>>, query |-> <<>>, fragment |-> <<>>, integerPort |-> 0]

Unreserved == Alnum \cup {"-", ".", "_", "~"}

Authority ==
  {Rule("Scheme", Alnum \cup {"+", "-", "."}, "Scheme", "scheme"),
   Rule("Scheme", {":"}, "SlashAfterScheme1", "skip"),
   Rule("SlashAfterScheme1", {"/"}, "SlashAfterScheme2", "skip"),
   Rule("SlashAfterScheme1", Alnum, "UsernameOrHostname", "name"),
   Rule("SlashAfterScheme2", {"/"}, "UsernameOrHostname", "skip"),
   Rule("UsernameOrHostname", Unreserved \cup {"%"}, "UsernameOrHostname", "name"),
   Rule("UsernameOrHostname", {":"}, "PortOrPassword", "skip"),
   Rule("UsernameOrHostname", {"@"}, "Hostname", "isUser"),
   Rule("UsernameOrHostname", {"/"}, "Path", "isHost"),
   Rule("Password", Alnum \cup {"%"}, "Password", "password"),
   Rule("Password", {"@"}, "Hostname", "skip"),
   Rule("Hostname", {"["}, "IPV6Hostname", "bracket"),
   Rule("Hostname", Unreserved \cup {"%"}, "Hostname", "hostname"),
   Rule("Hostname", {":"}, "Port", "skip"),
   Rule("Hostname", {"/"}, "Path", "skip")}

\* A digit may belong to a port or to a password; a letter decides.
Rest ==
  {Rule("IPV6Hostname", AnyClass, "IPV6Hostname", "abort"),
   Rule("PortOrPassword", {"digit"}, "PortOrPassword", "number"),
   Rule("PortOrPassword", {"/"}, "Path", "isHostAndPort"),
   Rule("PortOrPassword", {"alpha", "%"}, "Password", "isUserAndPassword"),
   Rule("Port", {"digit"}, "Port", "number"),
   Rule("Port", {"/"}, "Path", "isPort"),
   Rule("Path", {"#"}, "Fragment", "skip"),
   Rule("Path", {"?"}, "Query", "skip"),
   Rule("Path", AnyClass \ {"#", "?"}, "Path", "path"),
   Rule("Query", {"#"}, "Fragment", "skip"),
   Rule("Query", {"?"}, "Query", "skip"),
   Rule("Query", AnyClass \ {"#", "?"}, "Query", "query"),
   Rule("Fragment", AnyClass, "Fragment", "fragment")}

Invalid(p) == [p EXCEPT !.result = "invalid", !.url = NoUrl]

PortLimit == 65536    \* uint16_t

\* std::swap leaves in the first string what the field held, here nothing.
IsUser(p) == [p EXCEPT !.url.username = p.name, !.name = p.url.username]
IsHost(p) == [p EXCEPT !.url.hostname = p.name, !.name = p.url.hostname]
IsPort(p) ==
  [p EXCEPT !.url.port = p.number, !.number = p.url.port, !.url.integerPort = Atoi(p.number) % PortLimit]
\* Mutant: the password keeps the letter that decided, and not the digits before it.
IsPasswordLetter(p, c) ==
  [p EXCEPT !.url.password = <<c>>, !.number = p.url.password]

IsPassword(p, c) ==
  [p EXCEPT !.url.password = Append(p.number, c), !.number = p.url.password]

Put(do, p, c) ==
  CASE do = "skip" -> p
    [] do \in {"scheme", "password", "hostname", "path", "query", "fragment"} ->
         [p EXCEPT !.url[do] = Append(@, c)]
    [] do \in {"name", "number"} -> [p EXCEPT ![do] = Append(@, c)]
    [] do = "isUser" -> IsUser(p)
    [] do = "isHost" -> IsHost(p)
    [] do = "isHostAndPort" -> IsPort(IsHost(p))
    [] do = "isPort" -> IsPort(p)
    [] do = "isUserAndPassword" -> IsPassword(IsUser(p), c)
    [] do = "bracket" -> IF p.url.hostname = <<>> THEN p ELSE Invalid(p)
    [] do = "abort" -> [p EXCEPT !.result = "abort"]

UrlTable == Table(Authority \cup Rest)

Scan(p, c) ==
  LET fit == UrlTable[p.state][Class(c)] IN
  CASE p.result # "valid" -> p
    [] p.result = "valid" /\ fit = {} -> Invalid(p)
    [] OTHER -> LET r == CHOOSE r \in fit : TRUE
                IN  Put(r.do, [p EXCEPT !.state = r.next], c)

\* parse_(): what was left undecided at the end is the host.
ParseUrl(text) ==
  LET at[i \in 0..Len(text)] ==
        IF i = 0
        THEN [state |-> "Scheme", result |-> "valid", name |-> <<>>, number |-> <<>>,
              url |-> [NoUrl EXCEPT !.path = <<"/">>]]
        ELSE Scan(at[i - 1], text[i])
      p == at[Len(text)]
  IN  IF p.name = <<>> THEN p ELSE [p EXCEPT !.url.hostname = p.name]

HttpPort(url) ==
  IF url.port # <<>> THEN url.integerPort ELSE IF url.scheme = <<"https">> THEN 443 ELSE 80

---------------------------------------------------------------------------

IsPortNumber(digits) == Atoi(digits) \in 0..PortLimit - 1

\* The characters that may stand in the parts of a URL.
UrlForm(u) ==
  /\ u = [part \in DOMAIN NoUrl |-> u[part]] /\ u.integerPort = 0
  /\ Words(u.scheme, Alnum \cup {"+", "-", "."})
  /\ Words(u.username, Unreserved \cup {"%"}) /\ Words(u.password, Alnum \cup {"%"})
  /\ Words(u.hostname, Unreserved \cup {"%"})
  /\ Words(u.port, {"digit"}) /\ (u.port # <<>> => IsPortNumber(u.port))
  /\ Words(u.path, AnyClass \ {"#", "?"}) /\ (u.path # <<>> => u.path[1] = "/")
  /\ Words(u.query, AnyClass \ {"#", "?"})
  /\ Words(u.fragment, AnyClass)

ASSUME UrlsAssumption == \A u \in Urls : UrlForm(u)

\* How a URL is written: the parts that are there, with their separators.
Written(u) ==
  u.scheme \o <<":", "/", "/">>
    \o (IF u.username = <<>> THEN <<>>
        ELSE u.username \o (IF u.password = <<>> THEN <<>> ELSE <<":">> \o u.password) \o <<"@">>)
    \o u.hostname
    \o (IF u.port = <<>> THEN <<>> ELSE <<":">> \o u.port)
    \o u.path
    \o (IF u.query = <<>> THEN <<>> ELSE <<"?">> \o u.query)
    \o (IF u.fragment = <<>> THEN <<>> ELSE <<"#">> \o u.fragment)

\* The parser takes digits after the first ':' for a port, takes a port only
\* up to the '/' that follows it, and looks for a query in a path only; a
\* password has a user.
Expressible(u) ==
  /\ u.password # <<>> => \E i \in DOMAIN u.password : Class(u.password[i]) # "digit"
  /\ u.username = <<>> => u.password = <<>>
  /\ u.path = <<>> => u.port = <<>> /\ u.query = <<>> /\ u.fragment = <<>>

\* The parser undoes the writing.
ParsesBack(u) ==
  LET p == ParseUrl(Written(u)) IN
  /\ p.result = "valid"
  /\ [p.url EXCEPT !.integerPort = 0] = [u EXCEPT !.path = IF u.path = <<>> THEN <<"/">> ELSE u.path]
  /\ HttpPort(p.url) = IF u.port # <<>> THEN Atoi(u.port)
                       ELSE IF u.scheme = <<"https">> THEN 443 ELSE 80

=============================================================================
