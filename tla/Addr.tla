-------------------------------- MODULE Addr --------------------------------
(***************************************************************************)
(* wsgi_addr_resolve: from the text of a `listen' directive to a socket    *)
(* address and a name for the log.  A text is a sequence of characters     *)
(* without its NUL; what is allocated for one has a size.  Positions count *)
(* from 0, as in the code.                                                 *)
(***************************************************************************)
EXTENDS Integers, Sequences

CONSTANTS
  Chars,        \* characters; ":", "[" and "]" are among them
  SunPath,      \* sizeof(sun_path)
  Inet, Inet6,  \* numeric addresses, as inet_ntop writes them
  Loopback      \* those of getaddrinfo without a host

Text == Seq(Chars)

ASSUME AddrAssumption ==
  /\ {":", "[", "]"} \subseteq Chars
  /\ SunPath \in Nat
  /\ Inet \subseteq Text /\ Inet6 \subseteq Text
  /\ \A a \in Inet : a # <<>> => a[1] # "["   \* digits and dots
  /\ Loopback \subseteq Inet \cup Inet6

VARIABLES
  unix,    \* the text began with "unix:"
  url,     \* the text, behind that
  pc,      \* the call that is next, or how it ended
  host,    \* copy of the host, for getaddrinfo
  port,    \* where the text of the port begins in url
  family,  \* sa_family, and
  ip,      \* the address as inet_ntop writes it; the path
  name,    \* a->name
  held     \* not freed yet: "host", the copy; "answer", getaddrinfo's

vars == <<unix, url, pc, host, port, family, ip, name, held>>

\* A copy of a text in memory of some size.
Copy(size, text) == [size |-> size, text |-> text]
None == Copy(0, <<>>)

Errors == {"empty path", "long path", "invalid", "not found", "no memory", "other family"}

Init ==
  /\ unix \in BOOLEAN
  /\ url \in Text
  /\ pc = "resolve"
  /\ host = None /\ port = 0
  /\ family = "none" /\ ip = <<>>
  /\ name = None
  /\ held = {}

-----------------------------------------------------------------------------
(* Taking a text apart *)

At(u, i) == u[i + 1]
Positions(u) == 0 .. Len(u) - 1
Colons(u) == {i \in Positions(u) : At(u, i) = ":"}

\* n characters from position i, and all from there.
Part(u, i, n) == SubSeq(u, i + 1, i + n)
Tail0(u, i) == SubSeq(u, i + 1, Len(u))

\* Mutant: strchr.
FirstColon(u) == CHOOSE c \in Colons(u) : \A d \in Colons(u) : c <= d

LastColon(u) == CHOOSE c \in Colons(u) : \A d \in Colons(u) : d <= c

Bracketed(u) == At(u, 0) = "["

\* Mutant: the closing bracket is looked for too late.
ClosedHere(u) == At(u, LastColon(u)) = "]"

Closed(u) == At(u, LastColon(u) - 1) = "]"

\* Mutant: no room for the NUL of a host in brackets.
HostCopyTight(u) ==
  IF Bracketed(u)
  THEN Copy(LastColon(u) - 2, Part(u, 1, LastColon(u) - 2))
  ELSE Copy(LastColon(u) + 1, Part(u, 0, LastColon(u)))

HostCopy(u) ==
  IF Bracketed(u)
  THEN Copy(LastColon(u) - 1, Part(u, 1, LastColon(u) - 2))
  ELSE Copy(LastColon(u) + 1, Part(u, 0, LastColon(u)))

PortAt(u) == LastColon(u) + 1

-----------------------------------------------------------------------------
(* Steps *)

\* A return; what has been freed before it says the step.
End(how) == pc' = how

\* No memory for the wsgi_addr_t, for the copy of the host, or for the path.
ResolveFails ==
  /\ pc = "resolve"
  /\ End("no memory")
  /\ UNCHANGED <<unix, url, host, port, family, ip, name, held>>

InitUnix ==
  /\ pc = "resolve" /\ unix
  /\ \/ Len(url) = 0 /\ End("empty path") /\ UNCHANGED <<family, ip, name>>
     \/ Len(url) >= SunPath /\ End("long path") /\ UNCHANGED <<family, ip, name>>
     \/ /\ Len(url) > 0 /\ Len(url) < SunPath
        /\ family' = "unix" /\ ip' = url
        /\ name' = Copy(Len(url) + 1, url)
        /\ End("done")
  /\ UNCHANGED <<unix, url, host, port, held>>

\* Only a port: the whole text.
PortOnly ==
  /\ pc = "resolve" /\ ~unix
  /\ Colons(url) = {}
  /\ pc' = "lookup"
  /\ UNCHANGED <<unix, url, host, port, family, ip, name, held>>

InvalidInet6 ==
  /\ pc = "resolve" /\ ~unix
  /\ Colons(url) # {} /\ Bracketed(url) /\ ~Closed(url)
  /\ End("invalid")
  /\ UNCHANGED <<unix, url, host, port, family, ip, name, held>>

CopyHost ==
  /\ pc = "resolve" /\ ~unix
  /\ Colons(url) # {}
  /\ Bracketed(url) => Closed(url)
  /\ host' = HostCopy(url)
  /\ port' = PortAt(url)
  /\ held' = held \cup {"host"} /\ pc' = "lookup"
  /\ UNCHANGED <<unix, url, family, ip, name>>

\* What the resolver may answer for a host: the address itself, some address
\* for a name or for an IPv6 address spelled otherwise, nothing for no host.
Answers ==
  IF Colons(url) = {} THEN Loopback
  ELSE IF host.text \in Inet \cup Inet6 THEN {host.text}
  ELSE IF host.text = <<>> THEN {}
  ELSE IF Colons(host.text) = {} THEN Inet \cup Inet6 ELSE Inet6

\* getaddrinfo; the copy is freed before the result is looked at.
Lookup ==
  /\ pc = "lookup"
  /\ \/ /\ held' = held \ {"host"}
        /\ End("not found") /\ UNCHANGED <<family, ip>>
     \/ \E a \in Answers :
          /\ held' = (held \cup {"answer"}) \ {"host"}
          /\ ip' = a
          /\ family' \in {IF a \in Inet THEN "inet" ELSE "inet6", "other"}
          /\ pc' = "format"
  /\ UNCHANGED <<unix, url, host, port, name>>

\* Mutant: wsgi_sockaddr_ntop's failure returns at once.
FormatFailsAtOnce ==
  /\ pc = "format"
  /\ \/ End("no memory") /\ held' = held \ {"answer"}
     \/ family = "other" /\ End("other family") /\ UNCHANGED held
  /\ UNCHANGED <<unix, url, host, port, family, ip, name>>

\* No memory for the address or for its name, or no way to name it: failed.
FormatFails ==
  /\ pc = "format"
  /\ \/ End("no memory")
     \/ family = "other" /\ End("other family")
  /\ held' = held \ {"answer"}
  /\ UNCHANGED <<unix, url, host, port, family, ip, name>>

PortText == Tail0(url, port)

Format ==
  /\ pc = "format"
  /\ LET n == Len(ip)
         l == Len(PortText) + 1
     IN \/ /\ family = "inet"
           /\ name' = Copy(n + l + 1, ip \o <<":">> \o PortText)
        \/ /\ family = "inet6"
           /\ name' = Copy(n + l + 3, <<"[">> \o ip \o <<"]", ":">> \o PortText)
  /\ held' = held \ {"answer"}
  /\ End("done")
  /\ UNCHANGED <<unix, url, host, port, family, ip>>

Next ==
  \/ ResolveFails \/ InitUnix
  \/ PortOnly \/ InvalidInet6 \/ CopyHost
  \/ Lookup \/ Format \/ FormatFails

Spec == Init /\ [][Next]_vars

-----------------------------------------------------------------------------
(* Properties *)

TypeOK ==
  /\ unix \in BOOLEAN /\ url \in Text
  /\ pc \in {"resolve", "lookup", "format", "done"} \cup Errors
  /\ host.text \in Text /\ host.size \in Nat
  /\ port \in 0 .. Len(url)
  /\ family \in {"none", "unix", "inet", "inet6", "other"}
  /\ ip \in Text
  /\ name.text \in Text /\ name.size \in Nat
  /\ held \subseteq {"host", "answer"}

Fits(c) == c = None \/ Len(c.text) + 1 = c.size

\* Every copy has room for its text and the NUL behind it, and for no more; a
\* path leaves the last byte of sun_path, which is 0.  Whatever way the call
\* ends, the copy of the host and the answer of getaddrinfo have been freed.
MemoryInOrder ==
  /\ Fits(host) /\ Fits(name)
  /\ family = "unix" => Len(ip) < SunPath
  /\ pc \in {"done"} \cup Errors => held = {}

\* A host and a port, without and with brackets.  A port has no colon.
Joined(h, p) == h \o <<":">> \o p
JoinedIn(h, p) == <<"[">> \o h \o <<"]", ":">> \o p

\* What the resolver is asked for, put together again, is the text: the port
\* is what follows the last colon.  A text that begins with a bracket is
\* refused only if it is no host in brackets with a port behind it.
AsksForTheText ==
  /\ pc = "lookup" /\ host # None =>
       /\ Colons(PortText) = {}
       /\ url = IF Bracketed(url) THEN JoinedIn(host.text, PortText)
                                  ELSE Joined(host.text, PortText)
  /\ pc = "invalid" =>
       \A i \in Positions(url) :
         LET h == Part(url, 1, i) p == Tail0(url, i + 3)
         IN Colons(p) = {} => url # JoinedIn(h, p)

\* The name of an address in the log, used as a `listen' directive again,
\* leads to the same address and port.
NameLeadsBack ==
  pc = "done" /\ family \in {"inet", "inet6"} =>
    /\ Colons(name.text) # {}
    /\ Bracketed(name.text) => Closed(name.text)
    /\ HostCopy(name.text).text = ip
    /\ Tail0(name.text, PortAt(name.text)) = PortText
=============================================================================
