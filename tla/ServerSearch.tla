---------------------------- MODULE ServerSearch -----------------------------
(***************************************************************************)
(* mt5-webterm/src/search.rs: from the name of a server to the host that   *)
(* is dialled, by what MetaQuotes lists of the companies.                  *)
(*                                                                         *)
(* A name is how it reads in lower case and how it is written.  What is    *)
(* listed of a server's access is a text, split here where the code splits *)
(* it, at the last colon: a host and a port, or no port at all.            *)
(***************************************************************************)
EXTENDS Integers, Sequences, FiniteSets

CONSTANTS ServerNames, AccessTexts,     \* what may be listed
          MaxServers, MaxAccess         \* bounds: servers, access texts of all of them

ASSUME SearchAssumption == AccessTexts \subseteq [host : STRING, port : STRING]

VARIABLE catalogue        \* external: the servers of all companies, in the order of the answer

NoPort == "none"
WebPort == "443"
Ports == {WebPort, "701"}      \* texts that parse as a port; others do not
Text(host, port) == [host |-> host, port |-> port]
EmptyText == Text("", NoPort)
NotFound == Text("", "not found")

SearchInit == catalogue = <<>>

ListServer ==
    /\ Len(catalogue) < MaxServers
    /\ \E name \in ServerNames : catalogue' = Append(catalogue, [name |-> name, access |-> <<>>])

AllAccess == UNION {{i} \X DOMAIN catalogue[i].access : i \in DOMAIN catalogue}

ListAccess ==
    /\ catalogue # <<>> /\ Cardinality(AllAccess) < MaxAccess
    /\ \E text \in AccessTexts :
           catalogue' = [catalogue EXCEPT ![Len(catalogue)].access = Append(@, text)]

SearchNext == ListServer \/ ListAccess

SearchSpec == SearchInit /\ [][SearchNext]_catalogue

------------------------------------------------------------------------------
(* The code *)

\* Places in a list are told by their number, and what comes first by the least.
First(places) == CHOOSE i \in places : \A j \in places : i <= j

\* Places in their order: as many come before each as its own place says.
InOrder(places) ==
    [n \in 1 .. Cardinality(places) |->
        CHOOSE i \in places : Cardinality({j \in places : j < i}) = n - 1]

hits_named(name) == {i \in DOMAIN catalogue : catalogue[i].name.lower = name.lower}
AccessOf(name) == catalogue[First(hits_named(name))].access

HasPort(text) == text.host # "" /\ text.port \in Ports

\* A text without a colon is a host; one with a bad port, or without a host, is skipped.
Usable(access) ==
    {i \in DOMAIN access :
        HasPort(access[i]) \/ (access[i].port = NoPort /\ access[i].host # "")}

\* Fault: the first, whatever its port.
PickFirst(access) ==
    IF Usable(access) = {} THEN NotFound ELSE Text(access[First(Usable(access))].host, NoPort)
\* The host before ":443" of what is dialled; without a port it is the web port's.
pick_web_terminal(access) ==
    LET web == {i \in Usable(access) : access[i].port \in {WebPort, NoPort}}
        preferred == IF web # {} THEN web ELSE Usable(access)
    IN  IF preferred = {} THEN NotFound ELSE Text(access[First(preferred)].host, NoPort)

find_web_terminal(name) ==
    IF hits_named(name) = {} THEN NotFound ELSE pick_web_terminal(AccessOf(name))

\* Here a text with a bad port stays as it is, the port included, and ":443" follows.
Offered(text) == IF HasPort(text) THEN Text(text.host, NoPort) ELSE text

\* One that was offered before is not offered again.
Added(access) ==
    {i \in DOMAIN access :
        /\ access[i] # EmptyText
        /\ \A j \in 1 .. i - 1 : access[j] # EmptyText => Offered(access[j]) # Offered(access[i])}

access_points(name) ==
    IF hits_named(name) = {} THEN <<>>
    ELSE LET added == InOrder(Added(AccessOf(name)))
         IN  [n \in DOMAIN added |-> Offered(AccessOf(name)[added[n]])]

\* Sorted by the code; a set is enough here.
list_servers == {catalogue[i].name : i \in DOMAIN catalogue}

------------------------------------------------------------------------------
(* Properties *)

Elements(list) == {list[n] : n \in DOMAIN list}

Published(i) ==
    {text.host : text \in {t \in Elements(catalogue[i].access) :
                              t.host # "" /\ t.port \in Ports \union {NoPort}}}

\* The host dialled for a name is one its server publishes, one with the web port if there
\* is any, and one of those offered to be tried by name; each of these comes once, no host
\* of the server is missing among them, and every name offered finds its server.
HostsAreTrue ==
    \A name \in ServerNames :
        LET own == {i \in DOMAIN catalogue : catalogue[i].name.lower = name.lower}
            first == CHOOSE i \in own : \A j \in own : i <= j
            dialled == find_web_terminal(name)
            offered == access_points(name)
            Web(host) == \E p \in {WebPort, NoPort} :
                             Text(host, p) \in Elements(catalogue[first].access)
        IN  /\ own = {} <=> name.lower \notin {n.lower : n \in list_servers}
            /\ own = {} => dialled = NotFound
            /\ own # {} =>
                /\ dialled = NotFound <=> Published(first) = {}
                /\ dialled # NotFound =>
                       /\ dialled.host \in Published(first) /\ dialled \in Elements(offered)
                       /\ (\E h \in Published(first) : Web(h)) => Web(dialled.host)
                /\ \A h \in Published(first) : Text(h, NoPort) \in Elements(offered)
                /\ \A m, n \in DOMAIN offered : offered[m] = offered[n] => m = n

=============================================================================
