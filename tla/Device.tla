------------------------------- MODULE Device -------------------------------
(***************************************************************************)
(* llsocket.device (device.c): getifaddrs_lua turns the list of            *)
(* getifaddrs(3), one entry per address, into one table per interface.     *)
(* Entries of one interface are spread over the list: Linux gives the      *)
(* hardware address of every interface first, then all addresses of IPv4,  *)
(* then those of IPv6.  An entry has no address where there is none to     *)
(* give, as for a tunnel without hardware address.                         *)
(***************************************************************************)
EXTENDS SequencesExt

CONSTANTS
    Links,          \* the interface names, in the order of the kernel
    Six,            \* the interfaces with an IPv6 address
    Nil             \* NULL, nil, no interface

Link == {Links[i] : i \in 1..Len(Links)}

ASSUME LinkAssumption ==
    /\ Links \in Seq(Link)
    /\ \A i, j \in 1..Len(Links) : Links[i] = Links[j] => i = j
    /\ Six \subseteq Link /\ Nil \notin Link

\* The list for IPv4 addresses v4 (a sequence for each interface), where the
\* interfaces in `bare' have no hardware address.
Entry(l, f, a) == [name |-> l, family |-> f, addr |-> a]
IfList(v4, bare) ==
    LET Each(entries) == FlattenSeq([i \in 1..Len(Links) |-> entries[Links[i]]])
    IN  Each([l \in Link |-> <<Entry(l, "packet", IF l \in bare THEN Nil ELSE l)>>])
     \o Each([l \in Link |-> [k \in 1..Len(v4[l]) |-> Entry(l, "inet", v4[l][k])]])
     \o Each([l \in Link |-> IF l \in Six THEN <<Entry(l, "inet6", l)>> ELSE <<>>])

\* The table of an interface: its flags, index and mtu are set when it is made.
NewTable == [ether |-> FALSE, inet |-> <<>>, inet6 |-> <<>>]

\* Mutant of TableOf: every entry starts a new table.
TableOf_anew(t, l) == NewTable
TableOf(t, l) == IF t[l] = Nil THEN NewTable ELSE t[l]

AddTo(table, e) ==
    CASE e.family = "inet"   -> [table EXCEPT !.inet = Append(@, e.addr)]
      [] e.family = "inet6"  -> [table EXCEPT !.inet6 = Append(@, e.addr)]
      [] e.family = "packet" -> [table EXCEPT !.ether = TRUE]

\* The loop of getifaddrs_lua: entries without an address are left out.
GetIfAddrs(list) ==
    LET table[i \in 0..Len(list)] ==
            IF i = 0 THEN [l \in Link |-> Nil]
            ELSE LET t == table[i - 1]
                     e == list[i]
                 IN IF e.addr = Nil THEN t
                    ELSE [t EXCEPT ![e.name] = AddTo(TableOf(t, e.name), e)]
    IN table[Len(list)]
=============================================================================
