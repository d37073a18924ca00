-------------------------------- MODULE Mcast --------------------------------
(***************************************************************************)
(* Multicast options of an llsocket.socket (socket.c, mcast*_lua), and     *)
(* llsocket.device, on a host whose IPv4 addresses come and go.            *)
(*                                                                         *)
(* A script names an interface.  For IPv6 the methods pass its index to    *)
(* the kernel.  For IPv4 they ask for the interface's address first        *)
(* (SIOCGIFADDR), and pass that: a call is two steps, between which the    *)
(* addresses may change.  The kernel finds the interface that has the      *)
(* address and remembers that interface; of IP_MULTICAST_IF it also        *)
(* remembers the address, from which mcastif() finds the name again.       *)
(***************************************************************************)
EXTENDS Device

CONSTANTS
    Setups,         \* the socket, the interfaces without hardware address, and
                    \* which of the methods the script calls
    Group, Source,  \* addresses that are joined and blocked
    Addr,           \* IPv4 addresses of interfaces
    ANY,            \* INADDR_ANY
    MaxChanges      \* bound: addresses added and removed

IsSetup(su) ==
    /\ su.socktype \in {"dgram", "raw", "stream"}
    /\ su.family \in {"inet", "inet6", "unix"}
    /\ su.bare \subseteq Link /\ su.script \in {"groups", "outgoing", "others"}

ASSUME McastAssumption ==
    /\ \A su \in Setups : IsSetup(su)
    /\ Links # <<>> /\ ANY \notin Addr \cup Link /\ Nil \notin Addr \cup {ANY}
    /\ MaxChanges \in Nat

\* nil is no table.
ASSUME TableAssumption == Nil \notin [ether : BOOLEAN, inet : Seq(Addr), inet6 : Seq(Link)]

VARIABLES
    setup,          \* the setup of this run
    v4,             \* the IPv4 addresses of each interface, the primary first
    changes,        \* how often they changed
    call,           \* the method that has resolved its interface, or Nil
    rules,          \* the kernel's memberships and source filters of the socket
    out,            \* and its interface for outgoing multicast
    want, wantOut,  \* history: the same, as the methods' results say
    raced,          \* history: an address changed in the middle of a call
    opt,            \* the kernel's IP_MULTICAST_LOOP and IP_MULTICAST_TTL
    was,            \* what mcastloop() or mcastttl() returned last
    told,           \* what mcastif() returned last
    dev,            \* what device.getifaddrs() returned last
    crashed         \* the process read through a null pointer

sock == <<rules, out, opt, was>>
hist == <<want, wantOut, raced>>
vars == <<setup, v4, changes, call, sock, hist, told, dev, crashed>>

NoOut == [link |-> Nil, addr |-> ANY]
Init ==
    /\ setup \in Setups
    /\ v4 = [l \in Link |-> <<>>] /\ changes = 0
    /\ call = Nil
    /\ rules = {} /\ out = NoOut
    /\ want = {} /\ wantOut = Nil /\ raced = FALSE
    /\ opt = [o \in {"loop", "ttl"} |-> 1] /\ was = Nil
    /\ told = Nil
    /\ dev = [l \in Link |-> Nil]
    /\ crashed = FALSE

Runs(script) == setup.script = script /\ ~crashed /\ call = Nil
IsV4 == setup.family = "inet"
On(l, a) == \E i \in 1..Len(v4[l]) : v4[l][i] = a
Used(a) == \E l \in Link : On(l, a)

\* Mutant of Supported: the socket type is not looked at.
Supported_anyType == setup.family \in {"inet", "inet6"}

\* The first test of every method: ESOCKTNOSUPPORT and EAFNOSUPPORT.
Supported == setup.socktype \in {"dgram", "raw"} /\ setup.family \in {"inet", "inet6"}

-----------------------------------------------------------------------------
(* The environment: somebody configures the interfaces. *)

Change(l, s) ==
    /\ ~crashed /\ changes < MaxChanges
    /\ v4' = [v4 EXCEPT ![l] = s]
    /\ changes' = changes + 1
    /\ raced' = (raced \/ (IsV4 /\ call # Nil))
    /\ UNCHANGED <<setup, call, sock, want, wantOut, told, dev, crashed>>
AddAddr(l, a) == ~Used(a) /\ Change(l, Append(v4[l], a))
DelAddr(l) == \E i \in 1..Len(v4[l]) : Change(l, RemoveAt(v4[l], i))

-----------------------------------------------------------------------------
(* Interface names. *)

\* Mutant of Resolve: the name is not looked at.
Resolve_any(l) == {IF IsV4 THEN ANY ELSE Nil}

\* What a method passes to the kernel for the name l: SIOCGIFADDR for IPv4,
\* if_nametoindex for IPv6.  Empty: the error of the first.
Resolve(l) ==
    IF ~IsV4 THEN {l}
    ELSE IF l = Nil THEN {ANY}
    ELSE IF v4[l] = <<>> THEN {} ELSE {Head(v4[l])}

\* The kernel's side: the interface with that address or index; without one,
\* the kernel chooses, by its routes or by the socket's memberships.
DeviceFor(i) ==
    IF i \in {ANY, Nil} THEN Link
    ELSE IF IsV4 THEN {l \in Link : On(l, i)} ELSE {i}

-----------------------------------------------------------------------------
(* Memberships and source filters. *)

Method == {"mcastjoin", "mcastleave", "mcastjoinsrc", "mcastleavesrc",
           "mcastblocksrc", "mcastunblocksrc"}

\* The option that each method sets.
Option(m) ==
    IF IsV4
    THEN [mcastjoin |-> "IP_ADD_MEMBERSHIP", mcastleave |-> "IP_DROP_MEMBERSHIP",
          mcastjoinsrc |-> "IP_ADD_SOURCE_MEMBERSHIP",
          mcastleavesrc |-> "IP_DROP_SOURCE_MEMBERSHIP",
          mcastblocksrc |-> "IP_BLOCK_SOURCE", mcastunblocksrc |-> "IP_UNBLOCK_SOURCE"][m]
    ELSE [mcastjoin |-> "IPV6_JOIN_GROUP", mcastleave |-> "IPV6_LEAVE_GROUP",
          mcastjoinsrc |-> "MCAST_JOIN_SOURCE_GROUP",
          mcastleavesrc |-> "MCAST_LEAVE_SOURCE_GROUP",
          mcastblocksrc |-> "MCAST_BLOCK_SOURCE",
          mcastunblocksrc |-> "MCAST_UNBLOCK_SOURCE"][m]

\* What the kernel takes the options for.
Request(o) ==
    CASE o \in {"IP_ADD_MEMBERSHIP", "IPV6_JOIN_GROUP"} -> "join"
      [] o \in {"IP_DROP_MEMBERSHIP", "IPV6_LEAVE_GROUP"} -> "leave"
      [] o \in {"IP_ADD_SOURCE_MEMBERSHIP", "MCAST_JOIN_SOURCE_GROUP"} -> "joinsrc"
      [] o \in {"IP_DROP_SOURCE_MEMBERSHIP", "MCAST_LEAVE_SOURCE_GROUP"} -> "leavesrc"
      [] o \in {"IP_BLOCK_SOURCE", "MCAST_BLOCK_SOURCE"} -> "blocksrc"
      [] o \in {"IP_UNBLOCK_SOURCE", "MCAST_UNBLOCK_SOURCE"} -> "unblocksrc"

\* What each method is for, by its name.
Purpose ==
    [mcastjoin |-> "join", mcastleave |-> "leave", mcastjoinsrc |-> "joinsrc",
     mcastleavesrc |-> "leavesrc", mcastblocksrc |-> "blocksrc",
     mcastunblocksrc |-> "unblocksrc"]

\* The rules after a request.  A group that is left, or whose last included
\* source is removed, takes its filters with it.
Rule(k, g, x, l) == [kind |-> k, grp |-> g, src |-> x, link |-> l]
Of(k, g, l, rs) == {r \in rs : r.kind = k /\ r.grp = g /\ r.link = l}
Without(g, l, rs) == {r \in rs : r.grp # g \/ r.link # l}
After(req, g, x, l, rs) ==
    LET member  == Rule("member", g, Nil, l)
        include == Rule("include", g, x, l)
        exclude == Rule("exclude", g, x, l)
    IN CASE req = "join"       -> rs \cup {member}
         [] req = "leave"      -> Without(g, l, rs)
         [] req = "joinsrc"    -> rs \cup {member, include}
         [] req = "leavesrc"   -> IF Of("include", g, l, rs) = {include}
                                  THEN Without(g, l, rs) ELSE rs \ {include}
         [] req = "blocksrc"   -> rs \cup {exclude}
         [] req = "unblocksrc" -> rs \ {exclude}

\* The kernel refuses what changes nothing, a filter without membership, and a
\* mixture of included and excluded sources.
Grants(req, g, x, l) ==
    /\ After(req, g, x, l, rules) # rules
    /\ req = "joinsrc" => Of("exclude", g, l, rules) = {}
    /\ req = "blocksrc" =>
          Of("member", g, l, rules) # {} /\ Of("include", g, l, rules) = {}

\* mcast4group_lua and its relatives up to setsockopt.  An address of another
\* family than the socket's is refused, as is what cannot be resolved.
Enter(m, g, x, l) ==
    /\ Runs("groups") /\ Supported
    /\ \E i \in Resolve(l) : call' = [m |-> m, grp |-> g, src |-> x, name |-> l, id |-> i]
    /\ UNCHANGED <<setup, v4, changes, sock, hist, told, dev, crashed>>

\* And setsockopt.  If it fails, nothing has changed.
Commit ==
    /\ call # Nil /\ call.m \in Method
    /\ call' = Nil
    /\ \/ \E l \in DeviceFor(call.id) :
             LET named == IF call.name = Nil THEN l ELSE call.name IN
             /\ Grants(Request(Option(call.m)), call.grp, call.src, l)
             /\ rules' = After(Request(Option(call.m)), call.grp, call.src, l, rules)
             /\ want' = After(Purpose[call.m], call.grp, call.src, named, want)
       \/ UNCHANGED <<rules, want>>
    /\ UNCHANGED <<setup, v4, changes, out, opt, was, wantOut, raced, told, dev, crashed>>

-----------------------------------------------------------------------------
(* The interface for outgoing multicast. *)

\* mcastif4_lua goes through getifaddrs(3) to the first entry with the address,
\* and reads the family of each on the way.
FirstWith(list, a) ==
    LET hits == {i \in 1..Len(list) : list[i].family = "inet" /\ list[i].addr = a}
    IN IF hits = {} THEN 0 ELSE CHOOSE i \in hits : \A j \in hits : i =< j
NullRead ==
    LET list == IfList(v4, setup.bare)
        last == FirstWith(list, out.addr)
    IN IsV4 /\ \E i \in 1..Len(list) : list[i].addr = Nil /\ (last = 0 \/ i < last)

\* Mutant of OutName: it is the primary address of each interface that counts.
OutName_primary ==
    LET at == {l \in Link : v4[l] # <<>> /\ Head(v4[l]) = out.addr}
    IN IF ~IsV4 THEN out.link ELSE IF at = {} THEN Nil ELSE CHOOSE l \in at : TRUE

\* The name that mcastif() returns; if_indextoname for IPv6.
OutName ==
    LET list == IfList(v4, setup.bare)
        i == FirstWith(list, out.addr)
    IN IF ~IsV4 THEN out.link ELSE IF i = 0 THEN Nil ELSE list[i].name

Crash ==
    /\ Runs("outgoing") /\ Supported /\ NullRead
    /\ crashed' = TRUE
    /\ UNCHANGED <<setup, v4, changes, call, sock, hist, told, dev>>

\* s:mcastif(): the current interface.
GetIf ==
    /\ Runs("outgoing") /\ Supported /\ ~NullRead
    /\ told' = OutName
    /\ UNCHANGED <<setup, v4, changes, call, sock, hist, dev, crashed>>

\* s:mcastif(name) and s:mcastif(nil): the interface before, then the change.
EnterIf(l) ==
    /\ Runs("outgoing") /\ Supported /\ ~NullRead
    /\ told' = OutName
    /\ \E i \in Resolve(l) : call' = [m |-> "mcastif", name |-> l, id |-> i]
    /\ UNCHANGED <<setup, v4, changes, sock, hist, dev, crashed>>

CommitIf ==
    /\ call # Nil /\ call.m = "mcastif"
    /\ call' = Nil
    /\ \/ /\ call.id \in {ANY, Nil}
          /\ out' = NoOut /\ wantOut' = Nil
       \/ /\ call.id \notin {ANY, Nil}
          /\ \E l \in DeviceFor(call.id) :
                out' = [link |-> l, addr |-> IF IsV4 THEN call.id ELSE ANY]
          /\ wantOut' = call.name
       \/ UNCHANGED <<out, wantOut>>
    /\ UNCHANGED <<setup, v4, changes, rules, opt, was, want, raced, told, dev, crashed>>

-----------------------------------------------------------------------------
\* s:mcastloop(v) and s:mcastttl(v), also without a value (v = Nil): they return
\* the value before, and change it if there is another to set.  getsockopt(2) or
\* setsockopt(2) may fail: they return nil, and nothing has changed.
SetOption(o, v) ==
    /\ Runs("others") /\ Supported
    /\ \/ /\ was' = opt[o]
          /\ opt' = IF v = Nil THEN opt ELSE [opt EXCEPT ![o] = v]
       \/ was' = Nil /\ UNCHANGED opt
    /\ UNCHANGED <<setup, v4, changes, call, rules, out, hist, told, dev, crashed>>

\* device.getifaddrs().
Devices ==
    /\ Runs("others")
    /\ dev' = GetIfAddrs(IfList(v4, setup.bare))
    /\ UNCHANGED <<setup, v4, changes, call, sock, hist, told, crashed>>

Next ==
    \/ \E l \in Link : DelAddr(l) \/ \E a \in Addr : AddAddr(l, a)
    \/ \E m \in Method, g \in Group, x \in Source, l \in Link \cup {Nil} : Enter(m, g, x, l)
    \/ \E l \in Link \cup {Nil} : EnterIf(l)
    \/ \E o \in {"loop", "ttl"}, v \in {0, 1, Nil} : SetOption(o, v)
    \/ Commit \/ CommitIf \/ GetIf \/ Crash \/ Devices

Spec == Init /\ [][Next]_vars
-----------------------------------------------------------------------------
IsRule(r) ==
    /\ r.kind \in {"member", "include", "exclude"} /\ r.grp \in Group
    /\ r.src \in Source \cup {Nil} /\ r.link \in Link

\* Every variable keeps its type; a socket that cannot do multicast has no
\* memberships, and no filter outlives the membership it belongs to.
TypeOK ==
    /\ setup \in Setups /\ changes \in 0..MaxChanges
    /\ \A l \in Link : Len(v4[l]) =< MaxChanges /\ \A i \in 1..Len(v4[l]) : v4[l][i] \in Addr
    /\ \A r \in rules \cup want : IsRule(r)
    /\ \A r \in rules : Rule("member", r.grp, Nil, r.link) \in rules
    /\ setup.socktype = "stream" \/ setup.family = "unix" =>
          rules = {} /\ out = NoOut /\ call = Nil
    /\ opt \in [{"loop", "ttl"} -> 0..1] /\ was \in {0, 1, Nil}
    /\ out.link \in Link \cup {Nil} /\ out.addr \in Addr \cup {ANY}
    /\ wantOut \in Link \cup {Nil} /\ told \in Link \cup {Nil}
    /\ raced \in BOOLEAN /\ crashed \in BOOLEAN

\* What the results of the methods say is what the kernel has: the memberships,
\* filters and outgoing interface are on the interfaces the script named, though
\* for IPv4 an address stands in for the name and addresses come and go between
\* the calls (not in the middle of one).
AsNamed == ~raced => rules = want /\ out.link = wantOut

\* mcastif() returns the interface in use as long as that has kept the address
\* by which it was set.
TellsInterface ==
    [][told' # told =>
         \/ told' = out.link
         \/ IsV4 /\ out.link # Nil /\ ~On(out.link, out.addr)]_vars

\* The table of device.getifaddrs(): every interface that has an address of any
\* kind, with all of its addresses, in order, and nobody else's.
DevicesComplete ==
    [][dev' # dev => \A l \in Link :
         LET six == IF l \in Six THEN <<l>> ELSE <<>> IN
         IF l \in setup.bare /\ v4[l] = <<>> /\ six = <<>> THEN dev'[l] = Nil
         ELSE dev'[l] = [ether |-> l \notin setup.bare, inet |-> v4[l], inet6 |-> six]]_vars

\* "get the `IP_MULTICAST_IF` value": mcastif() returns.
NeverCrashes == ~crashed
-----------------------------------------------------------------------------
(* The inductive invariant of the proofs. *)

\* No two interfaces have an address in common, and none has one twice.
AddressesOK ==
    /\ v4 \in [Link -> Seq(Addr)]
    /\ \A l \in Link : Len(v4[l]) =< changes
    /\ \A l, m \in Link : \A i \in 1..Len(v4[l]), j \in 1..Len(v4[m]) :
          v4[l][i] = v4[m][j] => l = m /\ i = j

\* A method between its two steps holds the index, or what was the interface's
\* address and still is unless the addresses have changed since.
CallOK ==
    call # Nil =>
      /\ Supported
      /\ call.name \in Link \cup {Nil}
      /\ \/ call.m = "mcastif"
         \/ call.m \in Method /\ call.grp \in Group /\ call.src \in Source
      /\ ~IsV4 => call.id = call.name
      /\ IsV4 /\ call.name = Nil => call.id = ANY
      /\ IsV4 /\ call.name # Nil => call.id \in Addr /\ (~raced => On(call.name, call.id))

IInv ==
    /\ TypeOK /\ AddressesOK /\ CallOK /\ AsNamed
    /\ out.link = Nil => out.addr = ANY
=============================================================================
