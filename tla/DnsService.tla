------------------------------ MODULE DnsService ------------------------------
(***************************************************************************)
(* network::DnsService: a table of hosts with their addresses, which callers *)
(* read and extend under lock_, and a worker thread that looks the hosts up   *)
(* and replaces their lists.                                                *)
(*                                                                         *)
(* Each critical section is one step.  GetHostInfo fills a list of the        *)
(* worker's own, one address after another, before UpdateHost puts it into    *)
(* the table.  Its test for an error of getaddrinfo is for -1, and an error   *)
(* is another number: res is then read uninitialized.  That place on the      *)
(* stack holds null, or the result of an earlier lookup, which is never       *)
(* freed.  (Any other value ends the process; behaviours do not go on.)       *)
(***************************************************************************)
EXTENDS Integers, Sequences

CONSTANTS Hosts, Addresses,
          Answers,    \* Answers[h]: what getaddrinfo may find for h
          Reliable,   \* the hosts for which getaddrinfo always finds something
          Width,      \* bits of size_t
          Null        \* no address, no host

ASSUME AnswersAssumption ==
  /\ Reliable \subseteq Hosts /\ Null \notin Hosts
  /\ \A h \in Hosts : Answers[h] # {} /\ Answers[h] \subseteq Seq(Addresses) \ {<<>>}
ASSUME WidthAssumption == Width \in Nat \ {0}

VARIABLES
  hosts,     \* hosts_info_: the addresses of each host in the table
  running,   \* running_
  owner,     \* what the thread that calls Start and Stop does
  pc,        \* where OnWork is, "none" without a thread
  pass,      \* the hosts that are left of the copy of the table
  host,      \* the host that is looked up
  rest,      \* what is left of the chain of results
  list,      \* the list GetHostInfo fills
  old        \* the chain a stale res leads to

work == <<pass, host, rest, list, old>>
vars == <<hosts, running, owner, pc, work>>

Init ==
  /\ hosts = [h \in {} |-> <<>>]
  /\ running = FALSE /\ owner = "idle" /\ pc = "none"
  /\ pass = {} /\ host = Null /\ rest = <<>> /\ list = <<>> /\ old = <<>>

Known == DOMAIN hosts

With(t, h, l) == [g \in DOMAIN t \cup {h} |-> IF g = h THEN l ELSE t[g]]

-----------------------------------------------------------------------------
(* Callers, in any thread.                                                 *)

AddHost(h) ==
  /\ h \notin Known
  /\ hosts' = With(hosts, h, <<>>)
  /\ UNCHANGED <<running, owner, pc, work>>

\* Mutant: the remainder of C++ for two ints.
SignedPosition(index, size) ==
  IF index < 0 THEN -((-index) % size) ELSE index % size

\* index % list.size(): the int becomes a size_t first.
Position(index, size) == (index % 2^Width) % size

\* One address of a host, or nothing.  Beyond the list, anything: Undefined.
GetHostAddress(h, index) ==
  IF h \notin Known \/ hosts[h] = <<>> THEN Null
  ELSE LET p == Position(index, Len(hosts[h])) + 1 IN
       IF p \in DOMAIN hosts[h] THEN hosts[h][p] ELSE "undefined"

-----------------------------------------------------------------------------
(* The owner.                                                              *)

\* A second Start without Stop would end the process: the owner makes none.
Start ==
  /\ owner = "idle" /\ pc = "none"
  /\ running' = TRUE /\ pc' = "test"
  /\ UNCHANGED <<hosts, owner, work>>

Stop ==
  /\ owner = "idle" /\ owner' = "joining"
  /\ running' = FALSE
  /\ UNCHANGED <<hosts, pc, work>>

\* join, where there is a thread.
Joined ==
  /\ owner = "joining" /\ pc \in {"none", "ended"}
  /\ owner' = "idle" /\ pc' = "none"
  /\ UNCHANGED <<hosts, running, work>>

-----------------------------------------------------------------------------
(* The worker: OnWork.                                                     *)

\* while (running_): a pass over a copy of the table.
Copy ==
  /\ pc = "test" /\ running
  /\ pass' = Known /\ pc' = "next"
  /\ UNCHANGED <<hosts, running, owner, host, rest, list, old>>

\* The loop ends, and the thread after the sleep that follows it.
Leave ==
  /\ pc = "test" /\ ~running
  /\ pc' = "ended"
  /\ UNCHANGED <<hosts, running, owner, work>>

\* The next host of the copy, in the order of the hash table.
NextHost(h) ==
  /\ pc = "next" /\ h \in pass
  /\ pass' = pass \ {h} /\ host' = h /\ list' = <<>> /\ pc' = "ask"
  /\ UNCHANGED <<hosts, running, owner, rest, old>>

PassDone ==
  /\ pc = "next" /\ pass = {}
  /\ pc' = "test"
  /\ UNCHANGED <<hosts, running, owner, work>>

\* getaddrinfo finds the chain a.
Found(a) ==
  /\ pc = "ask" /\ a \in Answers[host]
  /\ rest' = a /\ old' = a /\ pc' = "chain"
  /\ UNCHANGED <<hosts, running, owner, pass, host, list>>

\* getaddrinfo fails: res is null, or what the last lookup left there.
NotFound ==
  /\ pc = "ask" /\ host \notin Reliable
  /\ \E stale \in {<<>>, old} : rest' = stale
  /\ pc' = "chain"
  /\ UNCHANGED <<hosts, running, owner, pass, host, list, old>>

\* Mutant: the address goes to the table at once.
PushToTable ==
  /\ pc = "chain" /\ rest # <<>>
  /\ list' = Append(list, Head(rest)) /\ rest' = Tail(rest)
  /\ hosts' = [hosts EXCEPT ![host] = list']
  /\ UNCHANGED <<running, owner, pc, pass, host, old>>

\* One turn of the loop over the chain.
Push ==
  /\ pc = "chain" /\ rest # <<>>
  /\ list' = Append(list, Head(rest)) /\ rest' = Tail(rest)
  /\ UNCHANGED <<hosts, running, owner, pc, pass, host, old>>

\* Mutant: a pass that updated a host starts from the first host again.
UpdateAndRepeat ==
  /\ pc = "chain" /\ rest = <<>> /\ list # <<>>
  /\ hosts' = With(hosts, host, list)
  /\ pc' = "ask" /\ list' = <<>>
  /\ UNCHANGED <<running, owner, pass, host, rest, old>>

\* UpdateHost and break: the rest of the copy is not looked up.
UpdateHost ==
  /\ pc = "chain" /\ rest = <<>> /\ list # <<>>
  /\ hosts' = With(hosts, host, list)
  /\ pc' = "test" /\ pass' = {} /\ list' = <<>>
  /\ UNCHANGED <<running, owner, host, rest, old>>

\* Nothing found: sleep and go on with the next host.
Sleep ==
  /\ pc = "chain" /\ rest = <<>> /\ list = <<>>
  /\ pc' = "next"
  /\ UNCHANGED <<hosts, running, owner, work>>

-----------------------------------------------------------------------------
OnWork ==
  \/ Copy \/ Leave \/ PassDone \/ NotFound \/ Push \/ UpdateHost \/ Sleep
  \/ \E h \in Hosts : NextHost(h) \/ \E a \in Answers[h] : h = host /\ Found(a)

Next ==
  \/ OnWork \/ Start \/ Stop \/ Joined
  \/ \E h \in Hosts : AddHost(h)

\* The worker's thread runs and getaddrinfo returns; join returns.
Spec == Init /\ [][Next]_vars /\ WF_vars(OnWork) /\ WF_vars(Joined)

-----------------------------------------------------------------------------
(* Properties.                                                             *)

\* A list in the table changes only to the whole of what one lookup found: no
\* caller sees a part of it, and neither a lookup that fails nor an AddHost
\* empties it.
UpdatesAreWhole ==
  [][\A h \in Known : /\ h \in DOMAIN hosts'
                      /\ hosts'[h] = hosts[h] \/ \E g \in Hosts : hosts'[h] \in Answers[g]]_vars

\* Whatever the caller's index, also a negative one: the address is one of the host's.
IndexIsSafe ==
  \A h \in Known, index \in -(2^(Width - 1))..(2^(Width - 1) - 1) :
    hosts[h] # <<>> => \E i \in DOMAIN hosts[h] : GetHostAddress(h, index) = hosts[h][i]

\* Stop returns, whatever the worker is doing.
StopReturns == (owner = "joining") ~> (owner = "idle")

\* GetHostInfo returns when getaddrinfo fails, says its comment: the addresses
\* of a host are its own.
OwnAddresses == \A h \in Known : hosts[h] # <<>> => hosts[h] \in Answers[h]

=============================================================================
