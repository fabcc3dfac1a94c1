---------------------------- MODULE NngLongDaemon ----------------------------
(***************************************************************************)
(* The proxy daemon of lib/ipc_nng_long.  A process connects once (CONN)   *)
(* and registers its modules over that connection; the daemon routes       *)
(* requests to the connection that registered the destination, answers to  *)
(* the one that registered the source, and parks a request whose           *)
(* destination was never seen until it registers or the request expires.   *)
(*                                                                         *)
(* The callbacks of different connections run on different threads.  Each  *)
(* looks the map up under its mutex and goes on after the unlock, so a     *)
(* callback is two steps.  A connection's own callback never overlaps with *)
(* its removal: nng_aio_stop waits for it.                                 *)
(***************************************************************************)
EXTENDS Integers, FiniteSets, Sequences

CONSTANTS
    Processes,
    Modules,
    Hosts,      \* Hosts[p]: the modules the program of p initialises
    Events,     \* the requests, each made at most once
    Type,       \* Type[e]: "REQ", "ASYNC_REQ", "STREAM_REQ" or "MULT_REQ"
    Src,        \* Src[e]: the module that makes e
    Dests,      \* Dests[e]: its destinations, one unless it is a multicast
    MaxItems,   \* bound: connections made
    MaxAsked,   \* bound: requests made
    MaxExits,   \* bound: processes that end
    MaxTries,   \* MaxTries[m]: sends of REGISTER before init gives up (4 in the code)
    None

ReplyType == [REQ |-> "REP", ASYNC_REQ |-> "ASYNC_REP", STREAM_REQ |-> "STREAM_REP",
              MULT_REQ |-> "REP"]

ASSUME DaemonAssumption ==
    /\ Hosts \in [Processes -> SUBSET Modules]
    /\ \A p, q \in Processes : p # q => Hosts[p] \cap Hosts[q] = {}
    /\ Type \in [Events -> DOMAIN ReplyType]
    /\ Src \in [Events -> Modules]
    /\ Dests \in [Events -> (SUBSET Modules) \ {{}}]
    /\ \A e \in Events : Type[e] # "MULT_REQ" => Cardinality(Dests[e]) = 1
    /\ MaxItems \in Nat /\ MaxAsked \in Nat /\ MaxExits \in Nat
    /\ MaxTries \in [Modules -> Nat \ {0}]
    /\ None \notin Modules \cup Events \cup 1..MaxItems

VARIABLES
    reg_item,                   \* the connections the daemon made
    g_proxy_reg_map,
    g_registered_module_array,  \* the modules that ever registered
    cb,                         \* pair_recv_proxy_cb of each connection
    parked,                     \* parked[e]: the connection of the expire item of e
    due,                        \* due[e]: how far the expiry of e is
    up, down,                   \* messages to the daemon, in order; to the process
    conn,                       \* conn[p]: the connection of p
    init, tries,                \* the ipc_nng_long_init of each module
    fate,                       \* what became of each request (history)
    claims, contested           \* who registered what (history)

daemon == <<reg_item, g_proxy_reg_map, g_registered_module_array, cb, parked>>
library == <<conn, init, tries>>
history == <<fate, claims, contested>>
vars == <<daemon, due, up, down, library, history>>

Items == 1..MaxItems
Unicast == {e \in Events : Type[e] # "MULT_REQ"}
Dest(e) == CHOOSE m \in Dests[e] : TRUE

Message(type, what, result) == [type |-> type, what |-> what, result |-> result]
Request(e) == Message(Type[e], e, 0)
Answer(e, result) == Message(ReplyType[Type[e]], e, result)
Requests == {"REQ", "ASYNC_REQ", "STREAM_REQ"}
Answers == {"REP", "ASYNC_REP", "STREAM_REP"}

Idle == [msg |-> Message("NONE", None, 0), found |-> None, todo |-> {}]
Unused == [state |-> "unused", list |-> {}]
Deleted == [state |-> "deleted", list |-> {}]
InState(item, state) == [item EXCEPT !.state = state]
Listing(item, m) == [item EXCEPT !.list = @ \cup {m}]

Init ==
    /\ reg_item = [i \in Items |-> Unused]
    /\ g_proxy_reg_map = [m \in Modules |-> None]
    /\ g_registered_module_array = {}
    /\ cb = [i \in Items |-> Idle]
    /\ parked = [e \in Events |-> None]
    /\ due = [e \in Events |-> "ample"]
    /\ up = [i \in Items |-> <<>>]
    /\ down = [i \in Items |-> {}]
    /\ conn = [p \in Processes |-> None]
    /\ init = [m \in Modules |-> "none"]
    /\ tries = [m \in Modules |-> 0]
    /\ fate = [e \in Events |-> "none"]
    /\ claims = [m \in Modules |-> {}]
    /\ contested = {}

\* sock_aio_alloc_send: a message to a connection that is gone is dropped.
Sent(d, i, msg) ==
    IF i # None /\ reg_item[i].state = "open" THEN [d EXCEPT ![i] = @ \cup {msg}] ELSE d

Fated(es, f) == [e \in Events |-> IF e \in es THEN f ELSE fate[e]]

\* The request reaches a process, or its connection has just gone.
Handed(e, i) == Fated({e}, IF reg_item[i].state = "open" THEN "handed" ELSE "lost")

-----------------------------------------------------------------------------
(***************************************************************************)
(* pair_recv_proxy_cb.                                                     *)
(***************************************************************************)

\* find_proxy_reg_item, with the module the message is to be routed by; those of a
\* multicast are looked up later.
find_proxy_reg_item(msg) ==
    IF msg.type = "REGISTER" THEN g_proxy_reg_map[msg.what]
    ELSE IF msg.type \in Requests THEN g_proxy_reg_map[Dest(msg.what)]
    ELSE IF msg.type \in Answers THEN g_proxy_reg_map[Src[msg.what]]
    ELSE None

\* A module is contested once two connections that are not cleaned up claim it.
Claim(i, msg) ==
    IF msg.type = "REGISTER"
    THEN /\ claims' = [claims EXCEPT ![msg.what] = @ \cup {i}]
         /\ contested' = IF claims[msg.what] \subseteq {i} THEN contested
                         ELSE contested \cup {msg.what}
    ELSE UNCHANGED <<claims, contested>>

PairRecv(i) ==
    /\ reg_item[i].state \in {"open", "lost"}
    /\ cb[i] = Idle
    /\ up[i] # <<>>
    /\ LET msg == Head(up[i])
       IN cb' = [cb EXCEPT ![i] =
                   [msg |-> msg, found |-> find_proxy_reg_item(msg),
                    todo |-> IF msg.type = "MULT_REQ" THEN Dests[msg.what] ELSE {}]]
    /\ up' = [up EXCEPT ![i] = Tail(@)]
    /\ Claim(i, Head(up[i]))
    /\ UNCHANGED <<reg_item, g_proxy_reg_map, g_registered_module_array, parked, due,
                   down, library, fate>>

\* insert keeps an entry that another callback made since the lookup.
Inserted(m, i) ==
    IF g_proxy_reg_map[m] = None THEN [g_proxy_reg_map EXCEPT ![m] = i] ELSE g_proxy_reg_map

RegisterModule(i) ==
    LET m == cb[i].msg.what
        Reply(result) == Sent(down, i, Message("REGISTER", m, result))
    IN /\ cb[i].msg.type = "REGISTER"
       /\ \/ /\ cb[i].found # None
             /\ down' = Reply(-3)
             /\ UNCHANGED <<reg_item, g_proxy_reg_map>>
          \/ /\ cb[i].found = None
             /\ g_proxy_reg_map' = Inserted(m, i)
             /\ reg_item' = [reg_item EXCEPT ![i] = Listing(@, m)]
             /\ down' = Reply(0)
       /\ g_registered_module_array' = g_registered_module_array \cup {m}
       /\ cb' = [cb EXCEPT ![i] = Idle]
       /\ UNCHANGED <<parked, due, up, library, history>>

M_ForwardRequest(i) ==
    LET e == cb[i].msg.what
    IN /\ cb[i].msg.type \in Requests
       /\ cb[i].found = None
       /\ Dest(e) \notin g_registered_module_array
       /\ parked' = [parked EXCEPT ![e] = i]
       /\ down' = Sent(down, i, Answer(e, -2))
       /\ fate' = Fated({e}, "answered")
       /\ cb' = [cb EXCEPT ![i] = Idle]
       /\ UNCHANGED <<reg_item, g_proxy_reg_map, g_registered_module_array, due, up,
                      library, claims, contested>>

\* A request: to its destination; refused if that has gone, or if no time is
\* left to try again; parked otherwise.  The time left is unsigned, so that an
\* expiry that has passed is far away and the request is parked too.
ForwardRequest(i) ==
    LET e == cb[i].msg.what
    IN /\ cb[i].msg.type \in Requests
       /\ \/ /\ cb[i].found # None
             /\ down' = Sent(down, cb[i].found, cb[i].msg)
             /\ fate' = Handed(e, cb[i].found)
             /\ UNCHANGED parked
          \/ /\ cb[i].found = None
             /\ Dest(e) \in g_registered_module_array \/ due[e] = "near"
             /\ down' = Sent(down, i, Answer(e, -2))
             /\ fate' = Fated({e}, "answered")
             /\ UNCHANGED parked
          \/ /\ cb[i].found = None
             /\ Dest(e) \notin g_registered_module_array
             /\ due[e] # "near"
             /\ parked' = [parked EXCEPT ![e] = i]
             /\ UNCHANGED <<down, fate>>
       /\ cb' = [cb EXCEPT ![i] = Idle]
       /\ UNCHANGED <<reg_item, g_proxy_reg_map, g_registered_module_array, due, up,
                      library, claims, contested>>

Without(work, m) == [work EXCEPT !.todo = @ \ {m}]

\* A multicast: a copy to each destination, looked up one by one, then a REP.
\* The copies keep the dest_id of the original, which is 0.
ForwardMulticast(i) ==
    LET e == cb[i].msg.what
    IN /\ cb[i].msg.type = "MULT_REQ"
       /\ \/ \E m \in cb[i].todo :
                /\ down' = Sent(down, g_proxy_reg_map[m], cb[i].msg)
                /\ cb' = [cb EXCEPT ![i] = Without(@, m)]
                /\ UNCHANGED fate
          \/ /\ cb[i].todo = {}
             /\ down' = Sent(down, i, Answer(e, 0))
             /\ cb' = [cb EXCEPT ![i] = Idle]
             /\ fate' = Fated({e}, "answered")
       /\ UNCHANGED <<reg_item, g_proxy_reg_map, g_registered_module_array, parked, due,
                      up, library, claims, contested>>

ForwardAnswer(i) ==
    /\ cb[i].msg.type \in Answers
    /\ down' = Sent(down, cb[i].found, cb[i].msg)
    /\ cb' = [cb EXCEPT ![i] = Idle]
    /\ UNCHANGED <<reg_item, g_proxy_reg_map, g_registered_module_array, parked, due, up,
                   library, history>>

PairAct(i) ==
    RegisterModule(i) \/ ForwardRequest(i) \/ ForwardMulticast(i) \/ ForwardAnswer(i)

-----------------------------------------------------------------------------
(***************************************************************************)
(* The timers: of a parked request, and of a connection whose pipe is gone. *)
(***************************************************************************)
M_proxy_expire_cb(e) ==
    LET i == g_proxy_reg_map[Dest(e)]
    IN /\ parked[e] # None
       /\ i # None
       /\ down' = Sent(down, i, Request(e))
       /\ fate' = Handed(e, i)
       /\ parked' = [parked EXCEPT ![e] = None]
       /\ UNCHANGED <<reg_item, g_proxy_reg_map, g_registered_module_array, cb, due, up,
                      library, claims, contested>>

proxy_expire_cb(e) ==
    LET i == g_proxy_reg_map[Dest(e)]
    IN /\ parked[e] # None
       /\ \/ /\ i # None
             /\ down' = Sent(down, i, Request(e))
             /\ fate' = Handed(e, i)
             /\ parked' = [parked EXCEPT ![e] = None]
          \/ /\ i = None
             /\ due[e] = "past"
             /\ down' = Sent(down, parked[e], Answer(e, -8))
             /\ fate' = Fated({e}, "answered")
             /\ parked' = [parked EXCEPT ![e] = None]
          \/ i = None /\ due[e] # "past" /\ UNCHANGED <<down, fate, parked>>
       /\ UNCHANGED <<reg_item, g_proxy_reg_map, g_registered_module_array, cb, due, up,
                      library, claims, contested>>

\* Time passes.
Elapse(e) ==
    /\ fate[e] = "asked"
    /\ due[e] # "past"
    /\ due' = [due EXCEPT ![e] = IF @ = "ample" THEN "near" ELSE "past"]
    /\ UNCHANGED <<daemon, up, down, library, history>>

\* The requests that wait to be read on the connection.
Unread(i) == {up[i][k].what : k \in {n \in 1..Len(up[i]) : up[i][n].type \in DOMAIN ReplyType}}

M_unreg_cb(i) ==
    /\ reg_item[i].state = "lost"
    /\ cb[i] = Idle
    /\ reg_item' = [reg_item EXCEPT ![i] = Deleted]
    /\ up' = [up EXCEPT ![i] = <<>>]
    /\ fate' = Fated(Unread(i), "lost")
    /\ claims' = [m \in Modules |-> claims[m] \ {i}]
    /\ UNCHANGED <<g_proxy_reg_map, g_registered_module_array, cb, parked, due, down,
                   library, contested>>

M_unreg_cb_all(i) ==
    /\ reg_item[i].state = "lost"
    /\ cb[i] = Idle
    /\ g_proxy_reg_map' = [m \in Modules |-> None]
    /\ reg_item' = [reg_item EXCEPT ![i] = Deleted]
    /\ up' = [up EXCEPT ![i] = <<>>]
    /\ fate' = Fated(Unread(i), "lost")
    /\ claims' = [m \in Modules |-> claims[m] \ {i}]
    /\ UNCHANGED <<g_registered_module_array, cb, parked, due, down, library, contested>>

\* All the modules in the list of the connection leave the map, whichever
\* connection the map has for them.
unreg_cb(i) ==
    /\ reg_item[i].state = "lost"
    /\ cb[i] = Idle
    /\ g_proxy_reg_map' = [m \in Modules |->
                             IF m \in reg_item[i].list THEN None ELSE g_proxy_reg_map[m]]
    /\ reg_item' = [reg_item EXCEPT ![i] = Deleted]
    /\ up' = [up EXCEPT ![i] = <<>>]
    /\ fate' = Fated(Unread(i), "lost")
    /\ claims' = [m \in Modules |-> claims[m] \ {i}]
    /\ UNCHANGED <<g_registered_module_array, cb, parked, due, down, library, contested>>

-----------------------------------------------------------------------------
(***************************************************************************)
(* A process: it connects, initialises its modules one at a time, makes    *)
(* requests and serves them, and may die at any time.                      *)
(***************************************************************************)
Submit(i, msg) == up' = [up EXCEPT ![i] = Append(@, msg)]

\* CONN: the daemon makes a connection and dials the process.
Connect(p) ==
    /\ conn[p] = None
    /\ \E i \in Items :
          /\ reg_item[i] = Unused
          /\ \A j \in 1 .. i - 1 : reg_item[j] # Unused
          /\ reg_item' = [reg_item EXCEPT ![i] = InState(@, "open")]
          /\ conn' = [conn EXCEPT ![p] = i]
    /\ UNCHANGED <<g_proxy_reg_map, g_registered_module_array, cb, parked, due, up, down,
                   init, tries, history>>

\* _ipc_nng_long_init_reg: REGISTER is sent, and again when no answer comes.
SendRegister(p, m) ==
    /\ conn[p] # None
    /\ \A n \in Hosts[p] \ {m} : init[n] # "waiting"
    /\ init[m] \in {"none", "waiting"}
    /\ tries[m] < MaxTries[m]
    /\ init' = [init EXCEPT ![m] = "waiting"]
    /\ tries' = [tries EXCEPT ![m] = @ + 1]
    /\ Submit(conn[p], Message("REGISTER", m, 0))
    /\ UNCHANGED <<daemon, due, down, conn, history>>

GiveUp(m) ==
    /\ init[m] = "waiting"
    /\ tries[m] = MaxTries[m]
    /\ init' = [init EXCEPT ![m] = "failed"]
    /\ UNCHANGED <<daemon, due, up, down, conn, tries, history>>

\* A request of a module that is in g_ipc_clients_map: its init has begun.
SendRequest(p, e) ==
    /\ conn[p] # None
    /\ fate[e] = "none"
    /\ Cardinality({f \in Events : fate[f] # "none"}) < MaxAsked
    /\ Src[e] \in Hosts[p]
    /\ init[Src[e]] # "none"
    /\ fate' = Fated({e}, "asked")
    /\ Submit(conn[p], Request(e))
    /\ UNCHANGED <<daemon, due, down, library, claims, contested>>

\* The process answers the request: a stream before it looks for the module, a
\* multicast never.
Serves(p, msg) ==
    \/ msg.type \in {"REQ", "ASYNC_REQ"} /\ Dest(msg.what) \in Hosts[p]
          /\ init[Dest(msg.what)] # "none"
    \/ msg.type = "STREAM_REQ"

\* server_cb_recv: the answer to REGISTER ends the wait of init, 0 and -3 (already
\* registered) alike; any other answer goes to the caller (NngLongClient).
server_cb_recv(p) ==
    /\ conn[p] # None
    /\ \E msg \in down[conn[p]] :
          /\ down' = [down EXCEPT ![conn[p]] = @ \ {msg}]
          /\ init' = IF msg.type = "REGISTER" /\ init[msg.what] = "waiting"
                     THEN [init EXCEPT ![msg.what] = "done"] ELSE init
          /\ IF Serves(p, msg) THEN Submit(conn[p], Answer(msg.what, 0)) ELSE UNCHANGED up
    /\ UNCHANGED <<daemon, due, conn, tries, history>>

\* The process ends and pair_disconnect_cb starts the timer of unreg_cb.  What the
\* process sent may still be read until then.
Exit(p) ==
    LET i == conn[p]
    IN /\ i # None
       /\ Cardinality({j \in Items : reg_item[j].state \in {"lost", "deleted"}}) < MaxExits
       /\ down' = [down EXCEPT ![i] = {}]
       /\ reg_item' = [reg_item EXCEPT ![i] = InState(@, "lost")]
       /\ conn' = [conn EXCEPT ![p] = None]
       /\ init' = [m \in Modules |-> IF m \in Hosts[p] THEN "none" ELSE init[m]]
       /\ tries' = [m \in Modules |-> IF m \in Hosts[p] THEN 0 ELSE tries[m]]
       /\ UNCHANGED <<g_proxy_reg_map, g_registered_module_array, cb, parked, due, up,
                      history>>

Client ==
    \/ \E p \in Processes : Connect(p) \/ server_cb_recv(p) \/ Exit(p)
    \/ \E p \in Processes : \E m \in Hosts[p] : SendRegister(p, m) \/ GiveUp(m)
    \/ \E p \in Processes, e \in Events : SendRequest(p, e)

\* Fairness: as long as a message is to be handled, nng runs some callback; as long
\* as a request is parked, time passes and its timer fires.
Receive == \E i \in Items : PairRecv(i) \/ PairAct(i)
Timer == \E e \in Unicast : proxy_expire_cb(e) \/ Elapse(e)
Next == Receive \/ Timer \/ (\E i \in Items : unreg_cb(i)) \/ Client

Spec == Init /\ [][Next]_vars /\ WF_vars(Receive) /\ WF_vars(Timer)

-----------------------------------------------------------------------------
(***************************************************************************)
(* Properties.                                                             *)
(***************************************************************************)
Messages ==
    [type : {"REGISTER"}, what : Modules, result : {0, -3}]
    \cup [type : DOMAIN ReplyType \cup Answers, what : Events, result : {0, -2, -8}]

\* Every variable has its type; a REGISTER is about a module, any other message
\* about a request; init sends a REGISTER no more often than it may.
TypeOK ==
    /\ reg_item \in [Items -> [state : {"unused", "open", "lost", "deleted"},
                               list : SUBSET Modules]]
    /\ g_proxy_reg_map \in [Modules -> Items \cup {None}]
    /\ g_registered_module_array \subseteq Modules
    /\ cb \in [Items -> [msg : Messages \cup {Idle.msg}, found : Items \cup {None},
                          todo : SUBSET Modules]]
    /\ parked \in [Events -> Items \cup {None}]
    /\ due \in [Events -> {"ample", "near", "past"}]
    /\ up \in [Items -> Seq(Messages)]
    /\ down \in [Items -> SUBSET Messages]
    /\ conn \in [Processes -> Items \cup {None}]
    /\ init \in [Modules -> {"none", "waiting", "done", "failed"}]
    /\ tries \in [Modules -> Nat] /\ \A m \in Modules : tries[m] <= MaxTries[m]
    /\ fate \in [Events -> {"none", "asked", "handed", "answered", "lost"}]
    /\ claims \in [Modules -> SUBSET Items] /\ contested \subseteq Modules

\* No entry of g_proxy_reg_map refers to a reg_item that unreg_cb has deleted,
\* whatever connections register the same module at the same time: the item an
\* entry refers to has the module in its list, and erases it when it goes.
NoDanglingEntry ==
    \A m \in Modules : g_proxy_reg_map[m] # None =>
       /\ m \in reg_item[g_proxy_reg_map[m]].list
       /\ reg_item[g_proxy_reg_map[m]].state \in {"open", "lost"}

\* The places where a request, or the answer to it, is.
About(msg, e) == msg.type # "REGISTER" /\ msg.what = e
UpPlaces(e) ==
    UNION {{<<"up", j, n>> : n \in {y \in 1..Len(up[j]) : About(up[j][y], e)}} : j \in Items}
DownPlaces(e) ==
    UNION {{<<"down", j, msg>> : msg \in {y \in down[j] : About(y, e)}} : j \in Items}
CbPlaces(e) == {<<"cb", j>> : j \in {y \in Items : About(cb[y].msg, e)}}
ParkedPlaces(e) == {<<"parked">> : j \in {y \in {e} : parked[y] # None}}
Places(e) == UpPlaces(e) \cup DownPlaces(e) \cup CbPlaces(e) \cup ParkedPlaces(e)

\* A request is in one place: it is not both refused and parked, nor answered
\* when it expires and then handed to the destination, and so no caller gets two
\* answers.
OnePlace == \A e \in Unicast : Cardinality(Places(e)) <= 1

\* An init that is done has made the module known to the daemon, as long as no
\* two connections that are not cleaned up have registered it.
SoleClaimIsReachable ==
    \A p \in Processes : \A m \in Hosts[p] \ contested :
       init[m] = "done" => g_proxy_reg_map[m] = conn[p]

\* "-3 mean already registered" (ipc_nng_long.cpp:590): a module whose init is done
\* is known to the daemon.
DoneIsRegistered == \A m \in Modules : init[m] = "done" => g_proxy_reg_map[m] # None

\* A request is not kept for ever: it is handed to its destination or answered,
\* or its connection is gone.
RequestIsSettled == \A e \in Events : fate[e] = "asked" ~> fate[e] # "asked"
=============================================================================
