-------------------------- MODULE ServiceDiscovery --------------------------
(***************************************************************************)
(* The registry daemon together with the client library of every process:  *)
(* the library's map of services, the requests on their way to the daemon, *)
(* the notices and answers on their way back.                              *)
(*                                                                         *)
(* A process has its main loop, which applies what arrives from the daemon *)
(* (on_recv_daemon), and one program thread, which calls the API.  The two *)
(* share services_map.  Both directions of the connection are FIFO.  The   *)
(* daemon's side is LocalRegistry; a handler of it runs on the request at  *)
(* the head of the outbox and what it writes goes to the inboxes.          *)
(***************************************************************************)
EXTENDS LocalRegistry, SequencesExt

CONSTANTS
    Callers,     \* the programs that call methods
    Revokers,    \* the programs that revoke what they offer
    Cancellers,  \* the programs that unsubscribe
    Statuses,    \* the statuses the programs set by ..._set_status
    MaxOutbox,   \* bound: the requests of a process under way
    MaxInbox     \* bound: the messages to a process under way

\* The queries of a process that can be told apart: those under way and a new one.
MaxQueries == MaxOutbox + MaxInbox + 1

ASSUME DiscoveryAssumption ==
    /\ Callers \cup Revokers \cup Cancellers \subseteq Names
    /\ Statuses \subseteq ServiceStatus
    /\ {MaxOutbox, MaxInbox} \subseteq Nat \ {0}

VARIABLES
    services_map,  \* the library's ipc_hv_soa_service entries, per process
    loop,          \* the provider the main loop has not stored yet
    caller,        \* the program thread inside an API call
    outbox,        \* requests on their way to the daemon
    inbox,         \* messages on their way to the process
    intent,        \* history: what the program last asked for, per service
    asked,         \* history: the services the process has queried
    revoked        \* history: the services some provider has revoked

history == <<intent, asked, revoked>>
library == <<services_map, loop, caller, outbox, inbox, history>>
dvars == <<vars, library>>

ipc_hv_soa_service ==
    [service_type : ServiceType, service_status : ServiceStatus,
     service_provider : Names \cup {None}, service_listeners : SUBSET Names]

Request ==
    [op : {"REGISTER", "UNREGISTER", "LISTEN", "CANCEL", "GET", "SET"},
     service : Services, status : ServiceStatus, msg_seqid : 0 .. MaxQueries]

\* Only a query is known by its msg_seqid, which counts from 1 here.
request(o, s) == [op |-> o, service |-> s, status |-> "DEFAULT", msg_seqid |-> 0]
query(s, q) == [op |-> "GET", service |-> s, status |-> "DEFAULT", msg_seqid |-> q]
set_status(s, st) == [op |-> "SET", service |-> s, status |-> st, msg_seqid |-> 0]

\* A message with its header, of which only the answer to a query needs the msg_seqid.
WithHeader(m, q) ==
    [body |-> m, msg_seqid |-> IF m.kind = "get_service_resp" THEN q ELSE 0]

\* A call that waits is the one entry its process has in pending_requests.
Idle == [pc |-> "idle"]
Sending(r) == [pc |-> "send", req |-> r]
Waiting(r) == [pc |-> "query", req |-> r]
Answered(a) == [pc |-> "save", answer |-> a]

DiscoveryInit ==
    /\ Init
    /\ services_map = [ch \in Channels |-> [s \in Services |-> None]]
    /\ loop = [ch \in Channels |-> None]
    /\ caller = [ch \in Channels |-> Idle]
    /\ outbox = [ch \in Channels |-> <<>>]
    /\ inbox = [ch \in Channels |-> <<>>]
    /\ intent = [ch \in Channels |-> [s \in Services |-> "none"]]
    /\ asked = [ch \in Channels |-> {}]
    /\ revoked = {}

-----------------------------------------------------------------------------
(***************************************************************************)
(* The library's map.                                                      *)
(***************************************************************************)

\* The entry after save_service: a new one without a provider is DEFAULT, an
\* existing one takes the type and the status, and the provider if there is one.
save_service(e, ty, st, cl) ==
    IF e = None
    THEN [service_type |-> ty,
          service_status |-> IF cl = None THEN "DEFAULT" ELSE st,
          service_provider |-> cl, service_listeners |-> {}]
    ELSE [e EXCEPT !.service_type = ty, !.service_status = st,
                   !.service_provider = IF cl = None THEN @ ELSE cl]

\* get_service asks the daemon for an entry that is not there, or for a method
\* whose status is still DEFAULT.
need_query(e) ==
    e # None => e.service_type = "METHOD" /\ e.service_status = "DEFAULT"

Store(ch, s, e) == services_map' = [services_map EXCEPT ![ch][s] = e]
Move(ch, c) == caller' = [caller EXCEPT ![ch] = c]

-----------------------------------------------------------------------------
(***************************************************************************)
(* The program thread.  An API call first changes the map, then sends.     *)
(***************************************************************************)
InProgram(ch) == ch \in Ready /\ caller[ch].pc = "idle"

ipc_hv_soa_provider_service_offer(ch, s) ==
    /\ InProgram(ch)
    /\ peer[ch] \in Providers[s]
    /\ Store(ch, s, save_service(services_map[ch][s], TypeOf(s), "AVAILABLE",
                                 peer[ch]))
    /\ Move(ch, Sending(request("REGISTER", s)))
    /\ UNCHANGED <<vars, loop, outbox, inbox, history>>

ipc_hv_soa_provider_service_revoke(ch, s) ==
    /\ InProgram(ch)
    /\ peer[ch] \in Providers[s] \cap Revokers
    /\ services_map[ch][s] # None
    /\ Store(ch, s, [services_map[ch][s] EXCEPT !.service_status = "UNAVAILABLE"])
    /\ Move(ch, Sending(request("UNREGISTER", s)))
    /\ revoked' = revoked \cup {s}
    /\ UNCHANGED <<vars, loop, outbox, inbox, intent, asked>>

ipc_hv_soa_provider_service_set_status(ch, s, st) ==
    /\ InProgram(ch)
    /\ peer[ch] \in Providers[s]
    /\ Move(ch, Sending(set_status(s, st)))
    /\ UNCHANGED <<vars, services_map, loop, outbox, inbox, history>>

ipc_hv_soa_listener_service_subscribe(ch, s) ==
    /\ InProgram(ch)
    /\ peer[ch] \in Consumers[s]
    /\ Store(ch, s, save_service(services_map[ch][s], TypeOf(s), "DEFAULT", None))
    /\ Move(ch, Sending(request("LISTEN", s)))
    /\ intent' = [intent EXCEPT ![ch][s] = "subscribed"]
    /\ UNCHANGED <<vars, loop, outbox, inbox, asked, revoked>>

ipc_hv_soa_listener_service_unsubscribe(ch, s) ==
    /\ InProgram(ch)
    /\ peer[ch] \in Consumers[s] \cap Cancellers
    /\ services_map[ch][s] # None
    /\ Move(ch, Sending(request("CANCEL", s)))
    /\ intent' = [intent EXCEPT ![ch][s] = "cancelled"]
    /\ UNCHANGED <<vars, services_map, loop, outbox, inbox, asked, revoked>>

\* The msg_seqid of the next query.  An id that no query and no answer under way has
\* any more cannot be told from one never used.
NextSeqid(ch) ==
    Min({q \in 1 .. MaxQueries :
           \A x \in Range(outbox[ch]) \cup Range(inbox[ch]) : x.msg_seqid # q})

\* A method call that does not find its service in the map.
get_service(ch, s) ==
    /\ InProgram(ch)
    /\ peer[ch] \in Consumers[s] \cap Callers
    /\ need_query(services_map[ch][s])
    /\ Move(ch, Sending(query(s, NextSeqid(ch))))
    /\ asked' = [asked EXCEPT ![ch] = @ \cup {s}]
    /\ UNCHANGED <<vars, services_map, loop, outbox, inbox, intent, revoked>>

send_msg_to_daemon(ch) ==
    /\ caller[ch].pc = "send"
    /\ Len(outbox[ch]) < MaxOutbox
    /\ LET r == caller[ch].req
       IN /\ outbox' = [outbox EXCEPT ![ch] = Append(@, r)]
          /\ Move(ch, IF r.op = "GET" THEN Waiting(r) ELSE Idle)
    /\ UNCHANGED <<vars, services_map, loop, inbox, history>>

\* send_msg_to_daemon_sync gives up: it drops its pending entry, and the request or
\* the answer stays where it is.
GiveUp(ch) ==
    /\ caller[ch].pc = "query"
    /\ Move(ch, Idle)
    /\ UNCHANGED <<vars, services_map, loop, outbox, inbox, history>>

\* The answer goes into the map.  get_process_client, which may have to ask the
\* daemon in its turn, can come back without the provider.
SaveAnswer(ch) ==
    /\ caller[ch].pc = "save"
    /\ LET a == caller[ch].answer
       IN \E cl \in {a.provider, None} :
            Store(ch, a.service, save_service(services_map[ch][a.service],
                                              a.type, a.status, cl))
    /\ Move(ch, Idle)
    /\ UNCHANGED <<vars, loop, outbox, inbox, history>>

Program(ch) ==
    \/ \E s \in Services :
         \/ ipc_hv_soa_provider_service_offer(ch, s)
         \/ ipc_hv_soa_provider_service_revoke(ch, s)
         \/ \E st \in Statuses :
              ipc_hv_soa_provider_service_set_status(ch, s, st)
         \/ ipc_hv_soa_listener_service_subscribe(ch, s)
         \/ ipc_hv_soa_listener_service_unsubscribe(ch, s)
         \/ get_service(ch, s)
    \/ GiveUp(ch)

\* The steps of an API call that is under way.
Finish(ch) == send_msg_to_daemon(ch) \/ SaveAnswer(ch)

-----------------------------------------------------------------------------
(***************************************************************************)
(* The main loop of the library, on_recv_daemon.                           *)
(***************************************************************************)
Receive(ch, kind) ==
    /\ loop[ch] = None
    /\ inbox[ch] # <<>>
    /\ Head(inbox[ch]).body.kind = kind
    /\ inbox' = [inbox EXCEPT ![ch] = Tail(@)]

M_RecvChangeStatus(ch) ==
    /\ Receive(ch, "service_change_status")
    /\ LET m == Head(inbox[ch]).body
           e == services_map[ch][m.service]
       IN IF e = None \/ m.provider = None
          THEN UNCHANGED <<services_map, loop>>
          ELSE /\ Store(ch, m.service, [e EXCEPT !.service_status = m.status])
               /\ loop' = [loop EXCEPT ![ch] = m]
    /\ UNCHANGED <<vars, caller, outbox, history>>


\* The status is stored first; the provider follows once its process client is
\* found or connected.
RecvChangeStatus(ch) ==
    /\ Receive(ch, "service_change_status")
    /\ LET m == Head(inbox[ch]).body
           e == services_map[ch][m.service]
       IN IF e = None
          THEN UNCHANGED <<services_map, loop>>
          ELSE /\ Store(ch, m.service, [e EXCEPT !.service_status = m.status])
               /\ loop' = [loop EXCEPT ![ch] =
                             IF m.provider = None THEN None ELSE m]
    /\ UNCHANGED <<vars, caller, outbox, history>>

StoreProvider(ch) ==
    /\ loop[ch] # None
    /\ loop' = [loop EXCEPT ![ch] = None]
    /\ LET m == loop[ch]
       IN Store(ch, m.service, [services_map[ch][m.service] EXCEPT
                                  !.service_provider = m.provider])
    /\ UNCHANGED <<vars, caller, outbox, inbox, history>>

M_RecvListenerChange(ch) ==
    /\ Receive(ch, "listener_change_to_provider")
    /\ LET m == Head(inbox[ch]).body
           e == services_map[ch][m.service]
       IN IF e = None
          THEN UNCHANGED services_map
          ELSE Store(ch, m.service, [e EXCEPT !.service_listeners =
                         IF m.reg THEN @ \cup m.listeners ELSE @])
    /\ UNCHANGED <<vars, loop, caller, outbox, history>>

RecvListenerChange(ch) ==
    /\ Receive(ch, "listener_change_to_provider")
    /\ LET m == Head(inbox[ch]).body
           e == services_map[ch][m.service]
       IN IF e = None
          THEN UNCHANGED services_map
          ELSE Store(ch, m.service, [e EXCEPT !.service_listeners =
                         IF m.reg THEN @ \cup m.listeners ELSE @ \ m.listeners])
    /\ UNCHANGED <<vars, loop, caller, outbox, history>>

\* The answer wakes the call with its msg_seqid.  Without such an entry in
\* pending_requests it is dropped.
Pending(ch, q) == caller[ch].pc = "query" /\ caller[ch].req.msg_seqid = q

RecvAnswer(ch) ==
    /\ Receive(ch, "get_service_resp")
    /\ LET a == Head(inbox[ch])
       IN \/ Pending(ch, a.msg_seqid) /\ Move(ch, Answered(a.body))
          \/ ~Pending(ch, a.msg_seqid) /\ UNCHANGED caller
    /\ UNCHANGED <<vars, services_map, loop, outbox, history>>

on_recv_daemon(ch) ==
    \/ RecvChangeStatus(ch)
    \/ StoreProvider(ch)
    \/ RecvListenerChange(ch)
    \/ RecvAnswer(ch)

-----------------------------------------------------------------------------
(***************************************************************************)
(* The daemon at work on connections and requests.                         *)
(***************************************************************************)

\* What the handler wrote joins the inboxes.  The messages one handler writes to
\* one process are about different services or of different kinds; the library
\* does not tell their order.  Answers to ipc_hv_soa_init are not kept.
Deliver(box, q) ==
    /\ inbox' = [ch \in Channels |->
                   box[ch] \o SetToSeq({WithHeader(m, q) :
                      m \in {k \in sent'[ch] : k.kind # "register_client_resp"}})]
    /\ \A ch \in Channels : Len(inbox'[ch]) <= MaxInbox

\* A registration, which tells the provider the whole list of listeners again,
\* closes the account of those that have unsubscribed before it.
Told(r) ==
    [ch \in Channels |-> [s \in Services |->
        IF r.op = "REGISTER" /\ r.service = s /\ intent[ch][s] = "cancelled"
        THEN "none" ELSE intent[ch][s]]]

Handle(ch) ==
    /\ outbox[ch] # <<>>
    /\ LET r == Head(outbox[ch])
       IN /\ \/ r.op = "REGISTER" /\ RegisterService(ch, r.service)
             \/ r.op = "UNREGISTER" /\ UnregisterService(ch, r.service)
             \/ r.op = "LISTEN" /\ ListenService(ch, r.service)
             \/ r.op = "CANCEL" /\ CancelListenService(ch, r.service)
             \/ r.op = "GET" /\ GetService(ch, r.service)
             \/ r.op = "SET" /\ ServiceSetStatus(ch, r.service, r.status)
          /\ intent' = Told(r)
          /\ Deliver(inbox, r.msg_seqid)
    /\ outbox' = [outbox EXCEPT ![ch] = Tail(@)]
    /\ UNCHANGED <<services_map, loop, caller, asked, revoked>>

\* A process comes up with an empty library and goes with all it holds.  Here a
\* program is started again only when the daemon has seen its last process go;
\* LocalRegistry has the duplicate processes, which never become Ready.
Enter(ch) ==
    /\ \/ \E n \in Names : Connect(ch, n) /\ \A d \in Channels : peer[d] # n
       \/ RegisterClient(ch)
    /\ Deliver(inbox, 0)
    /\ UNCHANGED <<services_map, loop, caller, outbox, history>>

Leave(ch) ==
    /\ Disconnect(ch)
    /\ services_map' = [services_map EXCEPT ![ch] = [s \in Services |-> None]]
    /\ loop' = [loop EXCEPT ![ch] = None]
    /\ Move(ch, Idle)
    /\ outbox' = [outbox EXCEPT ![ch] = <<>>]
    /\ Deliver([inbox EXCEPT ![ch] = <<>>], 0)
    /\ intent' = [intent EXCEPT ![ch] = [s \in Services |-> "none"]]
    /\ asked' = [asked EXCEPT ![ch] = {}]
    /\ UNCHANGED revoked

DiscoveryNext ==
    \E ch \in Channels :
       \/ Program(ch)
       \/ Finish(ch)
       \/ on_recv_daemon(ch)
       \/ Handle(ch)
       \/ Enter(ch)
       \/ Leave(ch)

\* The event loops of the daemon and of the library serve every connection with
\* data, and a call that has begun goes on.  The bounds on the queues, which the
\* sockets do not have, can disable a handler and a send for a while: what the
\* loops guarantee is then the strong form.
DiscoverySpec ==
    /\ DiscoveryInit
    /\ [][DiscoveryNext]_dvars
    /\ \A ch \in Channels :
          /\ SF_dvars(Finish(ch))
          /\ WF_dvars(on_recv_daemon(ch))
          /\ SF_dvars(Handle(ch))

-----------------------------------------------------------------------------
(***************************************************************************)
(* Properties.                                                             *)
(***************************************************************************)

\* Entries, requests and calls are well formed.
DiscoveryTypeOK ==
    /\ TypeOK
    /\ services_map \in [Channels -> [Services -> ipc_hv_soa_service \cup {None}]]
    /\ \A ch \in Channels :
         /\ outbox[ch] \in BoundedSeq(Request, MaxOutbox)
         /\ Len(inbox[ch]) <= MaxInbox
         /\ Range(inbox[ch]) \subseteq [body : Message, msg_seqid : 0 .. MaxQueries]
         /\ loop[ch] \in Message \cup {None}

\* Nothing is under way between the process and the daemon.
Quiet(ch) ==
    /\ ch \in Ready
    /\ caller[ch] = Idle
    /\ loop[ch] = None
    /\ outbox[ch] = <<>>
    /\ inbox[ch] = <<>>

Registered(s) == m_services[s] # None
Item(s) == items[m_services[s]]
Entry(ch, s) == services_map[ch][s]

\* The queries of a process under way, and the answers on their way to it.
Queries(ch) ==
    SelectSeq(outbox[ch], LAMBDA r : r.op = "GET")
      \o SelectSeq(inbox[ch], LAMBDA m : m.body.kind = "get_service_resp")

\* A call that waits in get_service has its request on the way to the daemon or its
\* answer on the way back, one of the two and only once, whatever is left of calls
\* that gave up: the daemon answers also when it does not know the service
\* (local_registry_logic.cpp:783), and nothing but the answer to this call takes its
\* pending entry (ipc_hv_soa_rpc.cpp:149).
QueryUnderWay ==
    \A ch \in Channels : caller[ch].pc = "query" =>
       Len(SelectSeq(Queries(ch),
              LAMBDA x : x.msg_seqid = caller[ch].req.msg_seqid)) = 1

\* A process whose map only notices have changed: it never asked for the service
\* by a call.
OnlyTold(ch, s) == s \notin asked[ch]

\* Once everything sent has arrived, a process that the registry has as a
\* listener of s holds it AVAILABLE only when the registry does, and from the
\* same provider.
Current(ch, s) ==
    Quiet(ch) /\ Registered(s) /\ Entry(ch, s) # None =>
       (/\ peer[ch] \in Item(s).service_listeners
        /\ Entry(ch, s).service_status = "AVAILABLE"
        => /\ Item(s).service_status = "AVAILABLE"
           /\ Item(s).service_provider \in {None, Entry(ch, s).service_provider})

\* Once everything sent has arrived, s is found in the local map or is asked for
\* at the next call, if the registry shows it AVAILABLE.
Findable(ch, s) ==
    Quiet(ch) /\ Registered(s) =>
       (Item(s).service_status = "AVAILABLE" =>
          \/ need_query(Entry(ch, s))
          \/ /\ Entry(ch, s).service_type = "METHOD"
             /\ Entry(ch, s).service_status = "AVAILABLE")

\* What a call finds in the local map is the address of the service
\* (ipc_hv_soa_io.cpp:198), in every process that hears of it by notices only.
FoundIsCurrent ==
    \A ch \in Channels, s \in Methods : OnlyTold(ch, s) => Current(ch, s)

\* The same of the processes that have asked for the service as well
\* (ipc_hv_soa_map.cpp:281).
CacheIsCurrent == \A ch \in Channels, s \in Methods : Current(ch, s)


\* The same of the processes that have asked for the method as well.
FoundOrAskedAgain == \A ch \in Channels, s \in Methods : Findable(ch, s)

\* A program that has subscribed, and has not unsubscribed since, is among the
\* listeners of the service in the registry, whatever its providers do but
\* revoke it: they may die, come back, and offer it again.
SubscriptionKept ==
    \A ch \in Channels, s \in Services \ revoked :
       Quiet(ch) /\ intent[ch][s] = "subscribed" =>
          Registered(s) /\ peer[ch] \in Item(s).service_listeners

\* Once everything sent has arrived, a provider that offers a service, and never
\* revoked it, has every subscribed process in the list that
\* ipc_hv_soa_event_trigger sends to.
SubscriberIsServed ==
    \A ch, pch \in Channels, s \in Services \ revoked :
       /\ Quiet(ch) /\ Quiet(pch) /\ ch # pch
       /\ intent[ch][s] = "subscribed"
       /\ Registered(s)
       /\ Item(s).service_provider = peer[pch]
       /\ Entry(pch, s) # None
       => peer[ch] \in Entry(pch, s).service_listeners

\* A program that has unsubscribed from an event is not in the list its provider
\* sends to, until the provider offers or revokes the event: the daemon keeps
\* the listeners of events (local_registry_logic.cpp:732), and tells of a
\* listener only while there is a provider (:738).
CancelIsFinal ==
    \A ch, pch \in Channels, s \in Services \ revoked :
       /\ Quiet(ch) /\ Quiet(pch) /\ ch # pch
       /\ intent[ch][s] = "cancelled"
       /\ Entry(pch, s) # None
       => peer[ch] \notin Entry(pch, s).service_listeners

=============================================================================
