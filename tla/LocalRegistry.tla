---------------------------- MODULE LocalRegistry ----------------------------
(***************************************************************************)
(* The service registry daemon, lib/local_registry/daemon: the clients it  *)
(* knows, the services it holds, and the handlers of its one event loop.   *)
(*                                                                         *)
(* The daemon is single threaded, so every handler is one action.  A       *)
(* message that names several services is handled as one action per        *)
(* service, the loop body of the handler: the bodies only share the        *)
(* channels they write to.                                                 *)
(*                                                                         *)
(* A channel is one connection.  A process connects once, in               *)
(* ipc_hv_soa_init, so a channel also stands for the process behind it and *)
(* for its pid.  Client records are never deleted and their ids never      *)
(* change, so messages and listener maps hold the client's name.  The      *)
(* service items are shared objects (std::shared_ptr): m_services and the  *)
(* produce maps of the clients hold references into `items'.               *)
(***************************************************************************)
EXTENDS Naturals

CONSTANTS
    Names,      \* the process names clients can have
    Channels,   \* bound: the channel ids open or on record at a time
    Services,   \* service ids
    Methods,    \* the services of type METHOD, the others are of type EVENT
    Items,      \* bound: the service items alive at a time
    Providers,  \* Providers[s]: the clients whose program offers s
    Consumers,  \* Consumers[s]: the clients whose program listens to s
    None        \* the null pointer

ASSUME RegistryAssumption ==
    /\ Methods \subseteq Services
    /\ Providers \in [Services -> SUBSET Names]
    /\ Consumers \in [Services -> SUBSET Names]
    /\ None \notin Names \cup Channels \cup Items

VARIABLES
    conn,               \* the server's channel map, and how far each process got
    peer,               \* the process name in a channel's peer address
    m_clients_by_name,  \* client records
    m_next_client_id,
    m_services,         \* service id -> item
    items,              \* the items themselves
    produce_services,   \* client_produce_services of every client record
    offered,            \* the clients that acted as provider of a service (history)
    sent                \* what the last handler wrote to each channel

clients == <<m_clients_by_name, m_next_client_id>>
services == <<m_services, items, produce_services, offered>>
vars == <<conn, peer, m_clients_by_name, m_next_client_id, m_services, items,
          produce_services, offered, sent>>

ClientStatus == {"ABSENT", "ONLINE", "OFFLINE"}
ServiceStatus == {"DEFAULT", "AVAILABLE", "UNAVAILABLE"}
ServiceType == {"UNKNOWN", "METHOD", "EVENT"}

\* The type the programs give a service when they offer it or listen to it.
TypeOf(s) == IF s \in Methods THEN "METHOD" ELSE "EVENT"

local_client ==
    [client_id : Nat, client_channel_id : Channels \cup {None},
     client_status : ClientStatus]
local_service_item ==
    [service_status : ServiceStatus \cup {"FREE"},
     service_provider : Names \cup {None}, service_listeners : SUBSET Names]

NoClient ==
    [client_id |-> 0, client_channel_id |-> None, client_status |-> "ABSENT"]
NoItem ==
    [service_status |-> "FREE", service_provider |-> None,
     service_listeners |-> {}]

(***************************************************************************)
(* Messages to clients.                                                    *)
(***************************************************************************)
\* The provider is known by its client_id; client_name is the name beside it.
service_change_status(s, st, p, name) ==
    [kind |-> "service_change_status", service |-> s, status |-> st,
     provider |-> p, client_name |-> name]

M_listener_change_to_provider(s, ls, reg) ==
    [kind |-> "listener_change_to_provider", service |-> s,
     listeners |-> {}, reg |-> reg]

listener_change_to_provider(s, ls, reg) ==
    [kind |-> "listener_change_to_provider", service |-> s,
     listeners |-> ls, reg |-> reg]

register_client_resp(pid, id) ==
    [kind |-> "register_client_resp", pid |-> pid, id |-> id]

get_client_resp(n) == [kind |-> "get_client_resp", client |-> n]

get_service_resp(s, ty, st, p) ==
    [kind |-> "get_service_resp", service |-> s, type |-> ty, status |-> st,
     provider |-> p]

Message ==
    [kind : {"service_change_status"}, service : Services,
     status : ServiceStatus, provider : Names \cup {None},
     client_name : Names \cup {None}]
    \cup [kind : {"get_service_resp"}, service : Services, type : ServiceType,
          status : ServiceStatus, provider : Names \cup {None}]
    \cup [kind : {"listener_change_to_provider"}, service : Services,
          listeners : SUBSET Names, reg : BOOLEAN]
    \cup [kind : {"register_client_resp"}, pid : Channels \cup {None}, id : Nat]
    \cup [kind : {"get_client_resp"}, client : Names \cup {None}]

-----------------------------------------------------------------------------
Known(n) == m_clients_by_name[n].client_status # "ABSENT"
Online(n) == m_clients_by_name[n].client_status = "ONLINE"
ChannelOf(n) == m_clients_by_name[n].client_channel_id

\* The channels the server has in its map, the ones getChannelById finds.
Open == {ch \in Channels : conn[ch] \in {"connected", "ready", "refused"}}

\* The clients whose ipc_hv_soa_init has succeeded and that are still there.
Ready == {ch \in Channels : conn[ch] = "ready"}

\* The item pointer m_services.find gives, or a new item.
ItemFor(s, i) ==
    IF m_services[s] = None THEN items[i] = NoItem ELSE i = m_services[s]

\* Channel ids are never used twice (hio_id).  An id that no channel and no
\* client record has any more cannot be told from one never used.
Fresh(ch) == conn[ch] = "closed" /\ \A n \in Names : ChannelOf(n) # ch

\* A set of messages written to one channel; sends to clients that are ONLINE
\* and whose channel is in the map.
Silence == [ch \in Channels |-> {}]
Reply(ch, m) == [Silence EXCEPT ![ch] = {m}]
send_msg_to_client(ns, m) ==
    [ch \in Channels |->
        IF ch \in Open /\ \E n \in ns : Online(n) /\ ChannelOf(n) = ch
        THEN {m} ELSE {}]
Both(a, b) == [ch \in Channels |-> a[ch] \cup b[ch]]

\* Items without a reference left are freed.
Referenced(ms, ps) ==
    {i \in Items : (\E s \in Services : ms[s] = i)
                \/ (\E n \in Names, s \in Services : ps[n][s] = i)}
Freed(its, ms, ps) ==
    [i \in Items |-> IF i \in Referenced(ms, ps) THEN its[i] ELSE NoItem]

Init ==
    /\ conn = [ch \in Channels |-> "closed"]
    /\ peer = [ch \in Channels |-> None]
    /\ m_clients_by_name = [n \in Names |-> NoClient]
    /\ m_next_client_id = 1
    /\ m_services = [s \in Services |-> None]
    /\ items = [i \in Items |-> NoItem]
    /\ produce_services = [n \in Names |-> [s \in Services |-> None]]
    /\ offered = [s \in Services |-> {}]
    /\ sent = Silence

-----------------------------------------------------------------------------
(***************************************************************************)
(* Connections.                                                            *)
(***************************************************************************)

M_add_client_no_check(ch, n) ==
    /\ m_clients_by_name' =
         [m_clients_by_name EXCEPT ![n] =
            [client_id |-> IF Known(n) THEN @.client_id ELSE m_next_client_id,
             client_channel_id |-> ch, client_status |-> "ONLINE"]]
    /\ m_next_client_id' =
         IF Known(n) THEN m_next_client_id ELSE m_next_client_id + 1

\* The record a new connection of n leaves behind: none is made while the
\* channel of the recorded one is still in the map ("running"), a known client
\* comes back with its id and its services, an unknown one gets the next id.
add_client(ch, n) ==
    \/ /\ Known(n)
       /\ ChannelOf(n) \in Open
       /\ UNCHANGED clients
    \/ /\ Known(n)
       /\ ChannelOf(n) \notin Open
       /\ m_clients_by_name' =
            [m_clients_by_name EXCEPT ![n].client_channel_id = ch,
                                      ![n].client_status = "ONLINE"]
       /\ UNCHANGED m_next_client_id
    \/ /\ ~Known(n)
       /\ m_clients_by_name' =
            [m_clients_by_name EXCEPT ![n] =
                [client_id |-> m_next_client_id, client_channel_id |-> ch,
                 client_status |-> "ONLINE"]]
       /\ m_next_client_id' = m_next_client_id + 1

Connect(ch, n) ==
    /\ Fresh(ch)
    /\ conn' = [conn EXCEPT ![ch] = "connected"]
    /\ peer' = [peer EXCEPT ![ch] = n]
    /\ add_client(ch, n)
    /\ sent' = Silence
    /\ UNCHANGED services

M_remove_client_keeps_services(ch, n) ==
    /\ m_clients_by_name' =
         [m_clients_by_name EXCEPT ![n].client_status = "OFFLINE"]
    /\ sent' = Silence
    /\ UNCHANGED items

M_remove_client_keeps_status(ch, n) ==
    /\ sent' = Silence
    /\ UNCHANGED <<m_clients_by_name, items>>

M_remove_client_silent(ch, n) ==
    /\ m_clients_by_name' =
         [m_clients_by_name EXCEPT ![n].client_status = "OFFLINE"]
    /\ items' = [i \in Items |->
                    IF \E s \in Services : produce_services[n][s] = i
                    THEN [items[i] EXCEPT !.service_status = "DEFAULT"]
                    ELSE items[i]]
    /\ sent' = Silence

\* The client goes OFFLINE; every item of its produce map becomes DEFAULT, and
\* the item's listeners that are ONLINE hear of it.
remove_client(ch, n) ==
    LET offline == [m_clients_by_name EXCEPT ![n].client_status = "OFFLINE"]
        item(s) == produce_services[n][s]
    IN  /\ m_clients_by_name' = offline
        /\ items' = [i \in Items |->
                        IF \E s \in Services : item(s) = i
                        THEN [items[i] EXCEPT !.service_status = "DEFAULT"]
                        ELSE items[i]]
        /\ sent' = [c \in Channels |->
                       {service_change_status(s, "DEFAULT", None, None) :
                          s \in {t \in Services :
                                   /\ item(t) # None
                                   /\ \E l \in items[item(t)].service_listeners :
                                        /\ offline[l].client_status = "ONLINE"
                                        /\ offline[l].client_channel_id = c
                                        /\ c \in Open}}]

Disconnect(ch) ==
    /\ ch \in Open
    /\ conn' = [conn EXCEPT ![ch] = "closed"]
    /\ peer' = [peer EXCEPT ![ch] = None]
    /\ \/ \E n \in Names : ChannelOf(n) = ch /\ remove_client(ch, n)
       \/ /\ \A n \in Names : ChannelOf(n) # ch
          /\ sent' = Silence
          /\ UNCHANGED <<m_clients_by_name, items>>
    /\ UNCHANGED <<m_next_client_id, m_services, produce_services, offered>>

\* The reply tells the pid of the record of that name; the client's init
\* succeeds only if that is its own (register_client_req).
RegisterClient(ch) ==
    /\ conn[ch] = "connected"
    /\ LET n == peer[ch]
       IN /\ conn' = [conn EXCEPT ![ch] =
                        IF ChannelOf(n) = ch THEN "ready" ELSE "refused"]
          /\ sent' = Reply(ch, register_client_resp(ChannelOf(n),
                                 m_clients_by_name[n].client_id))
    /\ UNCHANGED <<peer, clients, services>>

GetClient(ch, id) ==
    /\ ch \in Ready
    /\ \/ \E n \in Names :
            /\ Known(n)
            /\ m_clients_by_name[n].client_id = id
            /\ sent' = Reply(ch, get_client_resp(n))
       \/ /\ \A n \in Names : Known(n) => m_clients_by_name[n].client_id # id
          /\ sent' = Reply(ch, get_client_resp(None))
    /\ UNCHANGED <<conn, peer, clients, services>>

-----------------------------------------------------------------------------
(***************************************************************************)
(* Services.                                                               *)
(***************************************************************************)

\* n registers s, revokes it or sets its status.
ActsAsProvider(n, s) == offered' = [offered EXCEPT ![s] = @ \cup {n}]

M_RegisteredItem(it, n) ==
    [it EXCEPT !.service_status = "AVAILABLE",
               !.service_provider = IF @ = None THEN n ELSE @]

M_RegisteredItem_new(it, n) ==
    [service_status |-> "AVAILABLE", service_provider |-> n,
     service_listeners |-> {}]

RegisteredItem(it, n) ==
    [it EXCEPT !.service_status = "AVAILABLE", !.service_provider = n]

M_WithoutProduct(n, s) == produce_services

\* client_produce_services.erase
WithoutProduct(n, s) == [produce_services EXCEPT ![n][s] = None]

\* What the listeners ls hear when n registers s: each notice has the client_id of
\* the provider, and beside it the name of the listener that it goes to.
RegistrationNotices(s, n, ls) ==
    [ch \in Channels |->
        {service_change_status(s, "AVAILABLE", n, l) :
           l \in {k \in ls : ch \in Open /\ Online(k) /\ ChannelOf(k) = ch}}]

\* register_service with reg: the sender becomes the provider of the item,
\* takes it into its produce map unless that has an item of this service
\* already, hears of all listeners, and the listeners of a method hear of it.
RegisterService(ch, s) ==
    /\ ch \in Ready
    /\ peer[ch] \in Providers[s]
    /\ \E i \in Items :
         LET n == peer[ch]
             ls == items[i].service_listeners
         IN /\ ItemFor(s, i)
            /\ m_services' = [m_services EXCEPT ![s] = i]
            /\ items' = [items EXCEPT ![i] = RegisteredItem(@, n)]
            /\ produce_services' = [produce_services EXCEPT ![n][s] =
                                      IF @ = None THEN i ELSE @]
            /\ sent' = Both(send_msg_to_client({n},
                                listener_change_to_provider(s, ls, TRUE)),
                            IF s \in Methods
                            THEN RegistrationNotices(s, n, ls)
                            ELSE Silence)
    /\ ActsAsProvider(peer[ch], s)
    /\ UNCHANGED <<conn, peer, clients>>

\* register_service without reg: the service leaves m_services whoever asks,
\* then the sender's produce map.  The notification reads the item through an
\* iterator that the erase before it invalidated: it reaches any part of the
\* listeners.
UnregisterService(ch, s) ==
    /\ ch \in Ready
    /\ peer[ch] \in Providers[s]
    /\ LET n == peer[ch]
           mine == produce_services[n][s]
       IN \/ /\ m_services[s] = None
             /\ sent' = Silence
             /\ UNCHANGED <<m_services, items, produce_services>>
          \/ /\ m_services[s] # None
             /\ m_services' = [m_services EXCEPT ![s] = None]
             /\ \/ /\ mine = None
                   /\ sent' = Silence
                   /\ UNCHANGED produce_services
                \/ /\ mine # None
                   /\ produce_services' = WithoutProduct(n, s)
                   /\ \E told \in SUBSET items[mine].service_listeners :
                        sent' = IF s \in Methods
                                THEN send_msg_to_client(told,
                                       service_change_status(s, "UNAVAILABLE", None, None))
                                ELSE Silence
             /\ items' = Freed(items, m_services', produce_services')
    /\ ActsAsProvider(peer[ch], s)
    /\ UNCHANGED <<conn, peer, clients>>

\* The item a listen message works on: a service nobody has registered yet gets
\* one, DEFAULT and without a provider.
ListenedItem(s, i) ==
    IF m_services[s] = None
    THEN [NoItem EXCEPT !.service_status = "DEFAULT"] ELSE items[i]

ListenService(ch, s) ==
    /\ ch \in Ready
    /\ peer[ch] \in Consumers[s]
    /\ \E i \in Items :
         LET n == peer[ch]
             it == ListenedItem(s, i)
         IN /\ ItemFor(s, i)
            /\ m_services' = [m_services EXCEPT ![s] = i]
            /\ items' = [items EXCEPT ![i] =
                   [it EXCEPT !.service_listeners = @ \cup {n}]]
            /\ sent' = Both(IF s \in Methods /\ it.service_status = "AVAILABLE"
                            THEN send_msg_to_client({n},
                                   service_change_status(s, "AVAILABLE",
                                     it.service_provider, it.service_provider))
                            ELSE Silence,
                            IF it.service_provider # None
                            THEN send_msg_to_client({it.service_provider},
                                   listener_change_to_provider(s, {n}, TRUE))
                            ELSE Silence)
    /\ UNCHANGED <<conn, peer, clients, produce_services, offered>>

\* Only the listener of a method is taken out of the item.
CancelListenService(ch, s) ==
    /\ ch \in Ready
    /\ peer[ch] \in Consumers[s]
    /\ \E i \in Items :
         LET n == peer[ch]
             it == ListenedItem(s, i)
         IN /\ ItemFor(s, i)
            /\ m_services' = [m_services EXCEPT ![s] = i]
            /\ items' = [items EXCEPT ![i] =
                   [it EXCEPT !.service_listeners =
                       IF s \in Methods THEN @ \ {n} ELSE @]]
            /\ sent' = IF it.service_provider # None
                       THEN send_msg_to_client({it.service_provider},
                              listener_change_to_provider(s, {n}, FALSE))
                       ELSE Silence
    /\ UNCHANGED <<conn, peer, clients, produce_services, offered>>

M_GetService(ch, s) ==
    /\ ch \in Ready
    /\ peer[ch] \in Consumers[s]
    /\ sent' = IF m_services[s] = None
               THEN Silence
               ELSE send_msg_to_client({peer[ch]},
                      get_service_resp(s, TypeOf(s),
                                       items[m_services[s]].service_status,
                                       items[m_services[s]].service_provider))
    /\ UNCHANGED <<conn, peer, clients, services>>

\* The answer goes to the channel of the record, if the client is ONLINE.
GetService(ch, s) ==
    /\ ch \in Ready
    /\ peer[ch] \in Consumers[s]
    /\ sent' = send_msg_to_client({peer[ch]},
                 IF m_services[s] = None
                 THEN get_service_resp(s, "UNKNOWN", "UNAVAILABLE", None)
                 ELSE get_service_resp(s, TypeOf(s),
                                       items[m_services[s]].service_status,
                                       items[m_services[s]].service_provider))
    /\ UNCHANGED <<conn, peer, clients, services>>

\* status_changed: the service is there and has another status.
StatusChanged(s, st) ==
    m_services[s] # None /\ items[m_services[s]].service_status # st

ServiceSetStatus(ch, s, st) ==
    /\ ch \in Ready
    /\ peer[ch] \in Providers[s]
    /\ \/ LET i == m_services[s]
          IN /\ StatusChanged(s, st)
             /\ items' = [items EXCEPT ![i].service_status = st]
             /\ sent' = IF s \in Methods
                        THEN send_msg_to_client(items[i].service_listeners,
                               service_change_status(s, st,
                                   items[i].service_provider,
                                   items[i].service_provider))
                        ELSE Silence
       \/ /\ ~StatusChanged(s, st)
          /\ sent' = Silence
          /\ UNCHANGED items
    /\ ActsAsProvider(peer[ch], s)
    /\ UNCHANGED <<conn, peer, clients, m_services, produce_services>>

-----------------------------------------------------------------------------
OnConnection == \E ch \in Channels, n \in Names : Connect(ch, n)
OnClose == \E ch \in Channels : Disconnect(ch)
OnMessage ==
    \E ch \in Channels :
       \/ RegisterClient(ch)
       \/ \E id \in 0..m_next_client_id : GetClient(ch, id)
       \/ \E s \in Services :
            \/ RegisterService(ch, s)
            \/ UnregisterService(ch, s)
            \/ ListenService(ch, s)
            \/ CancelListenService(ch, s)
            \/ GetService(ch, s)
            \/ \E st \in ServiceStatus : ServiceSetStatus(ch, s, st)

Next == OnConnection \/ OnClose \/ OnMessage

Spec == Init /\ [][Next]_vars
-----------------------------------------------------------------------------
(***************************************************************************)
(* Properties.                                                             *)
(***************************************************************************)

\* Every variable has its type: records, items and messages are well formed and
\* every pointer is null or an address.
TypeOK ==
    /\ conn \in [Channels -> {"connected", "ready", "refused", "closed"}]
    /\ peer \in [Channels -> Names \cup {None}]
    /\ m_clients_by_name \in [Names -> local_client]
    /\ m_next_client_id \in Nat \ {0}
    /\ m_services \in [Services -> Items \cup {None}]
    /\ items \in [Items -> local_service_item]
    /\ produce_services \in [Names -> [Services -> Items \cup {None}]]
    /\ offered \in [Services -> SUBSET Names]
    /\ sent \in [Channels -> SUBSET Message]

\* A client record is ONLINE exactly when its channel is in the server's map, so
\* send_msg_to_client is never handed the null channel of an ONLINE client
\* (local_registry_logic.cpp:188).
OnlineIsConnected ==
    \A n \in Names : Online(n) <=> Known(n) /\ ChannelOf(n) \in Open

\* Two clients never share an id or a channel: remove_client and get_client,
\* which stop at the first record that matches, find the only one.
ClientsDistinct ==
    \A n1, n2 \in Names :
       Known(n1) /\ Known(n2) /\ n1 # n2 =>
          /\ m_clients_by_name[n1].client_id # m_clients_by_name[n2].client_id
          /\ ChannelOf(n1) # ChannelOf(n2)

\* At most one process of a name gets through ipc_hv_soa_init at a time, however
\* its connections and closes are ordered, and it is the one on record
\* ("running(so not again run)", local_registry_logic.cpp:274).
OneRunningInstance ==
    /\ \A c1, c2 \in Ready : peer[c1] = peer[c2] => c1 = c2
    /\ \A ch \in Ready : ChannelOf(peer[ch]) = ch /\ Online(peer[ch])

\* No second client has registered s, revoked it or set its status so far.
SoleProvider(s) == \A a, b \in offered[s] : a = b

\* As long as a service has only one provider, the registry never shows it
\* AVAILABLE while the provider is OFFLINE: the close handler takes back
\* everything the client still offers (local_registry_logic.cpp:326).
AvailableHasLiveProvider ==
    \A s \in Services : SoleProvider(s) /\ m_services[s] # None =>
       LET it == items[m_services[s]]
       IN it.service_status = "AVAILABLE" /\ it.service_provider # None
             => Online(it.service_provider)

\* As long as a service has only one provider, the item that it has in its
\* produce map is the one m_services has: "service_item is updated in
\* m_services, so here no need to update it" (local_registry_logic.cpp:503).
ProducedItemIsCurrent ==
    \A s \in Services : SoleProvider(s) /\ m_services[s] # None =>
       LET n == items[m_services[s]].service_provider
       IN n # None => produce_services[n][s] = m_services[s]

\* A message that tells a listener a service is AVAILABLE, and from the client of
\* which client_id, says what the registry holds when the handler is done.  The
\* name beside the id is the provider's or, in the notice of a registration, the
\* listener's own (local_registry_logic.cpp:542).
NoticeIsTruthful ==
    \A ch \in Channels : \A m \in sent[ch] :
       m.kind = "service_change_status" /\ m.status = "AVAILABLE" =>
          /\ m_services[m.service] # None
          /\ items[m_services[m.service]].service_status = "AVAILABLE"
          /\ items[m_services[m.service]].service_provider = m.provider
          /\ m.client_name = m.provider \/ ChannelOf(m.client_name) = ch

\* The name in a notice is that of the client whose id it gives.
NoticeNamesProvider ==
    \A ch \in Channels : \A m \in sent[ch] :
       m.kind = "service_change_status" => m.client_name = m.provider

\* Whenever the status of a method in m_services changes, each of its listeners
\* that is ONLINE is sent the new status in the same handler.
StatusChangeIsTold ==
    [][\A s \in Methods :
          LET i == m_services[s]
          IN i # None /\ m_services'[s] = i
             /\ items'[i].service_status # items[i].service_status
             => \A l \in items'[i].service_listeners :
                   Online(l)' =>
                      \E m \in sent'[ChannelOf(l)'] :
                         /\ m.kind = "service_change_status"
                         /\ m.service = s
                         /\ m.status = items'[i].service_status]_vars

\* A client keeps its id for good, across disconnects and reconnects: the
\* listener maps of the daemon and the socket names of the peers are built on it.
ClientIdIsStable ==
    [][\A n \in Names : Known(n) =>
          /\ Known(n)'
          /\ m_clients_by_name'[n].client_id = m_clients_by_name[n].client_id]_vars
=============================================================================
