------------------------- MODULE LocalRegistryProofs -------------------------
(***************************************************************************)
(* What holds of the registry daemon for every set of names, channels,     *)
(* services and items.                                                     *)
(***************************************************************************)
EXTENDS LocalRegistry, TLAPS

-----------------------------------------------------------------------------
(***************************************************************************)
(* Types.                                                                  *)
(***************************************************************************)

\* What every handler writes to the channels is a set of messages per channel.
LEMMA SilenceType == Silence \in [Channels -> SUBSET Message]
BY Zenon DEF Silence

\* An answer to one channel is typed.
LEMMA ReplyType ==
    ASSUME NEW ch \in Channels, NEW m \in Message
    PROVE  Reply(ch, m) \in [Channels -> SUBSET Message]
BY Zenon DEF Reply, Silence

\* So is a message to the channels of some clients,
LEMMA SendType ==
    ASSUME NEW ns, NEW m \in Message
    PROVE  send_msg_to_client(ns, m) \in [Channels -> SUBSET Message]
BY Zenon DEF send_msg_to_client

\* and so is what two of these write together.
LEMMA BothType ==
    ASSUME NEW a \in [Channels -> SUBSET Message],
           NEW b \in [Channels -> SUBSET Message]
    PROVE  Both(a, b) \in [Channels -> SUBSET Message]
BY Zenon DEF Both

\* The constructors build messages.
LEMMA ChangeStatusType ==
    ASSUME NEW s \in Services, NEW st \in ServiceStatus,
           NEW p \in Names \cup {None}, NEW name \in Names \cup {None}
    PROVE  /\ service_change_status(s, st, p, name) \in Message
           /\ \A ty \in ServiceType : get_service_resp(s, ty, st, p) \in Message
BY Zenon DEF service_change_status, get_service_resp, Message

\* The message to a provider about its listeners is typed.
LEMMA ListenerChangeType ==
    ASSUME NEW s \in Services, NEW ls \in SUBSET Names, NEW reg \in BOOLEAN
    PROVE  listener_change_to_provider(s, ls, reg) \in Message
BY Zenon DEF listener_change_to_provider, Message

\* So are the answers about clients.
LEMMA ClientRespType ==
    /\ \A pid \in Channels \cup {None}, id \in Nat :
          register_client_resp(pid, id) \in Message
    /\ \A n \in Names \cup {None} : get_client_resp(n) \in Message
BY Zenon DEF register_client_resp, get_client_resp, Message

\* A client record and an item have their types from the start.
LEMMA EmptyTypes == NoClient \in local_client /\ NoItem \in local_service_item
BY Zenon DEF NoClient, NoItem, local_client, local_service_item, ClientStatus,
       ServiceStatus

\* A change of status keeps the type of an item.
LEMMA SetStatusType ==
    ASSUME NEW it \in local_service_item, NEW st \in ServiceStatus
    PROVE  [it EXCEPT !.service_status = st] \in local_service_item
BY Zenon DEF local_service_item

\* The daemon starts in a typed state.
LEMMA InitType == Init => TypeOK
BY EmptyTypes, SilenceType DEF Init, TypeOK

\* Every open channel belongs to a process whose name is known: RegisterClient
\* and the handlers of services look the sender up by that name.
PeerKnown == \A ch \in Open : peer[ch] \in Names

\* The accept callback keeps the types.
LEMMA ConnectType ==
    ASSUME TypeOK, NEW ch \in Channels, NEW n \in Names, Connect(ch, n)
    PROVE  TypeOK'
<1>1. m_clients_by_name' \in [Names -> local_client]
  <2>1. CASE UNCHANGED clients
    BY <2>1, Zenon DEF TypeOK, clients
  <2>2. CASE m_clients_by_name' =
            [m_clients_by_name EXCEPT ![n].client_channel_id = ch,
                                      ![n].client_status = "ONLINE"]
    <3>1. /\ m_clients_by_name \in [Names -> local_client]
          /\ m_clients_by_name[n] \in local_client
      BY Zenon DEF TypeOK
    <3>2. [m_clients_by_name[n] EXCEPT !.client_channel_id = ch,
                                       !.client_status = "ONLINE"] \in local_client
      BY <3>1, Zenon DEF local_client, ClientStatus
    <3> QED BY <2>2, <3>1, <3>2, Zenon
  <2>3. CASE m_clients_by_name' =
            [m_clients_by_name EXCEPT ![n] =
                [client_id |-> m_next_client_id, client_channel_id |-> ch,
                 client_status |-> "ONLINE"]]
    BY <2>3, Zenon DEF TypeOK, local_client, ClientStatus
  <2> QED BY <2>1, <2>2, <2>3, Zenon DEF Connect, add_client
<1>2. m_next_client_id' \in Nat \ {0}
  BY DEF Connect, add_client, clients, TypeOK
<1> QED BY <1>1, <1>2, SilenceType, Zenon DEF Connect, services, TypeOK

\* The close callback keeps the types.
LEMMA DisconnectType ==
    ASSUME TypeOK, NEW ch \in Channels, Disconnect(ch)
    PROVE  TypeOK'
<1>1. CASE \E n \in Names : ChannelOf(n) = ch /\ remove_client(ch, n)
  <2>0. PICK n \in Names : remove_client(ch, n)
    BY <1>1, Zenon
  <2>1. m_clients_by_name' \in [Names -> local_client]
    <3>1. /\ m_clients_by_name \in [Names -> local_client]
          /\ m_clients_by_name[n] \in local_client
      BY Zenon DEF TypeOK
    <3>2. [m_clients_by_name[n] EXCEPT !.client_status = "OFFLINE"] \in local_client
      BY <3>1, Zenon DEF local_client, ClientStatus
    <3>3. m_clients_by_name' = [m_clients_by_name EXCEPT ![n].client_status = "OFFLINE"]
      BY <2>0, Zenon DEF remove_client
    <3> QED BY <3>1, <3>2, <3>3, Zenon
  <2>2. items' \in [Items -> local_service_item]
    <3>1. \A i \in Items :
             [items[i] EXCEPT !.service_status = "DEFAULT"] \in local_service_item
      BY SetStatusType, Zenon DEF TypeOK, ServiceStatus
    <3> QED BY <2>0, <3>1, Zenon DEF remove_client, TypeOK
  <2>3. \A s \in Services : service_change_status(s, "DEFAULT", None, None) \in Message
    BY ChangeStatusType, Zenon DEF ServiceStatus
  <2>4. sent' \in [Channels -> SUBSET Message]
    BY <2>0, <2>3, Zenon DEF remove_client
  <2> QED BY <2>1, <2>2, <2>4, Zenon DEF Disconnect, TypeOK
<1>2. CASE UNCHANGED <<m_clients_by_name, items>> /\ sent' = Silence
  BY <1>2, SilenceType, Zenon DEF Disconnect, TypeOK
<1> QED BY <1>1, <1>2, Zenon DEF Disconnect

\* register_client keeps the types.
LEMMA RegisterClientType ==
    ASSUME TypeOK, PeerKnown, NEW ch \in Channels, RegisterClient(ch)
    PROVE  TypeOK'
<1>1. peer[ch] \in Names
  BY Zenon DEF PeerKnown, Open, RegisterClient
<1>2. register_client_resp(ChannelOf(peer[ch]), m_clients_by_name[peer[ch]].client_id)
        \in Message
  BY <1>1, ClientRespType, Zenon DEF TypeOK, local_client, ChannelOf
<1>3. sent' \in [Channels -> SUBSET Message]
  BY <1>2, ReplyType, Zenon DEF RegisterClient
<1> QED BY <1>3, Zenon DEF RegisterClient, TypeOK, clients, services

\* get_client keeps the types.
LEMMA GetClientType ==
    ASSUME TypeOK, NEW ch \in Channels, NEW id, GetClient(ch, id)
    PROVE  TypeOK'
<1>1. sent' \in [Channels -> SUBSET Message]
  BY ClientRespType, ReplyType, Zenon DEF GetClient
<1> QED BY <1>1, Zenon DEF GetClient, TypeOK, clients, services

\* The clients that acted as provider are names.
LEMMA ActsAsProviderType ==
    ASSUME TypeOK, NEW n \in Names, NEW s \in Services, ActsAsProvider(n, s)
    PROVE  offered' \in [Services -> SUBSET Names]
BY Zenon DEF ActsAsProvider, TypeOK

\* register_service keeps the types.
LEMMA RegisterServiceType ==
    ASSUME TypeOK, PeerKnown, NEW ch \in Channels, NEW s \in Services,
           RegisterService(ch, s)
    PROVE  TypeOK'
<1> DEFINE n == peer[ch]
<1>1. n \in Names
  BY Zenon DEF PeerKnown, Open, Ready, RegisterService
<1>2. PICK i \in Items :
        /\ m_services' = [m_services EXCEPT ![s] = i]
        /\ items' = [items EXCEPT ![i] = RegisteredItem(@, n)]
        /\ produce_services' = [produce_services EXCEPT ![n][s] =
                                   IF @ = None THEN i ELSE @]
        /\ sent' = Both(send_msg_to_client({n},
                            listener_change_to_provider(s,
                               items[i].service_listeners, TRUE)),
                        IF s \in Methods
                        THEN RegistrationNotices(s, n, items[i].service_listeners)
                        ELSE Silence)
  BY Zenon DEF RegisterService
<1> HIDE DEF n
<1>3. items' \in [Items -> local_service_item]
  <2>1. items \in [Items -> local_service_item] /\ items[i] \in local_service_item
    BY Zenon DEF TypeOK
  <2>2. RegisteredItem(items[i], n) \in local_service_item
    BY <1>1, <2>1, Zenon DEF RegisteredItem, local_service_item, ServiceStatus
  <2> QED BY <1>2, <2>1, <2>2, Zenon
<1>4. m_services' \in [Services -> Items \cup {None}]
  BY <1>2, Zenon DEF TypeOK
<1>5. produce_services' \in [Names -> [Services -> Items \cup {None}]]
  BY <1>1, <1>2 DEF TypeOK
<1>6. /\ listener_change_to_provider(s, items[i].service_listeners, TRUE) \in Message
      /\ items[i].service_listeners \subseteq Names
  BY <1>1, ListenerChangeType, Zenon DEF TypeOK, local_service_item
<1>7. sent' \in [Channels -> SUBSET Message]
  <2>1. \A l \in items[i].service_listeners :
           service_change_status(s, "AVAILABLE", n, l) \in Message
    BY <1>1, <1>6, ChangeStatusType, Zenon DEF ServiceStatus
  <2>2. RegistrationNotices(s, n, items[i].service_listeners) \in [Channels -> SUBSET Message]
    BY <2>1, Zenon DEF RegistrationNotices
  <2> QED  BY <1>2, <1>6, <2>2, SendType, BothType, SilenceType, Zenon
<1>8. offered' \in [Services -> SUBSET Names]
  BY <1>1, ActsAsProviderType, Zenon DEF RegisterService, n
<1> QED BY <1>3, <1>4, <1>5, <1>7, <1>8, Zenon DEF RegisterService, TypeOK, clients

\* What is freed is the type of an item again, and what is referenced stays.
LEMMA FreedType ==
    ASSUME NEW its \in [Items -> local_service_item], NEW ms, NEW ps
    PROVE  /\ Freed(its, ms, ps) \in [Items -> local_service_item]
           /\ \A i \in Referenced(ms, ps) : Freed(its, ms, ps)[i] = its[i]
BY EmptyTypes, Zenon DEF Freed, Referenced

\* unregister_service keeps the types.
LEMMA UnregisterServiceType ==
    ASSUME TypeOK, PeerKnown, NEW ch \in Channels, NEW s \in Services,
           UnregisterService(ch, s)
    PROVE  TypeOK'
<1> DEFINE n == peer[ch]
<1>1. n \in Names
  BY Zenon DEF PeerKnown, Open, Ready, UnregisterService
<1>2. service_change_status(s, "UNAVAILABLE", None, None) \in Message
  BY ChangeStatusType, Zenon DEF ServiceStatus
<1>3. sent' \in [Channels -> SUBSET Message]
  BY <1>2, SendType, SilenceType DEF UnregisterService
<1>4. m_services' \in [Services -> Items \cup {None}]
  BY Zenon DEF TypeOK, UnregisterService, services
<1>5. produce_services' \in [Names -> [Services -> Items \cup {None}]]
  <2>1. \/ produce_services' = produce_services
        \/ produce_services' = WithoutProduct(n, s)
    BY Zenon DEF UnregisterService
  <2>2. /\ produce_services \in [Names -> [Services -> Items \cup {None}]]
        /\ produce_services[n] \in [Services -> Items \cup {None}]
    BY <1>1, Zenon DEF TypeOK
  <2>3. [produce_services[n] EXCEPT ![s] = None] \in [Services -> Items \cup {None}]
    BY <2>2, Zenon
  <2>4. WithoutProduct(n, s) = [produce_services EXCEPT ![n] = [produce_services[n] EXCEPT ![s] = None]]
    BY Zenon DEF WithoutProduct
  <2>5. WithoutProduct(n, s) \in [Names -> [Services -> Items \cup {None}]]
    BY <2>2, <2>3, <2>4, Zenon
  <2> QED BY <2>1, <2>2, <2>5, Zenon
<1>6. items' \in [Items -> local_service_item]
  BY FreedType DEF TypeOK, UnregisterService, services
<1>7. offered' \in [Services -> SUBSET Names]
  BY <1>1, ActsAsProviderType, Zenon DEF UnregisterService
<1> QED BY <1>3, <1>4, <1>5, <1>6, <1>7, Zenon DEF UnregisterService, TypeOK, clients

\* The item that a listen finds or makes is typed.
LEMMA ListenedItemType ==
    ASSUME TypeOK, NEW s \in Services, NEW i \in Items
    PROVE  ListenedItem(s, i) \in local_service_item
<1>1. [NoItem EXCEPT !.service_status = "DEFAULT"] \in local_service_item
  BY EmptyTypes, SetStatusType, Zenon DEF ServiceStatus
<1> QED BY <1>1, Zenon DEF ListenedItem, TypeOK

\* listen_service keeps the types.
LEMMA ListenServiceType ==
    ASSUME TypeOK, PeerKnown, NEW ch \in Channels, NEW s \in Services,
           ListenService(ch, s)
    PROVE  TypeOK'
<1> DEFINE n == peer[ch]
           it(i) == ListenedItem(s, i)
<1>1. n \in Names
  BY Zenon DEF PeerKnown, Open, Ready, ListenService
<1>2. PICK i \in Items :
        /\ m_services' = [m_services EXCEPT ![s] = i]
        /\ items' = [items EXCEPT ![i] =
                        [it(i) EXCEPT !.service_listeners = @ \cup {n}]]
        /\ sent' = Both(IF s \in Methods /\ it(i).service_status = "AVAILABLE"
                        THEN send_msg_to_client({n},
                               service_change_status(s, "AVAILABLE",
                                  it(i).service_provider, it(i).service_provider))
                        ELSE Silence,
                        IF it(i).service_provider # None
                        THEN send_msg_to_client({it(i).service_provider},
                               listener_change_to_provider(s, {n}, TRUE))
                        ELSE Silence)
  BY Zenon DEF ListenService
<1>3. it(i) \in local_service_item
  BY ListenedItemType, Zenon
<1> HIDE DEF n, it
<1>4. [it(i) EXCEPT !.service_listeners = @ \cup {n}] \in local_service_item
  BY <1>1, <1>3, Zenon DEF local_service_item
<1>5. items' \in [Items -> local_service_item]
  BY <1>2, <1>4, Zenon DEF TypeOK
<1>6. m_services' \in [Services -> Items \cup {None}]
  BY <1>2, Zenon DEF TypeOK
<1>7. /\ listener_change_to_provider(s, {n}, TRUE) \in Message
      /\ service_change_status(s, "AVAILABLE",
            it(i).service_provider, it(i).service_provider) \in Message
  BY <1>1, <1>3, ListenerChangeType, ChangeStatusType, Zenon
     DEF ServiceStatus, local_service_item
<1>8. sent' \in [Channels -> SUBSET Message]
  BY <1>2, <1>7, SendType, BothType, SilenceType, Zenon
<1> QED BY <1>5, <1>6, <1>8, Zenon DEF ListenService, TypeOK, clients

\* cancel_listen_service keeps the types.
LEMMA CancelListenServiceType ==
    ASSUME TypeOK, PeerKnown, NEW ch \in Channels, NEW s \in Services,
           CancelListenService(ch, s)
    PROVE  TypeOK'
<1> DEFINE n == peer[ch]
           it(i) == ListenedItem(s, i)
<1>1. n \in Names
  BY Zenon DEF PeerKnown, Open, Ready, CancelListenService
<1>2. PICK i \in Items :
        /\ m_services' = [m_services EXCEPT ![s] = i]
        /\ items' = [items EXCEPT ![i] =
                        [it(i) EXCEPT !.service_listeners =
                            IF s \in Methods THEN @ \ {n} ELSE @]]
        /\ sent' = IF it(i).service_provider # None
                   THEN send_msg_to_client({it(i).service_provider},
                          listener_change_to_provider(s, {n}, FALSE))
                   ELSE Silence
  BY Zenon DEF CancelListenService
<1>3. it(i) \in local_service_item
  BY ListenedItemType, Zenon
<1> HIDE DEF n, it
<1>4. [it(i) EXCEPT !.service_listeners =
          IF s \in Methods THEN @ \ {n} ELSE @] \in local_service_item
  BY <1>1, <1>3, Zenon DEF local_service_item
<1>5. items' \in [Items -> local_service_item]
  BY <1>2, <1>4, Zenon DEF TypeOK
<1>6. m_services' \in [Services -> Items \cup {None}]
  BY <1>2, Zenon DEF TypeOK
<1>7. listener_change_to_provider(s, {n}, FALSE) \in Message
  BY <1>1, ListenerChangeType, Zenon
<1>8. sent' \in [Channels -> SUBSET Message]
  BY <1>2, <1>7, SendType, SilenceType, Zenon
<1> QED BY <1>5, <1>6, <1>8, Zenon DEF CancelListenService, TypeOK, clients

\* Whatever m_services points at is an item in use, with a status of its own.
ItemsLive ==
    \A s \in Services : m_services[s] # None =>
        items[m_services[s]].service_status \in ServiceStatus

\* get_service keeps the types.
LEMMA GetServiceType ==
    ASSUME TypeOK, ItemsLive, NEW ch \in Channels, NEW s \in Services,
           GetService(ch, s)
    PROVE  TypeOK'
<1>1. (IF m_services[s] = None
       THEN get_service_resp(s, "UNKNOWN", "UNAVAILABLE", None)
       ELSE get_service_resp(s, TypeOf(s), items[m_services[s]].service_status,
                             items[m_services[s]].service_provider)) \in Message
  <2>1. CASE m_services[s] = None
    BY <2>1, ChangeStatusType, Zenon DEF ServiceStatus, ServiceType
  <2>2. CASE m_services[s] # None
    <3>1. m_services[s] \in Items
      BY <2>2, Zenon DEF TypeOK
    <3>2. /\ items[m_services[s]].service_status \in ServiceStatus
          /\ items[m_services[s]].service_provider \in Names \cup {None}
      BY <2>2, <3>1, Zenon DEF TypeOK, ItemsLive, local_service_item
    <3>3. TypeOf(s) \in ServiceType
      BY Zenon DEF TypeOf, ServiceType
    <3> QED BY <2>2, <3>2, <3>3, ChangeStatusType, Zenon
  <2> QED BY <2>1, <2>2, Zenon
<1>2. sent' \in [Channels -> SUBSET Message]
  BY <1>1, SendType, Zenon DEF GetService
<1> QED BY <1>2, Zenon DEF GetService, TypeOK, clients, services

\* service_set_status keeps the types.
LEMMA ServiceSetStatusType ==
    ASSUME TypeOK, PeerKnown, NEW ch \in Channels, NEW s \in Services,
           NEW st \in ServiceStatus, ServiceSetStatus(ch, s, st)
    PROVE  TypeOK'
<1>0. offered' \in [Services -> SUBSET Names]
  BY ActsAsProviderType, Zenon DEF PeerKnown, Open, Ready, ServiceSetStatus
<1>1. CASE StatusChanged(s, st)
  <2> DEFINE i == m_services[s]
  <2>1. i \in Items
    BY <1>1, Zenon DEF StatusChanged, TypeOK
  <2>2. /\ items' = [items EXCEPT ![i].service_status = st]
        /\ sent' = IF s \in Methods
                   THEN send_msg_to_client(items[i].service_listeners,
                          service_change_status(s, st, items[i].service_provider,
                                                items[i].service_provider))
                   ELSE Silence
    BY <1>1, Zenon DEF ServiceSetStatus
  <2>3. items[i] \in local_service_item
    BY <2>1, Zenon DEF TypeOK
  <2> HIDE DEF i
  <2>4. items' \in [Items -> local_service_item]
    <3>1. [items[i] EXCEPT !.service_status = st] \in local_service_item
      BY <2>3, SetStatusType, Zenon
    <3>2. items' = [items EXCEPT ![i] = [items[i] EXCEPT !.service_status = st]]
      BY <2>2, Zenon
    <3> QED BY <3>1, <3>2, Zenon DEF TypeOK
  <2>5. service_change_status(s, st, items[i].service_provider,
                              items[i].service_provider) \in Message
    BY <2>3, ChangeStatusType, Zenon DEF local_service_item
  <2>6. sent' \in [Channels -> SUBSET Message]
    BY <2>2, <2>5, SendType, SilenceType, Zenon
  <2> QED BY <1>0, <2>4, <2>6, Zenon DEF ServiceSetStatus, TypeOK, clients
<1>2. CASE UNCHANGED items /\ sent' = Silence
  BY <1>0, <1>2, SilenceType, Zenon DEF ServiceSetStatus, TypeOK, clients
<1> QED BY <1>1, <1>2, Zenon DEF ServiceSetStatus

\* Types, with what the handlers need to keep them.
TypeInv == TypeOK /\ PeerKnown /\ ItemsLive

\* One step of the daemon, whichever handler it is, keeps the types.
LEMMA NextType == TypeInv /\ [Next]_vars => TypeOK'
<1> SUFFICES ASSUME TypeInv, [Next]_vars PROVE TypeOK'
  OBVIOUS
<1>1. CASE OnConnection
  BY <1>1, ConnectType, Zenon DEF OnConnection, TypeInv
<1>2. CASE OnClose
  BY <1>2, DisconnectType, Zenon DEF OnClose, TypeInv
<1>3. CASE OnMessage
  <2>1. ASSUME NEW ch \in Channels, RegisterClient(ch)
        PROVE  TypeOK'
    BY <2>1, RegisterClientType, Zenon DEF TypeInv
  <2>2. ASSUME NEW ch \in Channels, NEW id, GetClient(ch, id)
        PROVE  TypeOK'
    BY <2>2, GetClientType, Zenon DEF TypeInv
  <2>3. ASSUME NEW ch \in Channels, NEW s \in Services,
               \/ RegisterService(ch, s) \/ UnregisterService(ch, s)
               \/ ListenService(ch, s) \/ CancelListenService(ch, s)
               \/ GetService(ch, s)
        PROVE  TypeOK'
    BY <2>3, RegisterServiceType, UnregisterServiceType, ListenServiceType,
       CancelListenServiceType, GetServiceType, Zenon DEF TypeInv
  <2>4. ASSUME NEW ch \in Channels, NEW s \in Services,
               NEW st \in ServiceStatus, ServiceSetStatus(ch, s, st)
        PROVE  TypeOK'
    BY <2>4, ServiceSetStatusType, Zenon DEF TypeInv
  <2> QED BY <1>3, <2>1, <2>2, <2>3, <2>4, Zenon DEF OnMessage
<1>4. CASE UNCHANGED vars
  BY <1>4, Zenon DEF TypeInv, TypeOK, vars
<1> QED BY <1>1, <1>2, <1>3, <1>4, Zenon DEF Next

\* No message but register_client touches channels or client records: "client
\* info is add/del by connect/disconnect, other logic can't operate client info"
\* (local_registry_logic.cpp:617).
LEMMA MessageFrame ==
    ASSUME NEW ch
    PROVE  /\ \A id : GetClient(ch, id) => UNCHANGED <<conn, peer, clients>>
           /\ \A s : (\/ RegisterService(ch, s) \/ UnregisterService(ch, s)
                      \/ ListenService(ch, s) \/ CancelListenService(ch, s)
                      \/ GetService(ch, s)
                      \/ \E st : ServiceSetStatus(ch, s, st))
                     => UNCHANGED <<conn, peer, clients>>
<1>1. \A id : GetClient(ch, id) => UNCHANGED <<conn, peer, clients>>
  BY Zenon DEF GetClient
<1>2. ASSUME NEW s PROVE RegisterService(ch, s) => UNCHANGED <<conn, peer, clients>>
  BY Zenon DEF RegisterService
<1>3. ASSUME NEW s PROVE UnregisterService(ch, s) => UNCHANGED <<conn, peer, clients>>
  BY Zenon DEF UnregisterService
<1>4. ASSUME NEW s PROVE ListenService(ch, s) => UNCHANGED <<conn, peer, clients>>
  BY Zenon DEF ListenService
<1>5. ASSUME NEW s
      PROVE  CancelListenService(ch, s) => UNCHANGED <<conn, peer, clients>>
  BY Zenon DEF CancelListenService
<1>6. ASSUME NEW s PROVE GetService(ch, s) => UNCHANGED <<conn, peer, clients>>
  BY Zenon DEF GetService
<1>7. ASSUME NEW s, NEW st
      PROVE  ServiceSetStatus(ch, s, st) => UNCHANGED <<conn, peer, clients>>
  BY Zenon DEF ServiceSetStatus
<1> QED BY <1>1, <1>2, <1>3, <1>4, <1>5, <1>6, <1>7, Zenon

\* Only the handlers of connections and register_client touch the channels or
\* the records.
LEMMA ClientSteps ==
    [Next]_vars =>
      \/ \E ch \in Channels, n \in Names : Connect(ch, n)
      \/ \E ch \in Channels : Disconnect(ch) \/ RegisterClient(ch)
      \/ UNCHANGED <<conn, peer, clients>>
<1>1. ASSUME OnMessage
      PROVE  \/ \E ch \in Channels : RegisterClient(ch)
             \/ UNCHANGED <<conn, peer, clients>>
  <2>1. PICK ch \in Channels :
          \/ RegisterClient(ch)
          \/ \E id : GetClient(ch, id)
          \/ \E s : \/ RegisterService(ch, s) \/ UnregisterService(ch, s)
                   \/ ListenService(ch, s) \/ CancelListenService(ch, s)
                   \/ GetService(ch, s)
                   \/ \E st : ServiceSetStatus(ch, s, st)
    BY <1>1, Zenon DEF OnMessage
  <2>2. RegisterClient(ch) \/ UNCHANGED <<conn, peer, clients>>
    BY <2>1, MessageFrame, Zenon
  <2> QED BY <2>2, Zenon
<1>2. UNCHANGED vars => UNCHANGED <<conn, peer, clients>>
  BY Zenon DEF vars, clients
<1> QED BY <1>1, <1>2, Zenon DEF Next, OnConnection, OnClose

\* Every handler leaves an open channel its name.
LEMMA NextPeerKnown == TypeInv /\ [Next]_vars => PeerKnown'
<1> SUFFICES ASSUME TypeInv, [Next]_vars PROVE PeerKnown'
  OBVIOUS
<1>1. ASSUME NEW ch \in Channels, NEW n \in Names, Connect(ch, n)
      PROVE  PeerKnown'
  BY <1>1, Zenon DEF Connect, PeerKnown, Open, TypeInv, TypeOK
<1>2. ASSUME NEW ch \in Channels, Disconnect(ch)
      PROVE  PeerKnown'
  BY <1>2, Zenon DEF Disconnect, PeerKnown, Open, TypeInv, TypeOK
<1>3. ASSUME NEW ch \in Channels, RegisterClient(ch)
      PROVE  PeerKnown'
  BY <1>3, Zenon DEF RegisterClient, PeerKnown, Open, TypeInv, TypeOK
<1>4. CASE UNCHANGED <<conn, peer>>
  BY <1>4, Zenon DEF PeerKnown, Open, TypeInv
<1> QED BY <1>1, <1>2, <1>3, <1>4, ClientSteps, Zenon

\* Every handler leaves the registered items in use.
LEMMA NextItemsLive == TypeInv /\ [Next]_vars => ItemsLive'
<1> SUFFICES ASSUME TypeInv, [Next]_vars, NEW t \in Services,
                    m_services'[t] # None
             PROVE  items'[m_services'[t]].service_status \in ServiceStatus
  BY Zenon DEF ItemsLive
<1> USE DEF TypeInv, TypeOK, ItemsLive
<1>1. CASE UNCHANGED <<m_services, items>>
  BY <1>1, Zenon
<1>2. ASSUME NEW ch \in Channels, Disconnect(ch)
      PROVE  items'[m_services'[t]].service_status \in ServiceStatus
  <2>1. m_services' = m_services /\ m_services[t] \in Items
    BY <1>2, Zenon DEF Disconnect
  <2>2. CASE items' = items
    BY <2>1, <2>2, Zenon
  <2>3. ASSUME NEW n \in Names, remove_client(ch, n)
        PROVE  items'[m_services'[t]].service_status \in ServiceStatus
    <3>1. \/ items'[m_services[t]] = items[m_services[t]]
          \/ items'[m_services[t]] =
               [items[m_services[t]] EXCEPT !.service_status = "DEFAULT"]
      BY <2>1, <2>3, Zenon DEF remove_client
    <3> QED BY <2>1, <3>1, Zenon DEF ServiceStatus, local_service_item
  <2> QED BY <1>2, <2>2, <2>3, Zenon DEF Disconnect
<1>3. ASSUME NEW ch \in Channels, NEW s \in Services, RegisterService(ch, s)
      PROVE  items'[m_services'[t]].service_status \in ServiceStatus
  BY <1>3 DEF RegisterService, RegisteredItem, ServiceStatus, local_service_item
<1>4. ASSUME NEW ch \in Channels, NEW s \in Services, UnregisterService(ch, s)
      PROVE  items'[m_services'[t]].service_status \in ServiceStatus
  <2>1. CASE UNCHANGED services
    BY <1>1, <2>1, Zenon DEF services
  <2>2. CASE /\ m_services' = [m_services EXCEPT ![s] = None]
             /\ items' = Freed(items, m_services', produce_services')
    <3>1. m_services'[t] = m_services[t] /\ m_services[t] \in Items
      BY <2>2, Zenon
    <3>2. m_services'[t] \in Referenced(m_services', produce_services')
      BY <3>1, Zenon DEF Referenced
    <3> QED BY <2>2, <3>1, <3>2, FreedType
  <2> QED BY <1>4, <2>1, <2>2, Zenon DEF UnregisterService
<1>5. ASSUME NEW ch \in Channels, NEW s \in Services,
             ListenService(ch, s) \/ CancelListenService(ch, s)
      PROVE  items'[m_services'[t]].service_status \in ServiceStatus
  <2> DEFINE Listened(i, ls) ==
          /\ ItemFor(s, i)
          /\ m_services' = [m_services EXCEPT ![s] = i]
          /\ items' = [items EXCEPT ![i] =
                          [ListenedItem(s, i) EXCEPT !.service_listeners = ls]]
  <2>0. PICK i \in Items : \E ls : Listened(i, ls)
    BY <1>5, Zenon DEF ListenService, CancelListenService
  <2>1. PICK ls : Listened(i, ls)
    BY <2>0, Zenon
  <2>2. ListenedItem(s, i) \in local_service_item
    BY ListenedItemType, Zenon
  <2>3. ListenedItem(s, i).service_status \in ServiceStatus
    BY <2>1, Zenon DEF ListenedItem, ItemFor, NoItem, ServiceStatus
  <2> QED BY <2>1, <2>2, <2>3, Zenon DEF local_service_item
<1>6. ASSUME NEW ch \in Channels, NEW s \in Services, NEW st \in ServiceStatus,
             ServiceSetStatus(ch, s, st)
      PROVE  items'[m_services'[t]].service_status \in ServiceStatus
  BY <1>6, SMTT(30) DEF ServiceSetStatus, StatusChanged, local_service_item
<1>7. [Next]_vars =>
        \/ UNCHANGED <<m_services, items>>
        \/ \E ch \in Channels : Disconnect(ch)
        \/ \E ch \in Channels, s \in Services :
              \/ RegisterService(ch, s) \/ UnregisterService(ch, s)
              \/ ListenService(ch, s) \/ CancelListenService(ch, s)
              \/ \E st \in ServiceStatus : ServiceSetStatus(ch, s, st)
  BY ZenonT(30) DEF Next, OnConnection, OnClose, OnMessage, Connect, RegisterClient,
         GetClient, GetService, services, vars
<1> QED BY <1>1, <1>2, <1>3, <1>4, <1>5, <1>6, <1>7, Zenon

\* The daemon keeps its types: records, items, maps and every message it writes
\* are well formed in every reachable state.
THEOREM TypeCorrect == Spec => []TypeOK
<1>1. Init => TypeInv
  BY InitType, Zenon DEF Init, TypeInv, PeerKnown, ItemsLive, Open
<1>2. TypeInv /\ [Next]_vars => TypeInv'
  BY NextType, NextPeerKnown, NextItemsLive, Zenon DEF TypeInv
<1>3. TypeInv => TypeOK
  BY Zenon DEF TypeInv
<1> QED BY <1>1, <1>2, <1>3, PTL DEF Spec

-----------------------------------------------------------------------------
(***************************************************************************)
(* Client records.  OnlineIsConnected and ClientsDistinct are inductive    *)
(* only together with what the records of known clients hold, and the      *)
(* processes past ipc_hv_soa_init are the ones on record.                  *)
(***************************************************************************)

\* A record made by add_client has a channel and an id given out before.
RecordsFilled ==
    \A n \in Names :
       IF Known(n)
       THEN ChannelOf(n) \in Channels /\ m_clients_by_name[n].client_id < m_next_client_id
       ELSE ChannelOf(n) = None

ReadyOnRecord == \A ch \in Ready : ChannelOf(peer[ch]) = ch

ClientInv ==
    RecordsFilled /\ OnlineIsConnected /\ ClientsDistinct /\ ReadyOnRecord

\* At the start no client is known.
LEMMA InitClientInv == Init => ClientInv
BY RegistryAssumption
   DEF Init, ClientInv, RecordsFilled, OnlineIsConnected, ClientsDistinct,
       ReadyOnRecord, NoClient, Known, Online, ChannelOf, Open, Ready

\* A new connection: the channel is fresh, so it is nobody else's.
LEMMA ConnectClientInv ==
    ASSUME TypeInv, ClientInv, NEW ch \in Channels, NEW n \in Names, Connect(ch, n)
    PROVE  ClientInv'
<1> USE DEF TypeInv, TypeOK
<1>1. /\ conn' = [conn EXCEPT ![ch] = "connected"]
      /\ peer' = [peer EXCEPT ![ch] = n]
      /\ conn[ch] = "closed"
      /\ \A k \in Names : m_clients_by_name[k].client_channel_id # ch
  BY Zenon DEF Connect, Fresh, ChannelOf
<1>2. CASE UNCHANGED clients
  BY <1>1, <1>2 DEF clients, ClientInv, RecordsFilled, OnlineIsConnected,
     ClientsDistinct, ReadyOnRecord, Known, Online, ChannelOf, Open, Ready
<1>3. ASSUME NEW id \in Nat,
             ChannelOf(n) \notin Open,
             \A k \in Names \ {n} : m_clients_by_name'[k] = m_clients_by_name[k],
             m_clients_by_name'[n].client_id = id,
             m_clients_by_name'[n].client_channel_id = ch,
             m_clients_by_name'[n].client_status = "ONLINE",
             id < m_next_client_id',
             m_next_client_id' >= m_next_client_id, m_next_client_id' \in Nat,
             \A k \in Names \ {n} :
                Known(k) => m_clients_by_name[k].client_id # id
      PROVE  ClientInv'
  <2>1. RecordsFilled'
    BY <1>3 DEF ClientInv, RecordsFilled, Known, ChannelOf, local_client
  <2>2. OnlineIsConnected'
    BY <1>1, <1>3 DEF ClientInv, OnlineIsConnected, Known, Online, ChannelOf, Open
  <2>3. ClientsDistinct'
    BY <1>1, <1>3 DEF ClientInv, ClientsDistinct, Known, ChannelOf
  <2>4. ReadyOnRecord'
    BY <1>1, <1>3, SMTT(30) DEF ClientInv, ReadyOnRecord, ChannelOf, Ready, Open, PeerKnown
  <2> QED BY <2>1, <2>2, <2>3, <2>4, Zenon DEF ClientInv
<1>4. CASE Known(n) /\ ChannelOf(n) \notin Open
  <2> DEFINE id == m_clients_by_name[n].client_id
  <2>1. /\ m_clients_by_name' =
             [m_clients_by_name EXCEPT ![n].client_channel_id = ch,
                                       ![n].client_status = "ONLINE"]
        /\ UNCHANGED m_next_client_id
    BY <1>4, Zenon DEF Connect, add_client
  <2>2. /\ m_clients_by_name'[n].client_id = id
        /\ m_clients_by_name'[n].client_channel_id = ch
        /\ m_clients_by_name'[n].client_status = "ONLINE"
        /\ \A k \in Names \ {n} : m_clients_by_name'[k] = m_clients_by_name[k]
    BY <2>1 DEF local_client
  <2>3. id \in Nat /\ id < m_next_client_id
    BY <1>4, Zenon DEF local_client, ClientInv, RecordsFilled
  <2>4. \A k \in Names \ {n} : Known(k) => m_clients_by_name[k].client_id # id
    BY <1>4, Zenon DEF ClientInv, ClientsDistinct
  <2>5. m_next_client_id' >= m_next_client_id /\ m_next_client_id' \in Nat
    BY <2>1
  <2> HIDE DEF id
  <2>6. id < m_next_client_id'
    BY <2>1, <2>3, Zenon
  <2> QED BY <1>3, <1>4, <2>2, <2>3, <2>4, <2>5, <2>6, Zenon
<1>5. CASE ~Known(n)
  <2> DEFINE id == m_next_client_id
  <2>1. /\ m_clients_by_name' = [m_clients_by_name EXCEPT ![n] =
             [client_id |-> m_next_client_id, client_channel_id |-> ch,
              client_status |-> "ONLINE"]]
        /\ m_next_client_id' = m_next_client_id + 1
    BY <1>5, Zenon DEF Connect, add_client
  <2>2. /\ m_clients_by_name'[n].client_id = id
        /\ m_clients_by_name'[n].client_channel_id = ch
        /\ m_clients_by_name'[n].client_status = "ONLINE"
        /\ \A k \in Names \ {n} : m_clients_by_name'[k] = m_clients_by_name[k]
    BY <2>1, Zenon
  <2>3. ChannelOf(n) \notin Open
    BY <1>5, RegistryAssumption, Zenon DEF ClientInv, RecordsFilled, Open
  <2>4. \A k \in Names \ {n} : Known(k) => m_clients_by_name[k].client_id # id
    BY DEF ClientInv, RecordsFilled, local_client
  <2>5. /\ m_next_client_id' >= m_next_client_id /\ m_next_client_id' \in Nat
        /\ id \in Nat /\ id < m_next_client_id'
    BY <2>1
  <2> HIDE DEF id
  <2> QED BY <1>3, <2>2, <2>3, <2>4, <2>5, Zenon
<1> QED BY <1>2, <1>4, <1>5, Zenon DEF Connect, add_client

\* A close: the record of the channel, if there is one, goes OFFLINE with it.
LEMMA DisconnectClientInv ==
    ASSUME TypeInv, ClientInv, NEW ch \in Channels, Disconnect(ch)
    PROVE  ClientInv'
<1> USE DEF TypeInv, TypeOK
<1>1. /\ ch \in Open
      /\ conn' = [conn EXCEPT ![ch] = "closed"]
      /\ peer' = [peer EXCEPT ![ch] = None]
      /\ m_next_client_id' = m_next_client_id
  BY Zenon DEF Disconnect
<1>2. /\ \A n \in Names :
            /\ ChannelOf(n)' = ChannelOf(n)
            /\ m_clients_by_name'[n].client_id = m_clients_by_name[n].client_id
            /\ Known(n)' = Known(n)
            /\ Online(n)' = (Online(n) /\ ChannelOf(n) # ch)
  <2>1. CASE \E n \in Names : ChannelOf(n) = ch /\ remove_client(ch, n)
    <3>1. PICK n \in Names : ChannelOf(n) = ch /\ remove_client(ch, n)
      BY <2>1, Zenon
    <3>2. /\ m_clients_by_name'[n].client_id = m_clients_by_name[n].client_id
          /\ m_clients_by_name'[n].client_channel_id = ch
          /\ m_clients_by_name'[n].client_status = "OFFLINE"
          /\ \A k \in Names \ {n} : m_clients_by_name'[k] = m_clients_by_name[k]
      BY <3>1 DEF remove_client, local_client, ChannelOf
    <3>3. Known(n)
      BY <3>1, RegistryAssumption, Zenon DEF ClientInv, RecordsFilled
    <3>4. \A k \in Names \ {n} : Known(k) => ChannelOf(k) # ch
      BY <3>1, <3>3, Zenon DEF ClientInv, ClientsDistinct
    <3>5. \A k \in Names \ {n} : ChannelOf(k) # ch
      BY <3>4, RegistryAssumption, Zenon DEF ClientInv, RecordsFilled
    <3> QED BY <3>1, <3>2, <3>3, <3>5, Zenon DEF Known, Online, ChannelOf
  <2>2. CASE /\ \A n \in Names : ChannelOf(n) # ch
             /\ UNCHANGED m_clients_by_name
    BY <2>2, Zenon DEF Known, Online, ChannelOf
  <2> QED BY <2>1, <2>2, Zenon DEF Disconnect
<1>3. Open' = Open \ {ch} /\ Ready' = Ready \ {ch}
  BY <1>1, Zenon DEF Open, Ready
<1>4. RecordsFilled'
  BY <1>1, <1>2, Zenon DEF ClientInv, RecordsFilled
<1>5. OnlineIsConnected'
  BY <1>2, <1>3, Zenon DEF ClientInv, OnlineIsConnected
<1>6. ClientsDistinct'
  <2> SUFFICES ASSUME NEW a \in Names, NEW b \in Names, Known(a)', Known(b)', a # b
               PROVE  /\ m_clients_by_name'[a].client_id # m_clients_by_name'[b].client_id
                      /\ ChannelOf(a)' # ChannelOf(b)'
    BY Zenon DEF ClientsDistinct
  <2> HIDE DEF TypeInv, TypeOK
  <2>1. Known(a) /\ Known(b)
    BY <1>2, Zenon
  <2>2. /\ m_clients_by_name[a].client_id # m_clients_by_name[b].client_id
        /\ ChannelOf(a) # ChannelOf(b)
    BY <2>1, Zenon DEF ClientInv, ClientsDistinct
  <2> QED BY <1>2, <2>2, Zenon
<1>7. ReadyOnRecord'
  <2>1. \A c \in Ready' : peer'[c] = peer[c] /\ peer[c] \in Names /\ c \in Ready
    BY <1>1, <1>3, Zenon DEF PeerKnown, Open, Ready
  <2> QED BY <1>2, <2>1, Zenon DEF ClientInv, ReadyOnRecord
<1> QED BY <1>4, <1>5, <1>6, <1>7, Zenon DEF ClientInv

\* register_client changes no record.
LEMMA RegisterClientClientInv ==
    ASSUME TypeInv, ClientInv, NEW ch \in Channels, RegisterClient(ch)
    PROVE  ClientInv'
BY DEF TypeInv, TypeOK, RegisterClient, clients, ClientInv, RecordsFilled,
       OnlineIsConnected, ClientsDistinct, ReadyOnRecord, Known, Online,
       ChannelOf, Open, Ready

\* Every handler keeps the records right.
LEMMA NextClientInv == TypeInv /\ ClientInv /\ [Next]_vars => ClientInv'
<1> SUFFICES ASSUME TypeInv, ClientInv, [Next]_vars PROVE ClientInv'
  OBVIOUS
<1>1. CASE UNCHANGED <<conn, peer, clients>>
  BY <1>1, Zenon DEF clients, ClientInv, RecordsFilled, OnlineIsConnected,
     ClientsDistinct, ReadyOnRecord, Known, Online, ChannelOf, Open, Ready
<1> QED BY <1>1, ClientSteps, ConnectClientInv, DisconnectClientInv,
           RegisterClientClientInv, Zenon

\* Both invariants, kept together: the next sections build on them.
THEOREM TypeAndClients == Spec => [](TypeInv /\ ClientInv)
<1>1. Init => TypeInv /\ ClientInv
  BY InitType, InitClientInv, Zenon DEF Init, TypeInv, PeerKnown, ItemsLive, Open
<1>2. TypeInv /\ ClientInv /\ [Next]_vars => TypeInv' /\ ClientInv'
  BY NextType, NextPeerKnown, NextItemsLive, NextClientInv, Zenon DEF TypeInv
<1> QED BY <1>1, <1>2, PTL DEF Spec

\* An ONLINE record has its channel in the server's map, and the other way
\* round: no handler is handed a null channel for a client it thinks ONLINE.
THEOREM OnlineIsConnectedThm == Spec => []OnlineIsConnected
BY TypeAndClients, PTL DEF ClientInv

\* Ids and channels are never shared, so the first match of remove_client and
\* get_client is the only one.
THEOREM ClientsDistinctThm == Spec => []ClientsDistinct
BY TypeAndClients, PTL DEF ClientInv

\* However connections, closes and register_client messages of processes of one
\* name interleave, at most one of them is past ipc_hv_soa_init.
THEOREM OneRunningInstanceThm == Spec => []OneRunningInstance
<1>1. TypeInv /\ ClientInv => OneRunningInstance
  <2> SUFFICES ASSUME TypeInv, ClientInv PROVE OneRunningInstance
    OBVIOUS
  <2>1. \A ch \in Ready : ch \in Open /\ peer[ch] \in Names
    BY Zenon DEF TypeInv, PeerKnown, Ready, Open
  <2>2. \A ch \in Ready : ChannelOf(peer[ch]) = ch
    BY Zenon DEF ClientInv, ReadyOnRecord
  <2>3. \A ch \in Ready : Known(peer[ch])
    BY <2>1, <2>2, RegistryAssumption, Zenon DEF ClientInv, RecordsFilled, Ready
  <2> QED BY <2>1, <2>2, <2>3, Zenon DEF ClientInv, OnlineIsConnected, OneRunningInstance
<1> QED BY <1>1, TypeAndClients, PTL

\* A client keeps its id, and is never forgotten, whatever the daemon does.
THEOREM ClientIdIsStableThm == Spec => ClientIdIsStable
<1> DEFINE Stable ==
      \A n \in Names : Known(n) =>
         /\ Known(n)'
         /\ m_clients_by_name'[n].client_id = m_clients_by_name[n].client_id
<1>1. TypeInv /\ [Next]_vars => Stable
  <2> SUFFICES ASSUME TypeInv, [Next]_vars PROVE Stable
    OBVIOUS
  <2> USE DEF TypeInv, TypeOK, Known, local_client
  <2>1. ASSUME NEW ch \in Channels, NEW n \in Names, Connect(ch, n) PROVE Stable
    <3>1. CASE UNCHANGED clients
      BY <3>1, Zenon DEF clients
    <3>2. CASE Known(n) /\ m_clients_by_name' =
                 [m_clients_by_name EXCEPT ![n].client_channel_id = ch,
                                           ![n].client_status = "ONLINE"]
      BY <3>2
    <3>3. CASE ~Known(n) /\ m_clients_by_name' =
                 [m_clients_by_name EXCEPT ![n] =
                    [client_id |-> m_next_client_id, client_channel_id |-> ch,
                     client_status |-> "ONLINE"]]
      BY <3>3, Zenon
    <3> QED BY <2>1, <3>1, <3>2, <3>3, Zenon DEF Connect, add_client
  <2>2. ASSUME NEW ch \in Channels, Disconnect(ch) PROVE Stable
    <3>1. ASSUME NEW n \in Names, remove_client(ch, n) PROVE Stable
      <4>1. m_clients_by_name' =
              [m_clients_by_name EXCEPT ![n].client_status = "OFFLINE"]
        BY <3>1, Zenon DEF remove_client
      <4> QED BY <4>1
    <3>2. CASE UNCHANGED m_clients_by_name
      BY <3>2, Zenon
    <3> QED BY <2>2, <3>1, <3>2, Zenon DEF Disconnect
  <2>3. ASSUME NEW ch \in Channels, RegisterClient(ch) PROVE Stable
    BY <2>3, Zenon DEF RegisterClient, clients
  <2>4. CASE UNCHANGED <<conn, peer, clients>>
    BY <2>4, Zenon DEF clients
  <2> QED BY <2>1, <2>2, <2>3, <2>4, ClientSteps, Zenon
<1>2. Stable => [Stable]_vars
  OBVIOUS
<1> QED BY <1>1, <1>2, TypeAndClients, PTL DEF Spec, ClientIdIsStable

-----------------------------------------------------------------------------
(***************************************************************************)
(* Services with one provider.  A second client that offers the same       *)
(* service id leaves the item in the first one's produce map, and the two  *)
(* invariants below say nothing of the service from there on; as long as   *)
(* one client acts as provider they hold however often it registers,       *)
(* unregisters, dies and comes back.                                       *)
(***************************************************************************)

\* A produce map only holds services the client has offered, and the current
\* item of a service that nobody else has.
ProduceOwned ==
    \A n \in Names, s \in Services : produce_services[n][s] # None =>
       /\ n \in offered[s]
       /\ SoleProvider(s) => produce_services[n][s] = m_services[s]

\* The provider of a registered item has offered the service, and has the item
\* in its produce map if nobody else has.
ProviderOwns ==
    \A s \in Services : m_services[s] # None =>
       LET n == items[m_services[s]].service_provider
       IN n # None =>
            /\ n \in offered[s]
            /\ SoleProvider(s) => produce_services[n][s] = m_services[s]

\* No two services share an item.
ItemsDistinct ==
    \A s, t \in Services : m_services[s] # None /\ m_services[s] = m_services[t] => s = t

ServiceInv ==
    ProduceOwned /\ ProviderOwns /\ ItemsDistinct /\ AvailableHasLiveProvider

\* At the start nothing is registered.
LEMMA InitServiceInv == Init => ServiceInv
BY DEF Init, ServiceInv, ProduceOwned, ProviderOwns, ItemsDistinct,
       AvailableHasLiveProvider, SoleProvider

\* A provider is alone with a service after its own step only if it was before.
LEMMA StillSole ==
    ASSUME TypeInv, NEW n \in Names, NEW s \in Services, ActsAsProvider(n, s)
    PROVE  /\ n \in offered'[s]
           /\ \A t \in Services : offered[t] \subseteq offered'[t]
           /\ \A t \in Services : SoleProvider(t)' => SoleProvider(t)
           /\ SoleProvider(s)' => \A k \in offered[s] : k = n
<1>1. /\ offered'[s] = offered[s] \cup {n}
      /\ \A t \in Services \ {s} : offered'[t] = offered[t]
  BY Zenon DEF TypeInv, TypeOK, ActsAsProvider
<1> QED BY <1>1, Zenon DEF SoleProvider

\* A client that is ready is ONLINE, under the name of its channel.
LEMMA ReadyIsOnline ==
    ASSUME TypeInv, ClientInv, NEW ch \in Ready
    PROVE  ch \in Channels /\ peer[ch] \in Names /\ Online(peer[ch])
<1>1. ch \in Channels /\ ch \in Open /\ peer[ch] \in Names
  BY Zenon DEF TypeInv, PeerKnown, Ready, Open
<1>2. ChannelOf(peer[ch]) = ch
  BY Zenon DEF ClientInv, ReadyOnRecord
<1> QED BY <1>1, <1>2, RegistryAssumption, Zenon
           DEF ClientInv, RecordsFilled, OnlineIsConnected

\* The item a handler works on is the service's own or belongs to no service.
LEMMA ItemForOthers ==
    ASSUME TypeInv, ServiceInv, NEW s \in Services, NEW i \in Items, ItemFor(s, i)
    PROVE  \A t \in Services \ {s} : m_services[t] # i
<1>1. CASE m_services[s] # None
  BY <1>1, Zenon DEF ServiceInv, ItemsDistinct, ItemFor
<1>2. CASE m_services[s] = None
  <2>1. items[i].service_status = "FREE"
    BY <1>2 DEF ItemFor, NoItem
  <2>2. \A t \in Services : m_services[t] = i =>
           items[i].service_status \in {"DEFAULT", "AVAILABLE", "UNAVAILABLE"}
    BY RegistryAssumption, Zenon DEF TypeInv, ItemsLive, ServiceStatus
  <2> QED BY <2>1, <2>2, Zenon
<1> QED BY <1>1, <1>2, Zenon

\* An accept touches no service.
LEMMA ConnectServiceInv ==
    ASSUME TypeInv, ClientInv, ServiceInv,
           NEW ch \in Channels, NEW n \in Names, Connect(ch, n)
    PROVE  ServiceInv'
<1> USE DEF TypeInv, TypeOK
<1>1. UNCHANGED services
  BY Zenon DEF Connect
<1>2. \A k \in Names : Online(k) => Online(k)'
  <2>1. CASE UNCHANGED clients
    BY <2>1, Zenon DEF clients, Online
  <2>2. CASE m_clients_by_name' =
               [m_clients_by_name EXCEPT ![n].client_channel_id = ch,
                                         ![n].client_status = "ONLINE"]
    BY <2>2 DEF Online, local_client
  <2>3. CASE m_clients_by_name' = [m_clients_by_name EXCEPT ![n] =
               [client_id |-> m_next_client_id, client_channel_id |-> ch,
                client_status |-> "ONLINE"]]
    BY <2>3, Zenon DEF Online
  <2> QED BY <2>1, <2>2, <2>3, Zenon DEF Connect, add_client
<1>3. AvailableHasLiveProvider'
  BY <1>1, <1>2, Zenon DEF services, ServiceInv, AvailableHasLiveProvider, SoleProvider,
     local_service_item
<1> QED BY <1>1, <1>3 DEF services, ServiceInv, ProduceOwned, ProviderOwns,
           ItemsDistinct, SoleProvider

\* A disconnect of a provider reaches the items that it provides.
LEMMA DisconnectServiceInv ==
    ASSUME TypeInv, ClientInv, ServiceInv, NEW ch \in Channels, Disconnect(ch)
    PROVE  ServiceInv'
<1> USE DEF TypeInv, TypeOK
<1>1. UNCHANGED <<m_services, produce_services, offered>>
  BY Zenon DEF Disconnect
<1>2. CASE UNCHANGED <<m_clients_by_name, items>>
  BY <1>1, <1>2 DEF ServiceInv, ProduceOwned, ProviderOwns, ItemsDistinct,
     AvailableHasLiveProvider, SoleProvider, Online
<1>3. ASSUME NEW n \in Names, remove_client(ch, n)
      PROVE  ServiceInv'
  <2>1. /\ m_clients_by_name' =
             [m_clients_by_name EXCEPT ![n].client_status = "OFFLINE"]
        /\ items' = [i \in Items |->
                        IF \E s \in Services : produce_services[n][s] = i
                        THEN [items[i] EXCEPT !.service_status = "DEFAULT"]
                        ELSE items[i]]
    BY <1>3, Zenon DEF remove_client
  <2>2. \A i \in Items : items'[i].service_provider = items[i].service_provider
    BY <2>1 DEF local_service_item
  <2>3. \A k \in Names \ {n} : Online(k)' = Online(k)
    BY <2>1, Zenon DEF Online
  <2>4. \A s \in Services : produce_services[n][s] # None =>
           items'[produce_services[n][s]].service_status = "DEFAULT"
    BY <2>1 DEF local_service_item
  <2>5. \A i \in Items : items'[i].service_status # "DEFAULT" =>
           items'[i].service_status = items[i].service_status
    BY <2>1 DEF local_service_item
  <2>6. ProviderOwns'
    BY <1>1, <2>2 DEF ServiceInv, ProviderOwns, SoleProvider
  <2>7. AvailableHasLiveProvider'
    <3> SUFFICES ASSUME NEW s \in Services, m_services[s] # None, SoleProvider(s),
                        items'[m_services[s]].service_status = "AVAILABLE",
                        items'[m_services[s]].service_provider # None
                 PROVE  m_clients_by_name'[items'[m_services[s]].service_provider]
                            .client_status = "ONLINE"
      BY <1>1, Zenon DEF AvailableHasLiveProvider, SoleProvider, Online
    <3> DEFINE i == m_services[s]
               k == items[i].service_provider
    <3>1. /\ i \in Items
          /\ items'[i].service_provider = k
          /\ items[i].service_status = "AVAILABLE"
          /\ k \in Names
      BY <2>2, <2>5, Zenon DEF local_service_item
    <3>2. k \in Names /\ produce_services[k][s] = i /\ Online(k)
      BY <3>1, Zenon DEF ServiceInv, ProviderOwns, AvailableHasLiveProvider
    <3>3. k # n
      BY <2>4, <3>2, Zenon
    <3> QED BY <2>3, <3>1, <3>2, <3>3 DEF Online
  <2> QED BY <1>1, <2>6, <2>7 DEF ServiceInv, ProduceOwned, ItemsDistinct, SoleProvider
<1> QED BY <1>2, <1>3, Zenon DEF Disconnect

\* A registration puts its item into both maps.
LEMMA RegisterServiceInv ==
    ASSUME TypeInv, ClientInv, ServiceInv,
           NEW ch \in Channels, NEW s \in Services, RegisterService(ch, s)
    PROVE  ServiceInv'
<1> DEFINE n == peer[ch]
<1> USE DEF TypeInv, TypeOK
<1>1. /\ n \in Names /\ Online(n)
      /\ m_clients_by_name' = m_clients_by_name
  BY ReadyIsOnline, Zenon DEF RegisterService, clients
<1>0. /\ n \in offered'[s]
      /\ \A t \in Services : offered[t] \subseteq offered'[t]
      /\ \A t \in Services : SoleProvider(t)' => SoleProvider(t)
      /\ SoleProvider(s)' => \A k \in offered[s] : k = n
  BY <1>1, StillSole, Zenon DEF RegisterService
<1>2. PICK i \in Items :
        /\ ItemFor(s, i)
        /\ m_services' = [m_services EXCEPT ![s] = i]
        /\ items' = [items EXCEPT ![i] = RegisteredItem(@, n)]
        /\ produce_services' = [produce_services EXCEPT ![n][s] =
                                   IF @ = None THEN i ELSE @]
  BY Zenon DEF RegisterService
<1> HIDE DEF n
<1>3. \A t \in Services \ {s} : m_services[t] # i
  BY <1>2, ItemForOthers, Zenon
<1>4. /\ items'[i].service_provider = n
      /\ \A j \in Items \ {i} : items'[j] = items[j]
      /\ m_services'[s] = i
      /\ \A t \in Services \ {s} : m_services'[t] = m_services[t]
  BY <1>2 DEF RegisteredItem, local_service_item
<1>5. /\ SoleProvider(s) => produce_services'[n][s] = i
      /\ produce_services'[n][s] # None
      /\ \A k \in Names, t \in Services :
            k # n \/ t # s => produce_services'[k][t] = produce_services[k][t]
  <2>1. SoleProvider(s) /\ produce_services[n][s] # None => produce_services[n][s] = i
    BY <1>1, <1>2, RegistryAssumption, Zenon DEF ServiceInv, ProduceOwned, ItemFor
  <2> QED BY <1>1, <1>2, <2>1, RegistryAssumption, Zenon
<1>6. ProduceOwned'
  <2> SUFFICES ASSUME NEW k \in Names, NEW t \in Services,
                      produce_services'[k][t] # None
               PROVE  /\ k \in offered'[t]
                      /\ SoleProvider(t)' => produce_services'[k][t] = m_services'[t]
    BY Zenon DEF ProduceOwned
  <2>1. CASE k = n /\ t = s
    BY <1>0, <1>1, <1>4, <1>5, <2>1, Zenon
  <2>2. CASE t # s
    BY <1>0, <1>4, <1>5, <2>2 DEF ServiceInv, ProduceOwned
  <2>3. CASE k # n /\ t = s
    <3> HIDE DEF TypeInv, TypeOK
    <3>1. produce_services[k][s] # None
      BY <1>1, <1>5, <2>3, Zenon
    <3>2. k \in offered[s]
      BY <3>1, Zenon DEF ServiceInv, ProduceOwned
    <3> QED BY <1>0, <2>3, <3>2, Zenon
  <2> QED BY <2>1, <2>2, <2>3, Zenon
<1>7. ProviderOwns'
  <2> SUFFICES ASSUME NEW t \in Services, m_services'[t] # None,
                      items'[m_services'[t]].service_provider # None
               PROVE  LET k == items'[m_services'[t]].service_provider
                      IN /\ k \in offered'[t]
                         /\ SoleProvider(t)' => produce_services'[k][t] = m_services'[t]
    BY Zenon DEF ProviderOwns
  <2>1. CASE t = s
    BY <1>0, <1>1, <1>4, <1>5, <2>1, Zenon
  <2>2. CASE t # s
    <3>1. m_services'[t] = m_services[t] /\ m_services[t] \in Items \ {i}
      BY <1>3, <1>4, <2>2, Zenon
    <3>2. items'[m_services'[t]] = items[m_services[t]]
      BY <1>4, <3>1, Zenon
    <3> DEFINE k == items[m_services[t]].service_provider
    <3>3. /\ k \in offered[t]
          /\ SoleProvider(t) => produce_services[k][t] = m_services[t]
      BY <3>1, <3>2, Zenon DEF ServiceInv, ProviderOwns
    <3>4. k \in Names
      BY <3>3, Zenon
    <3>5. produce_services'[k][t] = produce_services[k][t]
      BY <1>5, <2>2, <3>4, Zenon
    <3> HIDE DEF k, TypeInv, TypeOK
    <3> QED BY <1>0, <3>1, <3>2, <3>3, <3>5, Zenon DEF k
  <2> QED BY <2>1, <2>2, Zenon
<1>8. ItemsDistinct'
  <2> SUFFICES ASSUME NEW t \in Services, NEW u \in Services,
                      m_services'[t] # None, m_services'[t] = m_services'[u]
               PROVE  t = u
    BY Zenon DEF ItemsDistinct
  <2> HIDE DEF TypeInv, TypeOK
  <2>1. CASE t = s \/ u = s
    BY <1>3, <1>4, <2>1, Zenon
  <2>2. CASE t # s /\ u # s
    <3>1. m_services'[t] = m_services[t] /\ m_services'[u] = m_services[u]
      BY <1>4, <2>2, Zenon
    <3> QED BY <3>1, Zenon DEF ServiceInv, ItemsDistinct
  <2> QED BY <2>1, <2>2, Zenon
<1>9. AvailableHasLiveProvider'
  <2> SUFFICES ASSUME NEW t \in Services, m_services'[t] # None, SoleProvider(t),
                      items'[m_services'[t]].service_status = "AVAILABLE",
                      items'[m_services'[t]].service_provider # None
               PROVE  m_clients_by_name'[items'[m_services'[t]].service_provider].client_status
                         = "ONLINE"
    BY <1>0, Zenon DEF AvailableHasLiveProvider, Online
  <2>1. CASE t = s
    <3>1. items'[m_services'[t]].service_provider = n
      BY <1>4, <2>1, Zenon
    <3> HIDE DEF TypeInv, TypeOK
    <3> QED BY <1>1, <3>1, Zenon DEF Online
  <2>2. CASE t # s
    <3>1. m_services'[t] = m_services[t] /\ m_services[t] \in Items \ {i}
      BY <1>3, <1>4, <2>2, Zenon
    <3>2. items'[m_services'[t]] = items[m_services[t]]
      BY <1>4, <3>1, Zenon
    <3> HIDE DEF TypeInv, TypeOK
    <3>3. Online(items[m_services[t]].service_provider)
      BY <3>1, <3>2, Zenon DEF ServiceInv, AvailableHasLiveProvider
    <3> QED BY <1>1, <3>2, <3>3, Zenon DEF Online
  <2> QED BY <2>1, <2>2, Zenon
<1> QED BY <1>6, <1>7, <1>8, <1>9, Zenon DEF ServiceInv

\* A revocation takes the item out of the produce map.
LEMMA UnregisterServiceInv ==
    ASSUME TypeInv, ClientInv, ServiceInv,
           NEW ch \in Channels, NEW s \in Services, UnregisterService(ch, s)
    PROVE  ServiceInv'
<1> DEFINE n == peer[ch]
<1> USE DEF TypeInv, TypeOK
<1>1. /\ n \in Names
      /\ m_clients_by_name' = m_clients_by_name
  BY ReadyIsOnline, Zenon DEF UnregisterService, clients
<1>0. /\ \A t \in Services : offered[t] \subseteq offered'[t]
      /\ \A t \in Services : SoleProvider(t)' => SoleProvider(t)
      /\ SoleProvider(s)' => \A k \in offered[s] : k = n
  BY <1>1, StillSole, Zenon DEF UnregisterService
<1>2. CASE UNCHANGED <<m_services, items, produce_services>>
  BY <1>0, <1>1, <1>2 DEF ServiceInv, ProduceOwned, ProviderOwns,
     ItemsDistinct, AvailableHasLiveProvider, Online
<1>3. CASE /\ m_services' = [m_services EXCEPT ![s] = None]
           /\ \/ produce_services[n][s] = None /\ UNCHANGED produce_services
              \/ produce_services' = WithoutProduct(n, s)
           /\ items' = Freed(items, m_services', produce_services')
  <2>0. /\ m_services \in [Services -> Items \cup {None}]
        /\ produce_services \in [Names -> [Services -> Items \cup {None}]]
        /\ items \in [Items -> local_service_item]
        /\ offered \in [Services -> SUBSET Names]
        /\ ProduceOwned /\ ProviderOwns /\ ItemsDistinct /\ AvailableHasLiveProvider
    BY Zenon DEF ServiceInv
  <2> HIDE DEF n, TypeInv, TypeOK
  <2>1. /\ produce_services'[n][s] = None
        /\ \A k \in Names, t \in Services :
              k # n \/ t # s => produce_services'[k][t] = produce_services[k][t]
    <3>1. CASE produce_services[n][s] = None /\ UNCHANGED produce_services
      BY <3>1, Zenon
    <3>2. CASE produce_services' = [produce_services EXCEPT ![n][s] = None]
      BY <1>1, <2>0, <3>2, Zenon
    <3> QED BY <1>3, <3>1, <3>2, Zenon DEF WithoutProduct
  <2>2. /\ m_services'[s] = None
        /\ \A t \in Services \ {s} : m_services'[t] = m_services[t]
    BY <1>3, <2>0, Zenon
  <2>3. \A t \in Services : m_services'[t] # None =>
           /\ m_services'[t] = m_services[t] /\ t # s
           /\ items'[m_services'[t]] = items[m_services[t]]
    <3> SUFFICES ASSUME NEW t \in Services, m_services'[t] # None
                 PROVE  /\ m_services'[t] = m_services[t] /\ t # s
                        /\ items'[m_services'[t]] = items[m_services[t]]
      OBVIOUS
    <3>1. t # s /\ m_services'[t] = m_services[t] /\ m_services[t] \in Items
      BY <2>0, <2>2, Zenon
    <3>2. m_services'[t] \in Referenced(m_services', produce_services')
      BY <3>1, Zenon DEF Referenced
    <3>3. Freed(items, m_services', produce_services')[m_services'[t]]
             = items[m_services'[t]]
      BY <2>0, <3>2, FreedType
    <3> QED BY <1>3, <3>1, <3>3, Zenon
  <2>4. ProduceOwned'
    <3> SUFFICES ASSUME NEW k \in Names, NEW t \in Services,
                        produce_services'[k][t] # None
                 PROVE  /\ k \in offered'[t]
                        /\ SoleProvider(t)' => produce_services'[k][t] = m_services'[t]
      BY Zenon DEF ProduceOwned
    <3>1. k # n \/ t # s
      BY <2>1, Zenon
    <3>2. produce_services'[k][t] = produce_services[k][t]
      BY <2>1, <3>1, Zenon
    <3>3. /\ k \in offered[t]
          /\ SoleProvider(t) => produce_services[k][t] = m_services[t]
      BY <2>0, <3>2, Zenon DEF ProduceOwned
    <3>4. SoleProvider(t)' => t # s
      BY <1>0, <3>1, <3>3, Zenon
    <3> QED BY <1>0, <2>2, <3>2, <3>3, <3>4, Zenon
  <2>5. ProviderOwns'
    <3> SUFFICES ASSUME NEW t \in Services, m_services'[t] # None,
                        items'[m_services'[t]].service_provider # None
                 PROVE  LET k == items'[m_services'[t]].service_provider
                        IN /\ k \in offered'[t]
                           /\ SoleProvider(t)' => produce_services'[k][t] = m_services'[t]
      BY Zenon DEF ProviderOwns
    <3> DEFINE k == items[m_services[t]].service_provider
    <3>1. /\ m_services'[t] = m_services[t] /\ t # s
          /\ items'[m_services'[t]] = items[m_services[t]]
      BY <2>3, Zenon
    <3>2. /\ k \in offered[t]
          /\ SoleProvider(t) => produce_services[k][t] = m_services[t]
      BY <2>0, <3>1, Zenon DEF ProviderOwns
    <3>3. k \in Names
      BY <2>0, <3>2, Zenon
    <3> HIDE DEF k
    <3>4. produce_services'[k][t] = produce_services[k][t]
      BY <2>1, <3>1, <3>3, Zenon
    <3> QED BY <1>0, <3>1, <3>2, <3>4, Zenon DEF k
  <2>6. ItemsDistinct'
    BY <2>0, <2>3, Zenon DEF ItemsDistinct
  <2>7. AvailableHasLiveProvider'
    BY <1>0, <1>1, <2>0, <2>3 DEF AvailableHasLiveProvider, Online
  <2> QED BY <2>4, <2>5, <2>6, <2>7, Zenon DEF ServiceInv
<1> QED BY <1>2, <1>3, Zenon DEF UnregisterService

\* A listen or cancel message leaves provider and status of an item alone.
LEMMA ListenServiceInv ==
    ASSUME TypeInv, ClientInv, ServiceInv, NEW ch \in Channels, NEW s \in Services,
           ListenService(ch, s) \/ CancelListenService(ch, s)
    PROVE  ServiceInv'
<1> USE DEF TypeInv, TypeOK
<1>1. UNCHANGED <<m_clients_by_name, produce_services, offered>>
  BY Zenon DEF ListenService, CancelListenService, clients
<1>8. \A t \in Services : SoleProvider(t)' = SoleProvider(t)
  BY <1>1, Zenon DEF SoleProvider
<1> DEFINE Listened(i, ls) ==
        /\ ItemFor(s, i)
        /\ m_services' = [m_services EXCEPT ![s] = i]
        /\ items' = [items EXCEPT ![i] =
                        [ListenedItem(s, i) EXCEPT !.service_listeners = ls]]
<1>0. PICK i \in Items : \E ls : Listened(i, ls)
  BY Zenon DEF ListenService, CancelListenService
<1>2. PICK ls : Listened(i, ls)
  BY <1>0, Zenon
<1>3. \A t \in Services \ {s} : m_services[t] # i
  BY <1>2, ItemForOthers, Zenon
<1>4. ListenedItem(s, i) \in local_service_item
  BY ListenedItemType, Zenon
<1>5. /\ items'[i].service_provider = ListenedItem(s, i).service_provider
      /\ items'[i].service_status = ListenedItem(s, i).service_status
      /\ \A j \in Items \ {i} : items'[j] = items[j]
      /\ m_services'[s] = i
      /\ \A t \in Services \ {s} : m_services'[t] = m_services[t]
  BY <1>2, <1>4, Zenon DEF local_service_item
<1>6. CASE m_services[s] # None
  <2>1. /\ m_services' = m_services
        /\ \A j \in Items : /\ items'[j].service_provider = items[j].service_provider
                            /\ items'[j].service_status = items[j].service_status
    BY <1>2, <1>5, <1>6 DEF ItemFor, ListenedItem
  <2>2. ProviderOwns'
    BY <1>1, <1>8, <2>1 DEF ServiceInv, ProviderOwns
  <2>3. AvailableHasLiveProvider'
    BY <1>1, <1>8, <2>1 DEF ServiceInv, AvailableHasLiveProvider, Online
  <2> QED BY <1>1, <1>8, <2>1, <2>2, <2>3, Zenon DEF ServiceInv, ProduceOwned, ItemsDistinct
<1>7. CASE m_services[s] = None
  <2>1. items'[i].service_provider = None
    BY <1>5, <1>7, Zenon DEF ListenedItem, NoItem
  <2>2. SoleProvider(s) => \A n \in Names : produce_services[n][s] = None
    BY <1>7, Zenon DEF ServiceInv, ProduceOwned
  <2>3. ProduceOwned'
    BY <1>1, <1>5, <1>8, <2>2, Zenon DEF ServiceInv, ProduceOwned
  <2>0. \A t \in Services \ {s} : m_services[t] # None =>
           /\ m_services'[t] = m_services[t]
           /\ items'[m_services'[t]] = items[m_services[t]]
    BY <1>3, <1>5
  <2> HIDE DEF TypeInv, TypeOK, Listened
  <2>4. ProviderOwns'
    <3> SUFFICES ASSUME NEW t \in Services, m_services'[t] # None,
                        items'[m_services'[t]].service_provider # None
                 PROVE  LET k == items'[m_services'[t]].service_provider
                        IN /\ k \in offered'[t]
                           /\ SoleProvider(t)' => produce_services'[k][t] = m_services'[t]
      BY Zenon DEF ProviderOwns
    <3>1. t \in Services \ {s} /\ m_services[t] # None
      BY <1>5, <2>1, Zenon
    <3> QED BY <1>1, <1>8, <2>0, <3>1, Zenon DEF ServiceInv, ProviderOwns
  <2>5. ItemsDistinct'
    <3> SUFFICES ASSUME NEW t \in Services, NEW u \in Services,
                        m_services'[t] # None, m_services'[t] = m_services'[u]
                 PROVE  t = u
      BY Zenon DEF ItemsDistinct
    <3>1. \A v \in Services \ {s} : m_services'[v] # i
      BY <1>3, <1>5, Zenon
    <3>2. CASE t # s /\ u # s
      BY <1>5, <3>2, Zenon DEF ServiceInv, ItemsDistinct
    <3> QED BY <1>5, <3>1, <3>2, Zenon
  <2>6. AvailableHasLiveProvider'
    <3> SUFFICES ASSUME NEW t \in Services, m_services'[t] # None, SoleProvider(t),
                        items'[m_services'[t]].service_status = "AVAILABLE",
                        items'[m_services'[t]].service_provider # None
                 PROVE  m_clients_by_name'[items'[m_services'[t]].service_provider]
                           .client_status = "ONLINE"
      BY <1>8, Zenon DEF AvailableHasLiveProvider, Online
    <3>1. t \in Services \ {s} /\ m_services[t] # None
      BY <1>5, <2>1, Zenon
    <3> QED BY <1>1, <2>0, <3>1, Zenon DEF ServiceInv, AvailableHasLiveProvider, Online
  <2> QED BY <2>3, <2>4, <2>5, <2>6, Zenon DEF ServiceInv
<1> QED BY <1>6, <1>7, Zenon

\* A status is set on the item that both maps have.
LEMMA SetStatusInv ==
    ASSUME TypeInv, ClientInv, ServiceInv, NEW ch \in Channels,
           NEW s \in Services, NEW st \in ServiceStatus, ServiceSetStatus(ch, s, st)
    PROVE  ServiceInv'
<1> DEFINE n == peer[ch]
<1> USE DEF TypeInv, TypeOK
<1>1. /\ n \in Names /\ Online(n)
      /\ UNCHANGED <<m_clients_by_name, m_services, produce_services>>
  BY ReadyIsOnline, Zenon DEF ServiceSetStatus, clients
<1>0. /\ \A t \in Services : offered[t] \subseteq offered'[t]
      /\ \A t \in Services : SoleProvider(t)' => SoleProvider(t)
      /\ SoleProvider(s)' => \A k \in offered[s] : k = n
  BY <1>1, StillSole, Zenon DEF ServiceSetStatus
<1> HIDE DEF n
<1>2. CASE UNCHANGED items
  BY <1>0, <1>1, <1>2, Zenon DEF ServiceInv, ProduceOwned, ProviderOwns, ItemsDistinct,
     AvailableHasLiveProvider, Online
<1>3. CASE StatusChanged(s, st) /\ items' = [items EXCEPT ![m_services[s]].service_status = st]
  <2>1. m_services[s] \in Items
    BY <1>3, Zenon DEF StatusChanged
  <2>2. \A j \in Items : items'[j].service_provider = items[j].service_provider
    BY <1>3, <2>1 DEF local_service_item
  <2>3. \A t \in Services \ {s} : m_services[t] # None =>
           items'[m_services[t]] = items[m_services[t]]
    BY <1>3, <2>1, Zenon DEF ServiceInv, ItemsDistinct
  <2>4. ProviderOwns'
    <3>1. \A t \in Services : m_services[t] # None => m_services[t] \in Items
      OBVIOUS
    <3> HIDE DEF TypeInv, TypeOK
    <3> QED BY <1>0, <1>1, <2>2, <3>1, Zenon DEF ServiceInv, ProviderOwns
  <2>5. SoleProvider(s)' => items[m_services[s]].service_provider \in {None, n}
    BY <1>0, <1>1, <2>1, RegistryAssumption, Zenon DEF ServiceInv, ProviderOwns
  <2>6. AvailableHasLiveProvider'
    <3>1. ASSUME NEW t \in Services, t # s, m_services[t] # None, SoleProvider(t)',
                 items'[m_services[t]].service_status = "AVAILABLE",
                 items'[m_services[t]].service_provider # None
          PROVE  m_clients_by_name[items'[m_services[t]].service_provider]
                     .client_status = "ONLINE"
      BY <1>0, <2>3, <3>1, Zenon DEF ServiceInv, AvailableHasLiveProvider, Online
    <3>2. SoleProvider(s)' /\ items'[m_services[s]].service_provider # None =>
             m_clients_by_name[items'[m_services[s]].service_provider]
                .client_status = "ONLINE"
      BY <1>1, <2>1, <2>2, <2>5, Zenon DEF Online
    <3> QED BY <1>1, <3>1, <3>2, Zenon DEF AvailableHasLiveProvider, Online
  <2> QED BY <1>0, <1>1, <2>4, <2>6, Zenon DEF ServiceInv, ProduceOwned, ItemsDistinct
<1> QED BY <1>2, <1>3, Zenon DEF ServiceSetStatus

\* Every handler keeps the two maps in step.
LEMMA NextServiceInv ==
    TypeInv /\ ClientInv /\ ServiceInv /\ [Next]_vars => ServiceInv'
<1> SUFFICES ASSUME TypeInv, ClientInv, ServiceInv, [Next]_vars
             PROVE  ServiceInv'
  OBVIOUS
<1>1. CASE UNCHANGED <<clients, services>>
  BY <1>1 DEF clients, services, ServiceInv, ProduceOwned, ProviderOwns,
     ItemsDistinct, AvailableHasLiveProvider, SoleProvider, Online
<1>2. \/ UNCHANGED <<clients, services>>
      \/ \E ch \in Channels, n \in Names : Connect(ch, n)
      \/ \E ch \in Channels : Disconnect(ch)
      \/ \E ch \in Channels, s \in Services :
            \/ RegisterService(ch, s) \/ UnregisterService(ch, s)
            \/ ListenService(ch, s) \/ CancelListenService(ch, s)
            \/ \E st \in ServiceStatus : ServiceSetStatus(ch, s, st)
  BY ZenonT(30) DEF Next, OnConnection, OnClose, OnMessage, RegisterClient, GetClient,
         GetService, clients, services, vars
<1> QED BY <1>1, <1>2, ConnectServiceInv, DisconnectServiceInv, RegisterServiceInv,
           UnregisterServiceInv, ListenServiceInv, SetStatusInv, Zenon

\* As long as one client acts as provider of a service, no reachable state of
\* the registry shows it AVAILABLE while that client is gone.
THEOREM AvailableHasLiveProviderThm == Spec => []AvailableHasLiveProvider
<1>1. Init => ServiceInv
  BY InitServiceInv, Zenon
<1>2. TypeInv /\ ClientInv /\ ServiceInv /\ [Next]_vars => ServiceInv'
  BY NextServiceInv, Zenon
<1>3. ServiceInv => AvailableHasLiveProvider
  BY Zenon DEF ServiceInv
<1> QED BY <1>1, <1>2, <1>3, TypeAndClients, PTL DEF Spec

\* As long as one client acts as provider of a service, the comment of
\* register_service holds: the produce map has the very item m_services has.
THEOREM ProducedItemIsCurrentThm == Spec => []ProducedItemIsCurrent
<1>1. Init => ServiceInv
  BY InitServiceInv, Zenon
<1>2. TypeInv /\ ClientInv /\ ServiceInv /\ [Next]_vars => ServiceInv'
  BY NextServiceInv, Zenon
<1>3. ServiceInv => ProducedItemIsCurrent
  BY Zenon DEF ServiceInv, ProviderOwns, ProducedItemIsCurrent
<1> QED BY <1>1, <1>2, <1>3, TypeAndClients, PTL DEF Spec

-----------------------------------------------------------------------------
(***************************************************************************)
(* What the handlers write.  A notice is about the item that m_services    *)
(* has, so the argument rests on services not sharing items.  ServiceInv   *)
(* says so of m_services.  A produce map may keep an item that m_services  *)
(* no longer has, when two clients offer the service; ProducedApart says   *)
(* that such an item is not freed and that no other service gets it.       *)
(***************************************************************************)
ProducedApart ==
    \A n \in Names, t \in Services : produce_services[n][t] # None =>
       /\ items[produce_services[n][t]].service_status # "FREE"
       /\ \A s \in Services : m_services[s] = produce_services[n][t] => s = t

\* A produce map has items.
LEMMA ProducedType ==
    ASSUME TypeInv, NEW n \in Names, NEW t \in Services, produce_services[n][t] # None
    PROVE  produce_services[n][t] \in Items
<1>1. produce_services \in [Names -> [Services -> Items \cup {None}]]
  BY Zenon DEF TypeInv, TypeOK
<1>2. produce_services[n] \in [Services -> Items \cup {None}]
  BY <1>1, Zenon
<1>3. produce_services[n][t] \in Items \cup {None}
  BY <1>2, Zenon
<1> QED  BY <1>3, Zenon

\* A status only leaves an item when the item is freed.
LEMMA ApartFrame ==
    ASSUME TypeInv, ProducedApart, UNCHANGED <<m_services, produce_services>>,
           \A i \in Items : items[i].service_status # "FREE"
                               => items'[i].service_status # "FREE"
    PROVE  ProducedApart'
<1>1. \A n \in Names, t \in Services :
         produce_services[n][t] # None => produce_services[n][t] \in Items
  BY ProducedType, Zenon
<1> QED  BY <1>1, Zenon DEF ProducedApart

\* The item a handler works on is in no produce map under another service.
LEMMA ItemForProduced ==
    ASSUME TypeInv, ProducedApart, NEW s \in Services, NEW i \in Items, ItemFor(s, i)
    PROVE  \A n \in Names, t \in Services \ {s} : produce_services[n][t] # i
<1>1. CASE m_services[s] # None
  BY <1>1, RegistryAssumption, Zenon DEF ProducedApart, ItemFor
<1>2. CASE m_services[s] = None
  <2>1. items[i].service_status = "FREE"
    BY <1>2 DEF ItemFor, NoItem
  <2> QED  BY <2>1, RegistryAssumption, Zenon DEF ProducedApart
<1> QED  BY <1>1, <1>2, Zenon

\* A disconnect changes no map.
LEMMA DisconnectApart ==
    ASSUME TypeInv, ProducedApart, NEW ch \in Channels, Disconnect(ch)
    PROVE  ProducedApart'
<1>1. UNCHANGED <<m_services, produce_services>>
  BY Zenon DEF Disconnect
<1>2. CASE UNCHANGED items
  BY <1>1, <1>2, ApartFrame, Zenon
<1>3. ASSUME NEW n \in Names, remove_client(ch, n)
      PROVE  ProducedApart'
  <2>1. \A i \in Items : \/ items'[i] = items[i]
                         \/ items'[i] = [items[i] EXCEPT !.service_status = "DEFAULT"]
    BY <1>3, Zenon DEF remove_client
  <2>2. \A i \in Items : items[i] \in local_service_item
    BY Zenon DEF TypeInv, TypeOK
  <2>3. \A i \in Items : [items[i] EXCEPT !.service_status = "DEFAULT"].service_status = "DEFAULT"
    BY <2>2, Zenon DEF local_service_item
  <2>4. \A i \in Items : items[i].service_status # "FREE" => items'[i].service_status # "FREE"
    BY <2>1, <2>3, Zenon
  <2> QED  BY <1>1, <2>4, ApartFrame, Zenon
<1> QED  BY <1>2, <1>3, Zenon DEF Disconnect

\* A registration uses the item of its service, or one that is in no map.
LEMMA RegisterApart ==
    ASSUME TypeInv, ServiceInv, ProducedApart, NEW ch \in Channels, NEW s \in Services,
           RegisterService(ch, s)
    PROVE  ProducedApart'
<1> DEFINE n == peer[ch]
<1>0. n \in Names
  BY Zenon DEF TypeInv, PeerKnown, Open, Ready, RegisterService
<1>1. PICK i \in Items :
        /\ ItemFor(s, i)
        /\ m_services' = [m_services EXCEPT ![s] = i]
        /\ items' = [items EXCEPT ![i] = RegisteredItem(items[i], n)]
        /\ produce_services' = [produce_services EXCEPT ![n][s] =
                                  IF @ = None THEN i ELSE @]
  BY Zenon DEF RegisterService
<1> HIDE DEF n
<1>2. /\ items \in [Items -> local_service_item] /\ m_services \in [Services -> Items \cup {None}]
      /\ produce_services \in [Names -> [Services -> Items \cup {None}]]
  BY Zenon DEF TypeInv, TypeOK
<1>3. RegisteredItem(items[i], n).service_status = "AVAILABLE"
  BY <1>2, Zenon DEF RegisteredItem, local_service_item
<1>4. \A j \in Items : items[j].service_status # "FREE" => items'[j].service_status # "FREE"
  BY <1>1, <1>2, <1>3, Zenon
<1>5. items'[i].service_status # "FREE"
  BY <1>1, <1>2, <1>3, Zenon
<1>6. \A t \in Services : m_services'[t] = IF t = s THEN i ELSE m_services[t]
  BY <1>1, <1>2, Zenon
<1>7. ASSUME NEW k \in Names, NEW t \in Services
      PROVE  \/ produce_services'[k][t] = produce_services[k][t]
             \/ t = s /\ produce_services'[k][t] = i
  <2>1. produce_services[n] \in [Services -> Items \cup {None}]
    BY <1>0, <1>2, Zenon
  <2> DEFINE row == [produce_services[n] EXCEPT ![s] = IF @ = None THEN i ELSE @]
  <2>2. produce_services' = [produce_services EXCEPT ![n] = row]
    BY <1>1, Zenon
  <2>3. \/ row[t] = produce_services[n][t]
        \/ t = s /\ row[t] = i
    BY <2>1, Zenon
  <2> HIDE DEF row
  <2>4. produce_services'[k] = IF k = n THEN row ELSE produce_services[k]
    BY <1>0, <1>2, <2>2, Zenon
  <2> QED  BY <2>3, <2>4, Zenon
<1>8. /\ \A t \in Services \ {s} : m_services[t] # i
      /\ \A k \in Names, t \in Services \ {s} : produce_services[k][t] # i
  BY <1>1, ItemForOthers, ItemForProduced, Zenon
<1> SUFFICES ASSUME NEW k \in Names, NEW t \in Services, produce_services'[k][t] # None
             PROVE  /\ items'[produce_services'[k][t]].service_status # "FREE"
                    /\ \A u \in Services : m_services'[u] = produce_services'[k][t] => u = t
  BY Zenon DEF ProducedApart
<1>9. CASE produce_services'[k][t] = produce_services[k][t]
  <2>1. produce_services[k][t] \in Items
    BY <1>9, ProducedType, Zenon
  <2>2. /\ items[produce_services[k][t]].service_status # "FREE"
        /\ \A u \in Services : m_services[u] = produce_services[k][t] => u = t
    BY <1>9, Zenon DEF ProducedApart
  <2> QED  BY <1>4, <1>6, <1>8, <1>9, <2>1, <2>2, Zenon
<1>10. CASE t = s /\ produce_services'[k][t] = i
  BY <1>5, <1>6, <1>8, <1>10, Zenon
<1> QED  BY <1>7, <1>9, <1>10, Zenon

\* What is still in a produce map is referenced, and is not freed.
LEMMA UnregisterApart ==
    ASSUME TypeInv, ProducedApart, NEW ch \in Channels, NEW s \in Services,
           UnregisterService(ch, s)
    PROVE  ProducedApart'
<1> DEFINE n == peer[ch]
<1>0. n \in Names
  BY Zenon DEF TypeInv, PeerKnown, Open, Ready, UnregisterService
<1>1. CASE UNCHANGED <<m_services, items, produce_services>>
  BY <1>1, ApartFrame, Zenon
<1>2. CASE /\ m_services' = [m_services EXCEPT ![s] = None]
           /\ items' = Freed(items, m_services', produce_services')
           /\ produce_services' \in {produce_services, WithoutProduct(n, s)}
  <2>1. /\ items \in [Items -> local_service_item] /\ m_services \in [Services -> Items \cup {None}]
        /\ produce_services \in [Names -> [Services -> Items \cup {None}]]
        /\ produce_services[n] \in [Services -> Items \cup {None}]
    BY <1>0, Zenon DEF TypeInv, TypeOK
  <2>2. \A t \in Services : m_services'[t] = IF t = s THEN None ELSE m_services[t]
    BY <1>2, <2>1, Zenon
  <2>3. ASSUME NEW k \in Names, NEW t \in Services
        PROVE  produce_services'[k][t] \in {None, produce_services[k][t]}
    <3> DEFINE row == [produce_services[n] EXCEPT ![s] = None]
    <3>1. \/ produce_services' = produce_services
          \/ produce_services' = [produce_services EXCEPT ![n] = row]
      BY <1>2, Zenon DEF WithoutProduct
    <3>2. row[t] \in {None, produce_services[n][t]}
      BY <2>1, Zenon
    <3> HIDE DEF row
    <3>3. \/ produce_services'[k] = produce_services[k]
          \/ k = n /\ produce_services'[k] = row
      BY <1>0, <2>1, <3>1, Zenon
    <3> QED  BY <3>2, <3>3, Zenon
  <2> SUFFICES ASSUME NEW k \in Names, NEW t \in Services, produce_services'[k][t] # None
               PROVE  /\ items'[produce_services'[k][t]].service_status # "FREE"
                      /\ \A u \in Services : m_services'[u] = produce_services'[k][t] => u = t
    BY Zenon DEF ProducedApart
  <2>4. produce_services'[k][t] = produce_services[k][t] /\ produce_services[k][t] \in Items
    BY <2>3, ProducedType, Zenon
  <2>5. produce_services'[k][t] \in Referenced(m_services', produce_services')
    BY <2>4, Zenon DEF Referenced
  <2>6. items'[produce_services'[k][t]] = items[produce_services[k][t]]
    <3>1. \A i \in Referenced(m_services', produce_services') :
             Freed(items, m_services', produce_services')[i] = items[i]
      BY <2>1, FreedType
    <3> QED  BY <1>2, <2>4, <2>5, <3>1, Zenon
  <2>7. /\ items[produce_services[k][t]].service_status # "FREE"
        /\ \A u \in Services : m_services[u] = produce_services[k][t] => u = t
    BY <2>4, Zenon DEF ProducedApart
  <2> QED  BY <2>2, <2>4, <2>6, <2>7, Zenon
<1> QED  BY <1>1, <1>2, Zenon DEF UnregisterService

\* What a listen or cancel message does to the item, apart from its listeners.
Listened(s, i) ==
    /\ ItemFor(s, i)
    /\ m_services' = [m_services EXCEPT ![s] = i]
    /\ \A j \in Items \ {i} : items'[j] = items[j]
    /\ items'[i].service_status = ListenedItem(s, i).service_status
    /\ items'[i].service_provider = ListenedItem(s, i).service_provider

\* What a listen or its cancellation does to the maps and the items.
LEMMA ListenFacts ==
    ASSUME TypeInv, NEW ch \in Channels, NEW s \in Services,
           ListenService(ch, s) \/ CancelListenService(ch, s)
    PROVE  /\ UNCHANGED <<conn, peer, clients, produce_services, offered>>
           /\ \E i \in Items : Listened(s, i)
<1>1. PICK i \in Items : \E ls :
        /\ ItemFor(s, i)
        /\ m_services' = [m_services EXCEPT ![s] = i]
        /\ items' = [items EXCEPT ![i] =
                        [ListenedItem(s, i) EXCEPT !.service_listeners = ls]]
  BY Zenon DEF ListenService, CancelListenService
<1>2. PICK ls : items' = [items EXCEPT ![i] =
                             [ListenedItem(s, i) EXCEPT !.service_listeners = ls]]
  BY <1>1, Zenon
<1>3. items \in [Items -> local_service_item] /\ ListenedItem(s, i) \in local_service_item
  BY ListenedItemType, Zenon DEF TypeInv, TypeOK
<1> DEFINE new == [ListenedItem(s, i) EXCEPT !.service_listeners = ls]
<1>4. /\ new.service_status = ListenedItem(s, i).service_status
      /\ new.service_provider = ListenedItem(s, i).service_provider
  BY <1>3, Zenon DEF local_service_item
<1> HIDE DEF new
<1>5. items' = [items EXCEPT ![i] = new]
  BY <1>2, Zenon DEF new
<1>6. items'[i] = new /\ \A j \in Items \ {i} : items'[j] = items[j]
  BY <1>3, <1>5, Zenon
<1>7. Listened(s, i)
  BY <1>1, <1>4, <1>6, Zenon DEF Listened
<1>8. UNCHANGED <<conn, peer, clients, produce_services, offered>>
  BY Zenon DEF ListenService, CancelListenService
<1> QED  BY <1>7, <1>8, Zenon

\* A listen may add an item, one that is in no map.
LEMMA ListenApart ==
    ASSUME TypeInv, ServiceInv, ProducedApart, NEW ch \in Channels, NEW s \in Services,
           ListenService(ch, s) \/ CancelListenService(ch, s)
    PROVE  ProducedApart'
<1>1. PICK i \in Items : Listened(s, i)
  BY ListenFacts, Zenon
<1>2. UNCHANGED produce_services
  BY ListenFacts, Zenon
<1>3. m_services \in [Services -> Items \cup {None}]
  BY Zenon DEF TypeInv, TypeOK
<1>4. \A t \in Services : m_services'[t] = IF t = s THEN i ELSE m_services[t]
  BY <1>1, <1>3, Zenon DEF Listened
<1>5. /\ \A t \in Services \ {s} : m_services[t] # i
      /\ \A k \in Names, t \in Services \ {s} : produce_services[k][t] # i
  BY <1>1, ItemForOthers, ItemForProduced, Zenon DEF Listened
<1>6. ListenedItem(s, i).service_status # "FREE"
  <2>1. CASE m_services[s] = None
    BY <2>1, Zenon DEF ListenedItem, NoItem
  <2>2. CASE m_services[s] # None
    <3>1. i = m_services[s] /\ ListenedItem(s, i) = items[i]
      BY <1>1, <2>2, Zenon DEF Listened, ListenedItem, ItemFor
    <3>2. items[m_services[s]].service_status \in ServiceStatus
      BY <2>2, Zenon DEF TypeInv, ItemsLive
    <3> QED  BY <3>1, <3>2, Zenon DEF ServiceStatus
  <2> QED  BY <2>1, <2>2, Zenon
<1>7. \A j \in Items : items[j].service_status # "FREE" => items'[j].service_status # "FREE"
  BY <1>1, <1>6, Zenon DEF Listened
<1> SUFFICES ASSUME NEW k \in Names, NEW t \in Services, produce_services[k][t] # None
             PROVE  /\ items'[produce_services[k][t]].service_status # "FREE"
                    /\ \A u \in Services : m_services'[u] = produce_services[k][t] => u = t
  BY <1>2, Zenon DEF ProducedApart
<1>8. /\ produce_services[k][t] \in Items /\ items[produce_services[k][t]].service_status # "FREE"
      /\ \A u \in Services : m_services[u] = produce_services[k][t] => u = t
  BY ProducedType, Zenon DEF ProducedApart
<1> QED  BY <1>4, <1>5, <1>7, <1>8, Zenon

\* No handler makes two services share an item of the maps.
LEMMA NextApart == TypeInv /\ ServiceInv /\ ProducedApart /\ [Next]_vars => ProducedApart'
<1> SUFFICES ASSUME TypeInv, ServiceInv, ProducedApart, [Next]_vars
             PROVE  ProducedApart'
  OBVIOUS
<1>1. CASE UNCHANGED <<m_services, items, produce_services>>
  BY <1>1, ApartFrame, Zenon
<1>2. ASSUME NEW ch \in Channels, NEW s \in Services, NEW st \in ServiceStatus,
             ServiceSetStatus(ch, s, st)
      PROVE  ProducedApart'
  <2>1. UNCHANGED <<m_services, produce_services>>
    BY <1>2, Zenon DEF ServiceSetStatus
  <2>2. CASE UNCHANGED items
    BY <2>1, <2>2, ApartFrame, Zenon
  <2>3. CASE /\ StatusChanged(s, st)
             /\ items' = [items EXCEPT ![m_services[s]].service_status = st]
    <3>1. m_services[s] \in Items /\ items \in [Items -> local_service_item] /\ st # "FREE"
      BY <2>3, Zenon DEF TypeInv, TypeOK, StatusChanged, ServiceStatus
    <3>2. \A j \in Items : items[j].service_status # "FREE" => items'[j].service_status # "FREE"
      BY <2>3, <3>1 DEF local_service_item
    <3> QED  BY <2>1, <3>2, ApartFrame, Zenon
  <2> QED  BY <1>2, <2>2, <2>3, Zenon DEF ServiceSetStatus
<1>3. \/ UNCHANGED <<m_services, items, produce_services>>
      \/ \E ch \in Channels : Disconnect(ch)
      \/ \E ch \in Channels, s \in Services :
            \/ RegisterService(ch, s) \/ UnregisterService(ch, s)
            \/ ListenService(ch, s) \/ CancelListenService(ch, s)
            \/ \E st \in ServiceStatus : ServiceSetStatus(ch, s, st)
  BY ZenonT(30) DEF Next, OnConnection, OnClose, OnMessage, Connect, RegisterClient, GetClient,
     GetService, services, vars
<1> QED  BY <1>1, <1>2, <1>3, DisconnectApart, RegisterApart, UnregisterApart, ListenApart, Zenon

\* What the operators that write put on a channel.
LEMMA SilenceWritten == \A c \in Channels : Silence[c] = {}
BY Zenon DEF Silence

\* An answer writes its message and nothing else.
LEMMA ReplyWritten ==
    ASSUME NEW c \in Channels, NEW ch \in Channels, NEW m, NEW x \in Reply(ch, m)[c]
    PROVE  x = m
<1>1. Silence \in [Channels -> {{}}] /\ Silence[c] = {}
  BY Zenon DEF Silence
<1>2. Reply(ch, m)[c] = IF c = ch THEN {m} ELSE Silence[c]
  BY <1>1, Zenon DEF Reply
<1> QED  BY <1>1, <1>2, Zenon

\* So does a message to clients.
LEMMA SendWritten ==
    ASSUME NEW c \in Channels, NEW ns, NEW m, NEW x \in send_msg_to_client(ns, m)[c]
    PROVE  x = m
BY Zenon DEF send_msg_to_client

\* What two together write is written by one of them.
LEMMA BothWritten ==
    ASSUME NEW c \in Channels, NEW a, NEW b, NEW x \in Both(a, b)[c]
    PROVE  x \in a[c] \/ x \in b[c]
BY Zenon DEF Both

\* A message that tells of an AVAILABLE service.
Announces(m) == m.kind = "service_change_status" /\ m.status = "AVAILABLE"

\* The other messages announce no service.
LEMMA OtherMessages ==
    /\ \A s, ls, reg : ~Announces(listener_change_to_provider(s, ls, reg))
    /\ \A pid, id : ~Announces(register_client_resp(pid, id))
    /\ \A n : ~Announces(get_client_resp(n))
    /\ \A s, ty, st, p : ~Announces(get_service_resp(s, ty, st, p))
BY Zenon DEF Announces, listener_change_to_provider,
   register_client_resp, get_client_resp, get_service_resp

\* The item m_services has for s in the new state is AVAILABLE from p.
NowFrom(s, p) ==
    /\ m_services'[s] # None
    /\ items'[m_services'[s]].service_status = "AVAILABLE"
    /\ items'[m_services'[s]].service_provider = p

\* The name in m, sent on c, is the provider's or that of the client on c.
NamedFor(m, c) == m.client_name = m.provider \/ ChannelOf(m.client_name)' = c

\* The handlers that announce nothing.
LEMMA QuietHandlers ==
    ASSUME TypeInv, NEW ch \in Channels, NEW c \in Channels, NEW m \in sent'[c],
           \/ \E n \in Names : Connect(ch, n)
           \/ Disconnect(ch) \/ RegisterClient(ch) \/ \E id : GetClient(ch, id)
           \/ \E s \in Services : \/ UnregisterService(ch, s) \/ CancelListenService(ch, s)
                                  \/ GetService(ch, s)
    PROVE  ~Announces(m)
<1>1. CASE sent' = Silence
  BY <1>1, SilenceWritten, Zenon
<1>0. ASSUME NEW x, ~Announces(x), \/ sent' = Reply(ch, x)
                                  \/ \E ns : sent' = send_msg_to_client(ns, x)
      PROVE  ~Announces(m)
  <2>1. CASE sent' = Reply(ch, x)
    <3>1. m \in Reply(ch, x)[c]
      BY <2>1, Zenon
    <3>2. m = x
      BY <3>1, ReplyWritten, Zenon
    <3> QED  BY <1>0, <3>2, Zenon
  <2>2. ASSUME NEW ns, sent' = send_msg_to_client(ns, x)  PROVE ~Announces(m)
    <3>1. m \in send_msg_to_client(ns, x)[c]
      BY <2>2, Zenon
    <3>2. m = x
      BY <3>1, SendWritten, Zenon
    <3> QED  BY <1>0, <3>2, Zenon
  <2> QED  BY <1>0, <2>1, <2>2, Zenon
<1>2. ASSUME NEW n \in Names, remove_client(ch, n)  PROVE ~Announces(m)
  <2>1. PICK s \in Services : m = service_change_status(s, "DEFAULT", None, None)
    BY <1>2, Zenon DEF remove_client
  <2> QED  BY <2>1, Zenon DEF Announces, service_change_status
<1>3. ASSUME RegisterClient(ch) \/ \E id : GetClient(ch, id)  PROVE ~Announces(m)
  <2>1. \/ \E pid, id : sent' = Reply(ch, register_client_resp(pid, id))
        \/ \E n : sent' = Reply(ch, get_client_resp(n))
    BY <1>3, Zenon DEF RegisterClient, GetClient
  <2> QED  BY <1>0, <2>1, OtherMessages, Zenon
<1>4. ASSUME NEW s \in Services, UnregisterService(ch, s)  PROVE ~Announces(m)
  <2>1. \/ sent' = Silence
        \/ \E told : sent' = send_msg_to_client(told, service_change_status(s, "UNAVAILABLE", None, None))
    BY <1>4, Zenon DEF UnregisterService
  <2>2. ~Announces(service_change_status(s, "UNAVAILABLE", None, None))
    BY Zenon DEF Announces, service_change_status
  <2> QED  BY <1>0, <1>1, <2>1, <2>2, Zenon
<1>5. ASSUME NEW s \in Services, CancelListenService(ch, s)  PROVE ~Announces(m)
  <2>1. \/ sent' = Silence
        \/ \E ns, ls : sent' = send_msg_to_client(ns, listener_change_to_provider(s, ls, FALSE))
    BY <1>5, Zenon DEF CancelListenService
  <2> QED  BY <1>0, <1>1, <2>1, OtherMessages, Zenon
<1>6. ASSUME NEW s \in Services, GetService(ch, s)  PROVE ~Announces(m)
  <2>1. \E ns, ty, st, p : sent' = send_msg_to_client(ns, get_service_resp(s, ty, st, p))
    BY <1>6, Zenon DEF GetService
  <2> QED  BY <1>0, <2>1, OtherMessages, Zenon
<1> QED  BY <1>1, <1>2, <1>3, <1>4, <1>5, <1>6, Zenon DEF Connect, Disconnect

\* A registration announces what it has stored.
LEMMA RegisterTruthful ==
    ASSUME TypeInv, NEW ch \in Channels, NEW s \in Services, RegisterService(ch, s),
           NEW c \in Channels, NEW m \in sent'[c], Announces(m)
    PROVE  m.service = s /\ NowFrom(s, m.provider) /\ NamedFor(m, c)
<1> DEFINE n == peer[ch]
           notice(l) == service_change_status(s, "AVAILABLE", n, l)
<1>0. n \in Names
  BY Zenon DEF TypeInv, PeerKnown, Open, Ready, RegisterService
<1>1. PICK i \in Items :
        /\ m_services' = [m_services EXCEPT ![s] = i]
        /\ items' = [items EXCEPT ![i] = RegisteredItem(items[i], n)]
        /\ sent' = Both(send_msg_to_client({n},
                            listener_change_to_provider(s, items[i].service_listeners, TRUE)),
                        IF s \in Methods
                        THEN RegistrationNotices(s, n, items[i].service_listeners)
                        ELSE Silence)
        /\ UNCHANGED m_clients_by_name
  BY Zenon DEF RegisterService, clients
<1> HIDE DEF n, notice
<1>2. PICK l : m = notice(l) /\ ChannelOf(l) = c
  <2>1. \/ m \in send_msg_to_client({n},
                  listener_change_to_provider(s, items[i].service_listeners, TRUE))[c]
        \/ m \in RegistrationNotices(s, n, items[i].service_listeners)[c]
        \/ m \in Silence[c]
    <3> DEFINE a == send_msg_to_client({n},
                       listener_change_to_provider(s, items[i].service_listeners, TRUE))
               b == IF s \in Methods
                    THEN RegistrationNotices(s, n, items[i].service_listeners)
                    ELSE Silence
    <3>1. m \in Both(a, b)[c]
      BY <1>1, Zenon
    <3>2. m \in a[c] \/ m \in b[c]
      BY <3>1, BothWritten, Zenon
    <3> QED  BY <3>2, Zenon
  <2>2. m # listener_change_to_provider(s, items[i].service_listeners, TRUE)
    BY OtherMessages, Zenon
  <2>3. m \in RegistrationNotices(s, n, items[i].service_listeners)[c]
    BY <2>1, <2>2, SendWritten, SilenceWritten, Zenon
  <2> QED  BY <2>3, Zenon DEF RegistrationNotices, notice
<1>3. items \in [Items -> local_service_item] /\ m_services \in [Services -> Items \cup {None}]
  BY Zenon DEF TypeInv, TypeOK
<1>4. /\ RegisteredItem(items[i], n).service_status = "AVAILABLE"
      /\ RegisteredItem(items[i], n).service_provider = n
  BY <1>3, Zenon DEF RegisteredItem, local_service_item
<1>5. m_services'[s] = i /\ items'[i] = RegisteredItem(items[i], n) /\ i # None
  BY <1>1, <1>3, RegistryAssumption, Zenon
<1>6. m.service = s /\ m.provider = n /\ m.client_name = l
  BY <1>2, Zenon DEF notice, service_change_status
<1>7. NamedFor(m, c)
  BY <1>1, <1>2, <1>6, Zenon DEF NamedFor, ChannelOf
<1> QED  BY <1>4, <1>5, <1>6, <1>7, Zenon DEF NowFrom

\* A listener is told the status of the item it was added to.
LEMMA ListenTruthful ==
    ASSUME TypeInv, NEW ch \in Channels, NEW s \in Services, ListenService(ch, s),
           NEW c \in Channels, NEW m \in sent'[c], Announces(m)
    PROVE  m.service = s /\ NowFrom(s, m.provider) /\ NamedFor(m, c)
<1> DEFINE n == peer[ch]
           Told(it) == IF s \in Methods /\ it.service_status = "AVAILABLE"
                       THEN send_msg_to_client({n},
                              service_change_status(s, "AVAILABLE", it.service_provider,
                                                    it.service_provider))
                       ELSE Silence
           Heard(it) == IF it.service_provider # None
                        THEN send_msg_to_client({it.service_provider},
                               listener_change_to_provider(s, {n}, TRUE))
                        ELSE Silence
<1>1. PICK i \in Items :
        LET it == ListenedItem(s, i)
        IN /\ m_services' = [m_services EXCEPT ![s] = i]
           /\ items' = [items EXCEPT ![i] =
                  [it EXCEPT !.service_listeners = it.service_listeners \cup {n}]]
           /\ sent' = Both(Told(it), Heard(it))
  BY Zenon DEF ListenService
<1> DEFINE it == ListenedItem(s, i)
           new == [it EXCEPT !.service_listeners = it.service_listeners \cup {n}]
<1>3. /\ items \in [Items -> local_service_item] /\ m_services \in [Services -> Items \cup {None}]
      /\ it \in local_service_item
  BY ListenedItemType, Zenon DEF TypeInv, TypeOK
<1>4. new.service_status = it.service_status /\ new.service_provider = it.service_provider
  BY <1>3, Zenon DEF local_service_item
<1>5. items' = [items EXCEPT ![i] = new] /\ sent' = Both(Told(it), Heard(it))
  BY <1>1, Zenon
<1> HIDE DEF new, it
<1>2. /\ it.service_status = "AVAILABLE"
      /\ m = service_change_status(s, "AVAILABLE", it.service_provider, it.service_provider)
  <2>1. m \in Told(it)[c] \/ m \in Heard(it)[c]
    BY <1>5, BothWritten, Zenon
  <2>2. m \notin Heard(it)[c]
    <3>1. m # listener_change_to_provider(s, {n}, TRUE)
      BY OtherMessages, Zenon
    <3> QED  BY <3>1, SendWritten, SilenceWritten, Zenon
  <2> QED  BY <2>1, <2>2, SendWritten, SilenceWritten, Zenon
<1>6. m_services'[s] = i /\ items'[i] = new /\ i # None
  BY <1>1, <1>3, <1>5, RegistryAssumption, Zenon
<1>7. m.service = s /\ m.provider = it.service_provider /\ m.client_name = m.provider
  BY <1>2, Zenon DEF service_change_status
<1> QED  BY <1>2, <1>4, <1>6, <1>7, Zenon DEF NowFrom, NamedFor

\* A change of status announces the new one.
LEMMA SetStatusTruthful ==
    ASSUME TypeInv, NEW ch \in Channels, NEW s \in Services, NEW st \in ServiceStatus,
           ServiceSetStatus(ch, s, st),
           NEW c \in Channels, NEW m \in sent'[c], Announces(m)
    PROVE  m.service = s /\ NowFrom(s, m.provider) /\ NamedFor(m, c)
<1> DEFINE i == m_services[s]
           notice == service_change_status(s, st, items[i].service_provider,
                                           items[i].service_provider)
<1>0. sent' # Silence
  BY SilenceWritten, Zenon
<1>1. /\ StatusChanged(s, st) /\ m_services' = m_services
      /\ items' = [items EXCEPT ![i].service_status = st]
      /\ sent' = send_msg_to_client(items[i].service_listeners, notice)
  BY <1>0, Zenon DEF ServiceSetStatus
<1> HIDE DEF notice
<1>2. m = notice
  BY <1>1, SendWritten, Zenon
<1>3. items \in [Items -> local_service_item] /\ i \in Items /\ i # None
  BY <1>1, Zenon DEF TypeInv, TypeOK, StatusChanged
<1>4. items'[i].service_status = st /\ items'[i].service_provider = items[i].service_provider
  BY <1>1, <1>3 DEF local_service_item
<1>5. /\ m.service = s /\ m.provider = items[i].service_provider
      /\ m.client_name = m.provider /\ st = "AVAILABLE"
  BY <1>2, Zenon DEF notice, Announces, service_change_status
<1> QED  BY <1>1, <1>3, <1>4, <1>5, Zenon DEF NowFrom, NamedFor

\* No handler writes a notice that is not so.
LEMMA NextTruthful == TypeInv /\ NoticeIsTruthful /\ [Next]_vars => NoticeIsTruthful'
<1> SUFFICES ASSUME TypeInv, NoticeIsTruthful, [Next]_vars,
                    NEW c \in Channels, NEW m \in sent'[c], Announces(m)
             PROVE  NowFrom(m.service, m.provider) /\ NamedFor(m, c)
  BY Zenon DEF NoticeIsTruthful, Announces, NowFrom, NamedFor
<1>1. CASE UNCHANGED vars
  <2>1. UNCHANGED <<sent, m_services, items, m_clients_by_name>>
    BY <1>1, Zenon DEF vars
  <2> QED  BY <2>1, Zenon DEF NoticeIsTruthful, Announces, NowFrom, NamedFor, ChannelOf
<1>2. CASE Next
  <2>1. \/ \E ch \in Channels :
              \/ \E n \in Names : Connect(ch, n)
              \/ Disconnect(ch) \/ RegisterClient(ch) \/ \E id : GetClient(ch, id)
              \/ \E s \in Services : \/ UnregisterService(ch, s) \/ CancelListenService(ch, s)
                                     \/ GetService(ch, s)
        \/ \E ch \in Channels, s \in Services :
              \/ RegisterService(ch, s) \/ ListenService(ch, s)
              \/ \E st \in ServiceStatus : ServiceSetStatus(ch, s, st)
    BY <1>2, ZenonT(30) DEF Next, OnConnection, OnClose, OnMessage
  <2> QED  BY <2>1, QuietHandlers, RegisterTruthful, ListenTruthful, SetStatusTruthful, Zenon
<1> QED  BY <1>1, <1>2, Zenon

\* Whatever handler wrote it, a message that tells a listener that a service is
\* AVAILABLE says what the registry holds: no handler announces a status it then
\* does not store, or the id of the provider of another item.  The name beside the id
\* is the provider's, or the listener's own.
THEOREM NoticeIsTruthfulThm == Spec => []NoticeIsTruthful
<1>1. Init => NoticeIsTruthful
  BY SilenceWritten, Zenon DEF Init, NoticeIsTruthful
<1>2. TypeInv /\ NoticeIsTruthful /\ [Next]_vars => NoticeIsTruthful'
  BY NextTruthful, Zenon
<1> QED  BY <1>1, <1>2, TypeAndClients, PTL DEF Spec

-----------------------------------------------------------------------------
(***************************************************************************)
(* A change of status is told.                                             *)
(***************************************************************************)

\* The status of method s changes in this step, in the item it had and has.
Changes(s) ==
    /\ m_services[s] # None /\ m_services'[s] = m_services[s]
    /\ items'[m_services[s]].service_status # items[m_services[s]].service_status

\* Channel c is sent the status that the item of s has now.
IsTold(s, c) ==
    \E m \in sent'[c] : /\ m.kind = "service_change_status" /\ m.service = s
                        /\ m.status = items'[m_services[s]].service_status

\* A client that is ONLINE is reached on its channel.
LEMMA Reached ==
    ASSUME TypeInv, ClientInv, NEW ns, NEW l \in Names, l \in ns, Online(l), NEW m
    PROVE  /\ ChannelOf(l) \in Channels
           /\ m \in send_msg_to_client(ns, m)[ChannelOf(l)]
<1>1. ChannelOf(l) \in Open
  BY Zenon DEF ClientInv, OnlineIsConnected
<1>2. ChannelOf(l) \in Channels
  BY <1>1, Zenon DEF Open
<1> QED  BY <1>1, <1>2, Zenon DEF send_msg_to_client

\* The listeners of an item are clients.
LEMMA ListenersType ==
    ASSUME TypeInv, NEW i \in Items
    PROVE  items[i] \in local_service_item /\ items[i].service_listeners \subseteq Names
<1>1. items[i] \in local_service_item
  BY Zenon DEF TypeInv, TypeOK
<1> QED  BY <1>1, Zenon DEF local_service_item

\* Setting the status of an item sets that and leaves its listeners.
LEMMA StatusSet ==
    ASSUME NEW it \in local_service_item, NEW st
    PROVE  /\ [it EXCEPT !.service_status = st].service_status = st
           /\ [it EXCEPT !.service_status = st].service_listeners = it.service_listeners
BY Zenon DEF local_service_item

\* A registration tells the listeners.
LEMMA RegisterTells ==
    ASSUME TypeInv, ClientInv, ServiceInv, NEW ch \in Channels, NEW t \in Services,
           RegisterService(ch, t), NEW s \in Services, s \in Methods, Changes(s),
           NEW l \in items'[m_services[s]].service_listeners, Online(l)'
    PROVE  IsTold(s, ChannelOf(l)')
<1> DEFINE n == peer[ch]
           notice == service_change_status(t, "AVAILABLE", n, l)
<1>1. PICK i \in Items :
        /\ ItemFor(t, i)
        /\ items' = [items EXCEPT ![i] = RegisteredItem(items[i], n)]
        /\ sent' = Both(send_msg_to_client({n},
                            listener_change_to_provider(t, items[i].service_listeners, TRUE)),
                        IF t \in Methods
                        THEN RegistrationNotices(t, n, items[i].service_listeners)
                        ELSE Silence)
        /\ UNCHANGED m_clients_by_name
  BY Zenon DEF RegisterService, clients
<1>2. items \in [Items -> local_service_item] /\ m_services[s] \in Items
  BY Zenon DEF TypeInv, TypeOK, Changes
<1>3. m_services[s] = i
  BY <1>1, <1>2, Zenon DEF Changes
<1>4. t = s
  BY <1>1, <1>3, ItemForOthers, Zenon
<1>5. items'[i] = RegisteredItem(items[i], n)
  BY <1>1, <1>2, Zenon
<1>6. /\ items'[i].service_status = "AVAILABLE"
      /\ items'[i].service_listeners = items[i].service_listeners
  BY <1>2, <1>5, ZenonT(60) DEF RegisteredItem, local_service_item
<1>7. l \in items[i].service_listeners /\ l \in Names
  BY <1>3, <1>6, ListenersType, Zenon
<1>8. Online(l) /\ ChannelOf(l)' = ChannelOf(l)
  BY <1>1, Zenon DEF Online, ChannelOf
<1> HIDE DEF n
<1>9. /\ ChannelOf(l) \in Channels
      /\ notice \in RegistrationNotices(t, n, items[i].service_listeners)[ChannelOf(l)]
  <2>1. ChannelOf(l) \in Open /\ ChannelOf(l) \in Channels
    BY <1>7, <1>8, Zenon DEF ClientInv, OnlineIsConnected, Open
  <2> QED  BY <1>7, <1>8, <2>1, Zenon DEF RegistrationNotices
<1> HIDE DEF notice
<1>10. notice \in sent'[ChannelOf(l)]
  BY <1>1, <1>4, <1>9, Zenon DEF Both
<1>11. /\ notice.kind = "service_change_status" /\ notice.service = s
       /\ notice.status = "AVAILABLE"
  BY <1>4, Zenon DEF notice, service_change_status
<1> QED  BY <1>3, <1>6, <1>8, <1>10, <1>11, Zenon DEF IsTold

\* A change of status tells the listeners.
LEMMA SetStatusTells ==
    ASSUME TypeInv, ClientInv, ServiceInv, NEW ch \in Channels, NEW t \in Services,
           NEW st \in ServiceStatus, ServiceSetStatus(ch, t, st),
           NEW s \in Services, s \in Methods, Changes(s),
           NEW l \in items'[m_services[s]].service_listeners, Online(l)'
    PROVE  IsTold(s, ChannelOf(l)')
<1> DEFINE i == m_services[t]
           notice == service_change_status(t, st, items[i].service_provider,
                                           items[i].service_provider)
<1>0. items' # items
  BY Zenon DEF Changes
<1>1. /\ StatusChanged(t, st)
      /\ items' = [items EXCEPT ![i].service_status = st]
      /\ sent' = IF t \in Methods THEN send_msg_to_client(items[i].service_listeners, notice)
                 ELSE Silence
      /\ UNCHANGED m_clients_by_name
  BY <1>0, Zenon DEF ServiceSetStatus, clients
<1>2. items \in [Items -> local_service_item] /\ m_services[s] \in Items /\ i \in Items
  BY <1>1, Zenon DEF TypeInv, TypeOK, Changes, StatusChanged
<1>3. m_services[s] = i
  BY <1>1, <1>2, Zenon DEF Changes
<1>4. t = s
  BY <1>2, <1>3, RegistryAssumption, Zenon DEF ServiceInv, ItemsDistinct
<1>5. items'[i] = [items[i] EXCEPT !.service_status = st]
  BY <1>1, <1>2, Zenon
<1>6. /\ items'[i].service_status = st
      /\ items'[i].service_listeners = items[i].service_listeners
  <2>1. items[i] \in local_service_item
    BY <1>2, Zenon
  <2>2. LET new == [items[i] EXCEPT !.service_status = st]
        IN new.service_status = st /\ new.service_listeners = items[i].service_listeners
    BY <2>1, StatusSet
  <2> QED  BY <1>5, <2>2, Zenon
<1>7. l \in items[i].service_listeners /\ l \in Names
  BY <1>2, <1>3, <1>6, ListenersType, Zenon
<1>8. Online(l) /\ ChannelOf(l)' = ChannelOf(l)
  BY <1>1, Zenon DEF Online, ChannelOf
<1> HIDE DEF notice
<1>9. /\ ChannelOf(l) \in Channels
      /\ notice \in send_msg_to_client(items[i].service_listeners, notice)[ChannelOf(l)]
  BY <1>7, <1>8, Reached, Zenon
<1>10. notice \in sent'[ChannelOf(l)]
  BY <1>1, <1>4, <1>9, Zenon
<1>11. notice.kind = "service_change_status" /\ notice.service = s /\ notice.status = st
  BY <1>4, Zenon DEF notice, service_change_status
<1> QED  BY <1>3, <1>6, <1>8, <1>10, <1>11, Zenon DEF IsTold

\* A client that goes OFFLINE takes the item of s along only under s, and tells the
\* listeners that stay.
LEMMA DisconnectTells ==
    ASSUME TypeInv, ClientInv, ProducedApart, NEW ch \in Channels, Disconnect(ch),
           NEW s \in Services, Changes(s),
           NEW l \in items'[m_services[s]].service_listeners, Online(l)'
    PROVE  IsTold(s, ChannelOf(l)')
<1> DEFINE i == m_services[s]
<1>1. PICK n \in Names : remove_client(ch, n)
  BY Zenon DEF Disconnect, Changes
<1> DEFINE offline == [m_clients_by_name EXCEPT ![n].client_status = "OFFLINE"]
           notice == service_change_status(s, "DEFAULT", None, None)
<1>2. /\ m_clients_by_name' = offline
      /\ items' = [j \in Items |->
                      IF \E t \in Services : produce_services[n][t] = j
                      THEN [items[j] EXCEPT !.service_status = "DEFAULT"]
                      ELSE items[j]]
      /\ sent' = [c \in Channels |->
                     {service_change_status(t, "DEFAULT", None, None) :
                        t \in {u \in Services :
                                 /\ produce_services[n][u] # None
                                 /\ \E k \in items[produce_services[n][u]].service_listeners :
                                      /\ offline[k].client_status = "ONLINE"
                                      /\ offline[k].client_channel_id = c
                                      /\ c \in Open}}]
  BY <1>1, Zenon DEF remove_client
<1>3. items \in [Items -> local_service_item] /\ i \in Items /\ i # None
  BY Zenon DEF TypeInv, TypeOK, Changes
<1>4. PICK t \in Services : produce_services[n][t] = i
  BY <1>2, <1>3, Zenon DEF Changes
<1>5. t = s /\ items'[i] = [items[i] EXCEPT !.service_status = "DEFAULT"]
  BY <1>2, <1>3, <1>4, Zenon DEF ProducedApart
<1>6. /\ items'[i].service_status = "DEFAULT"
      /\ items'[i].service_listeners = items[i].service_listeners
  <2>1. items[i] \in local_service_item
    BY <1>3, Zenon
  <2>2. LET new == [items[i] EXCEPT !.service_status = "DEFAULT"]
        IN new.service_status = "DEFAULT" /\ new.service_listeners = items[i].service_listeners
    BY <2>1, StatusSet
  <2> QED  BY <1>5, <2>2, Zenon
<1>7. l \in items[i].service_listeners /\ l \in Names
  BY <1>3, <1>6, ListenersType, Zenon
<1>8. offline[l].client_status = "ONLINE" /\ ChannelOf(l)' = offline[l].client_channel_id
  BY <1>2, Zenon DEF Online, ChannelOf
<1>9. l # n /\ offline[l] = m_clients_by_name[l]
  <2>1. m_clients_by_name \in [Names -> local_client]
    BY Zenon DEF TypeInv, TypeOK
  <2>2. offline[n].client_status = "OFFLINE"
    BY <2>1 DEF local_client
  <2> QED  BY <1>7, <1>8, <2>1, <2>2, Zenon
<1>10. ChannelOf(l) \in Open /\ ChannelOf(l) \in Channels
  <2>1. Online(l)
    BY <1>8, <1>9, Zenon DEF Online
  <2>2. ChannelOf(l) \in Open
    BY <1>7, <2>1, Zenon DEF ClientInv, OnlineIsConnected
  <2> QED  BY <2>2, Zenon DEF Open
<1> HIDE DEF offline
<1>11. ChannelOf(l)' = ChannelOf(l) /\ offline[l].client_channel_id = ChannelOf(l)
  BY <1>8, <1>9, Zenon DEF ChannelOf
<1>12. notice \in sent'[ChannelOf(l)]
  BY <1>2, <1>3, <1>4, <1>5, <1>7, <1>8, <1>10, <1>11, Zenon
<1>13. notice.kind = "service_change_status" /\ notice.service = s /\ notice.status = "DEFAULT"
  BY Zenon DEF service_change_status
<1> HIDE DEF notice
<1> QED  BY <1>6, <1>11, <1>12, <1>13, Zenon DEF IsTold

\* No other handler changes the status of an item that its service keeps.
LEMMA OthersChangeNothing ==
    ASSUME TypeInv, ServiceInv, NEW ch \in Channels, NEW t \in Services,
           \/ UnregisterService(ch, t) \/ ListenService(ch, t) \/ CancelListenService(ch, t),
           NEW s \in Services
    PROVE  ~Changes(s)
<1> SUFFICES ASSUME Changes(s)  PROVE FALSE
  OBVIOUS
<1>0. items \in [Items -> local_service_item] /\ m_services[s] \in Items
  BY Zenon DEF TypeInv, TypeOK, Changes
<1>1. CASE UnregisterService(ch, t)
  <2>1. items' = Freed(items, m_services', produce_services')
    BY <1>1, Zenon DEF UnregisterService, Changes
  <2>2. m_services[s] \in Referenced(m_services', produce_services')
    BY <1>0, Zenon DEF Referenced, Changes
  <2>3. \A i \in Referenced(m_services', produce_services') :
           Freed(items, m_services', produce_services')[i] = items[i]
    BY <1>0, FreedType
  <2> QED  BY <2>1, <2>2, <2>3, Zenon DEF Changes
<1>2. CASE ListenService(ch, t) \/ CancelListenService(ch, t)
  <2>1. PICK i \in Items : Listened(t, i)
    BY <1>2, ListenFacts, Zenon
  <2>2. m_services[s] = i
    BY <1>0, <2>1, Zenon DEF Listened, Changes
  <2>3. t = s
    BY <2>1, <2>2, ItemForOthers, Zenon DEF Listened
  <2> QED  BY <2>1, <2>2, <2>3, Zenon DEF Listened, ListenedItem, Changes
<1> QED  BY <1>1, <1>2, Zenon

\* Every handler that changes a status tells the listeners.
LEMMA NextTells ==
    TypeInv /\ ClientInv /\ ServiceInv /\ ProducedApart /\ [Next]_vars =>
       \A s \in Methods : Changes(s) =>
          \A l \in items'[m_services[s]].service_listeners : Online(l)' => IsTold(s, ChannelOf(l)')
<1> SUFFICES ASSUME TypeInv, ClientInv, ServiceInv, ProducedApart, [Next]_vars,
                    NEW s \in Methods, Changes(s),
                    NEW l \in items'[m_services[s]].service_listeners, Online(l)'
             PROVE  IsTold(s, ChannelOf(l)')
  BY Zenon
<1>1. s \in Services
  BY RegistryAssumption, Zenon
<1>2. items' # items
  BY Zenon DEF Changes
<1>3. \/ \E ch \in Channels : Disconnect(ch)
      \/ \E ch \in Channels, t \in Services :
            \/ RegisterService(ch, t) \/ UnregisterService(ch, t)
            \/ ListenService(ch, t) \/ CancelListenService(ch, t)
            \/ \E st \in ServiceStatus : ServiceSetStatus(ch, t, st)
  BY <1>2, ZenonT(30) DEF Next, OnConnection, OnClose, OnMessage, Connect, RegisterClient,
     GetClient, GetService, services, vars
<1> QED  BY <1>1, <1>3, RegisterTells, SetStatusTells, DisconnectTells, OthersChangeNothing, Zenon

\* Whichever handler changes the status of a method, and however many clients offer
\* it, every listener that is ONLINE when the handler is done has been sent the new
\* status by it.
THEOREM StatusChangeIsToldThm == Spec => StatusChangeIsTold
<1>1. Init => ServiceInv /\ ProducedApart
  <2> SUFFICES ASSUME Init  PROVE ProducedApart
    BY InitServiceInv, Zenon
  <2>1. \A n \in Names : produce_services[n] = [s \in Services |-> None]
    BY Zenon DEF Init
  <2>2. \A n \in Names, s \in Services : produce_services[n][s] = None
    BY <2>1, Zenon
  <2> QED  BY <2>2, Zenon DEF ProducedApart
<1>2. TypeInv /\ ClientInv /\ ServiceInv /\ ProducedApart /\ [Next]_vars
         => (ServiceInv /\ ProducedApart)'
  BY NextServiceInv, NextApart, Zenon
<1>3. TypeInv /\ ClientInv /\ ServiceInv /\ ProducedApart /\ [Next]_vars =>
        [\A s \in Methods :
            LET i == m_services[s]
            IN i # None /\ m_services'[s] = i
               /\ items'[i].service_status # items[i].service_status
               => \A l \in items'[i].service_listeners :
                     Online(l)' =>
                        \E m \in sent'[ChannelOf(l)'] :
                           /\ m.kind = "service_change_status"
                           /\ m.service = s
                           /\ m.status = items'[i].service_status]_vars
  BY NextTells, Zenon DEF Changes, IsTold
<1> QED  BY <1>1, <1>2, <1>3, TypeAndClients, PTL DEF Spec, StatusChangeIsTold
=============================================================================
