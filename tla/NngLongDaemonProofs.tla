-------------------------- MODULE NngLongDaemonProofs --------------------------
(***************************************************************************)
(* The proxy daemon, for any processes, modules and requests.              *)
(*                                                                         *)
(* An entry of the map is in the list of the connection it refers to, and  *)
(* a callback runs on a connection that is not deleted (LiveInv), so an    *)
(* entry never outlives its connection.                                    *)
(* As long as one connection at a time claims a module, the entry, the     *)
(* lists, the callbacks and the answers to REGISTER are all of that        *)
(* connection (ClaimInv), and the processes keep to their own modules      *)
(* (OwnInv): an init that was told so is reachable.                        *)
(* A request is handed on from one place to the next and is asked once, so *)
(* it is in one place (PlaceInv).                                          *)
(***************************************************************************)
EXTENDS NngLongDaemon, FiniteSetTheorems, TLAPS

ItemType == [state : {"unused", "open", "lost", "deleted"}, list : SUBSET Modules]
CbType == [msg : Messages \cup {Idle.msg}, found : Items \cup {None}, todo : SUBSET Modules]

LiveInv ==
    /\ NoDanglingEntry
    /\ \A i \in Items : cb[i] # Idle => reg_item[i].state \in {"open", "lost"}

\* What is under way for module m on connection i.
Registers(msg, m) == msg.type = "REGISTER" /\ msg.what = m
Asks(i, m) == \E n \in 1..Len(up[i]) : Registers(up[i][n], m)
Told(i, m) == \E msg \in down[i] : Registers(msg, m)
Carries(i, m) == Asks(i, m) \/ Registers(cb[i].msg, m) \/ Told(i, m)

ClaimInv ==
    \A m \in Modules \ contested :
       /\ \A i, j \in claims[m] : i = j
       /\ g_proxy_reg_map[m] # None => g_proxy_reg_map[m] \in claims[m]
       /\ \A i \in Items :
             /\ m \in reg_item[i].list => i \in claims[m]
             /\ Registers(cb[i].msg, m) =>
                   /\ i \in claims[m]
                   /\ cb[i].found # None => g_proxy_reg_map[m] = i
             /\ Told(i, m) => g_proxy_reg_map[m] = i

OwnInv ==
    /\ \A i \in Items : /\ reg_item[i].state = "unused" => up[i] = <<>> /\ cb[i] = Idle
                                                            /\ reg_item[i] = Unused
                        /\ reg_item[i].state # "open" => down[i] = {}
    /\ \A p, q \in Processes : conn[p] = conn[q] /\ conn[p] # None => p = q
    /\ \A p \in Processes : conn[p] = None => \A m \in Hosts[p] : init[m] = "none"
    /\ \A p \in Processes, i \in Items : conn[p] = i =>
          /\ reg_item[i].state = "open"
          /\ \A m \in Modules : Carries(i, m) => m \in Hosts[p]

-----------------------------------------------------------------------------
\* The messages.
LEMMA MessageParts ==
  /\ \A m \in Modules, r \in {0, -3} : Message("REGISTER", m, r) \in Messages
  /\ \A e \in Events : /\ Request(e) \in Messages
                       /\ \A r \in {0, -2, -8} : Answer(e, r) \in Messages
<1>1. \A m \in Modules, r \in {0, -3} : Message("REGISTER", m, r) \in Messages
  BY Zenon DEF Message, Messages
<1>2. ASSUME NEW e \in Events
      PROVE  /\ Request(e) \in Messages
             /\ \A r \in {0, -2, -8} : Answer(e, r) \in Messages
  <2>1. Type[e] \in DOMAIN ReplyType /\ ReplyType[Type[e]] \in Answers
    BY DaemonAssumption DEF ReplyType, Answers
  <2> QED  BY <2>1, Zenon DEF Request, Answer, Message, Messages
<1> QED  BY <1>1, <1>2, Zenon

\* What a message is about.
LEMMA MessageWhat ==
  ASSUME NEW msg \in Messages \cup {Idle.msg}
  PROVE  /\ msg.type = "REGISTER" => msg \in Messages /\ msg.what \in Modules
         /\ msg.type \in DOMAIN ReplyType \cup Answers => msg \in Messages /\ msg.what \in Events
         /\ Requests \subseteq DOMAIN ReplyType /\ "MULT_REQ" \in DOMAIN ReplyType
<1>1. Requests \subseteq DOMAIN ReplyType /\ "MULT_REQ" \in DOMAIN ReplyType
  BY Zenon DEF Requests, ReplyType
<1>2. "REGISTER" \notin DOMAIN ReplyType \cup Answers
      /\ "NONE" \notin DOMAIN ReplyType \cup Answers
  BY Zenon DEF ReplyType, Answers
<1>3. Idle.msg.type = "NONE"
  BY Zenon DEF Idle, Message
<1> QED  BY <1>1, <1>2, <1>3, Zenon DEF Messages

\* The destination of a request is a module.
LEMMA DestModule == \A e \in Events : Dest(e) \in Modules /\ Src[e] \in Modules
                                     /\ Dests[e] \subseteq Modules
  BY DaemonAssumption DEF Dest

\* The records.
LEMMA ItemParts ==
  ASSUME NEW item \in ItemType
  PROVE  /\ \A s \in {"unused", "open", "lost", "deleted"} :
               /\ InState(item, s) \in ItemType /\ InState(item, s).state = s
               /\ InState(item, s).list = item.list
         /\ \A m \in Modules :
               /\ Listing(item, m) \in ItemType /\ Listing(item, m).state = item.state
               /\ Listing(item, m).list = item.list \cup {m}
         /\ Deleted \in ItemType /\ Deleted.state = "deleted" /\ Deleted.list = {}
         /\ Unused \in ItemType /\ Unused.state = "unused" /\ Unused.list = {}
  BY Zenon DEF InState, Listing, Deleted, Unused, ItemType

\* The callbacks.
LEMMA CbParts ==
  /\ Idle \in CbType /\ Idle.msg.type = "NONE" /\ Idle.found = None
  /\ \A k \in CbType, m \in Modules : /\ Without(k, m) \in CbType
                                      /\ Without(k, m).msg = k.msg
                                      /\ Without(k, m).found = k.found
<1>1. Idle \in CbType /\ Idle.msg.type = "NONE" /\ Idle.found = None
  BY Zenon DEF Idle, CbType, Message
<1>2. ASSUME NEW k \in CbType, NEW m \in Modules
      PROVE  Without(k, m) \in CbType /\ Without(k, m).msg = k.msg /\ Without(k, m).found = k.found
  BY Zenon DEF Without, CbType
<1> QED  BY <1>1, <1>2, Zenon

\* A message that is sent goes to one connection, if that is open, or is dropped.
LEMMA SentParts ==
  ASSUME NEW d \in [Items -> SUBSET Messages], NEW i \in Items \cup {None},
         NEW msg \in Messages
  PROVE  /\ Sent(d, i, msg) \in [Items -> SUBSET Messages]
         /\ \A j \in Items :
               /\ j # i \/ reg_item[j].state # "open" => Sent(d, i, msg)[j] = d[j]
               /\ Sent(d, i, msg)[j] \subseteq d[j] \cup {msg}
  BY Zenon DEF Sent

\* What is in the map.
LEMMA FoundItem ==
  ASSUME TypeOK, NEW msg \in Messages
  PROVE  find_proxy_reg_item(msg) \in Items \cup {None}
<1>1. \A m \in Modules : g_proxy_reg_map[m] \in Items \cup {None}
  BY Zenon DEF TypeOK
<1>2. CASE msg.type = "REGISTER"
  BY <1>1, <1>2, MessageWhat, Zenon DEF find_proxy_reg_item
<1>3. CASE msg.type # "REGISTER" /\ msg.type \in Requests
  BY <1>1, <1>3, MessageWhat, DestModule, Zenon DEF find_proxy_reg_item
<1>4. CASE msg.type # "REGISTER" /\ msg.type \notin Requests /\ msg.type \in Answers
  BY <1>1, <1>4, MessageWhat, DestModule, Zenon DEF find_proxy_reg_item
<1>5. CASE msg.type # "REGISTER" /\ msg.type \notin Requests /\ msg.type \notin Answers
  BY <1>5, Zenon DEF find_proxy_reg_item
<1> QED  BY <1>2, <1>3, <1>4, <1>5, Zenon

-----------------------------------------------------------------------------
\* The types, with the names the proofs use.
LEMMA TypeUses ==
  TypeOK => /\ reg_item \in [Items -> ItemType] /\ cb \in [Items -> CbType]
            /\ g_proxy_reg_map \in [Modules -> Items \cup {None}]
            /\ up \in [Items -> Seq(Messages)] /\ down \in [Items -> SUBSET Messages]
            /\ conn \in [Processes -> Items \cup {None}]
            /\ claims \in [Modules -> SUBSET Items] /\ contested \subseteq Modules
            /\ parked \in [Events -> Items \cup {None}]
            /\ fate \in [Events -> {"none", "asked", "handed", "answered", "lost"}]
            /\ init \in [Modules -> {"none", "waiting", "done", "failed"}]
            /\ \A i \in Items : cb[i].msg \in Messages \cup {Idle.msg}
                                /\ cb[i].found \in Items \cup {None}
                                /\ cb[i].todo \subseteq Modules
  BY Zenon DEF TypeOK, ItemType, CbType

\* What the handlers write has its type.
LEMMA SentType ==
  ASSUME TypeOK, NEW i \in Items \cup {None}, NEW msg \in Messages
  PROVE  Sent(down, i, msg) \in [Items -> SUBSET Messages]
  BY SentParts, Zenon DEF TypeOK

\* An insert keeps g_proxy_reg_map a map from modules to connections.
LEMMA InsertedType ==
  ASSUME TypeOK, NEW i \in Items, NEW m \in Modules
  PROVE  /\ g_proxy_reg_map \in [Modules -> Items \cup {None}]
         /\ Inserted(m, i) \in [Modules -> Items \cup {None}]
<1>1. g_proxy_reg_map \in [Modules -> Items \cup {None}]
  BY Zenon DEF TypeOK
<1> QED  BY <1>1, Zenon DEF Inserted

\* A module entered in a connection's list keeps the connections' type.
LEMMA ListingType ==
  ASSUME TypeOK, NEW i \in Items
  PROVE  /\ reg_item \in [Items -> ItemType]
         /\ \A item \in ItemType : [reg_item EXCEPT ![i] = item] \in [Items -> ItemType]
         /\ \A m \in Modules : [reg_item EXCEPT ![i] = Listing(@, m)] \in [Items -> ItemType]
<1>1. reg_item \in [Items -> ItemType] /\ reg_item[i] \in ItemType
  BY TypeUses, Zenon
<1> QED  BY <1>1, ItemParts, Zenon

\* What a callback writes to its own state keeps the callbacks' type.
LEMMA CbWriteType ==
  ASSUME TypeOK, NEW i \in Items
  PROVE  /\ [cb EXCEPT ![i] = Idle] \in [Items -> CbType]
         /\ \A m \in Modules : [cb EXCEPT ![i] = Without(@, m)] \in [Items -> CbType]
<1>1. cb \in [Items -> CbType] /\ cb[i] \in CbType
  BY TypeUses, Zenon
<1> QED  BY <1>1, CbParts, Zenon

\* The fate recorded for requests is one of the fates.
LEMMA FatedType ==
  ASSUME TypeOK, NEW es, NEW f \in {"none", "asked", "handed", "answered", "lost"}
  PROVE  Fated(es, f) \in [Events -> {"none", "asked", "handed", "answered", "lost"}]
  BY Zenon DEF TypeOK, Fated

\* The next message is taken off the queue.
LEMMA HeadTail ==
  ASSUME TypeOK, NEW i \in Items, up[i] # <<>>
  PROVE  Head(up[i]) \in Messages /\ Tail(up[i]) \in Seq(Messages)
  BY TypeUses

\* A message is put in the queue.
LEMMA SubmitType ==
  ASSUME TypeOK, NEW i \in Items, NEW msg \in Messages, Submit(i, msg)
  PROVE  up' \in [Items -> Seq(Messages)]
<1>1. Append(up[i], msg) \in Seq(Messages)
  BY TypeUses
<1> QED  BY <1>1, TypeUses, Zenon DEF Submit

\* The first half of a callback.
LEMMA TypeRecv ==
  ASSUME TypeOK, NEW i \in Items, PairRecv(i)
  PROVE  TypeOK'
<1> DEFINE msg == Head(up[i])
<1>1. up[i] # <<>> /\ msg \in Messages /\ Tail(up[i]) \in Seq(Messages)
  BY HeadTail, Zenon DEF PairRecv
<1>2. cb' \in [Items -> CbType]
  <2>1. find_proxy_reg_item(msg) \in Items \cup {None}
    BY <1>1, FoundItem, Zenon
  <2>2. (IF msg.type = "MULT_REQ" THEN Dests[msg.what] ELSE {}) \subseteq Modules
    BY <1>1, MessageWhat, DestModule, Zenon
  <2> HIDE DEF msg
  <2>3. [msg |-> msg, found |-> find_proxy_reg_item(msg),
         todo |-> IF msg.type = "MULT_REQ" THEN Dests[msg.what] ELSE {}] \in CbType
    BY <1>1, <2>1, <2>2, Zenon DEF CbType
  <2> QED  BY <2>3, TypeUses, Zenon DEF PairRecv, msg
<1>3. up' \in [Items -> Seq(Messages)]
  BY <1>1, TypeUses, Zenon DEF PairRecv
<1>4. claims' \in [Modules -> SUBSET Items] /\ contested' \subseteq Modules
  <2>1. msg.type = "REGISTER" => msg.what \in Modules
    BY <1>1, MessageWhat, Zenon
  <2>2. claims \in [Modules -> SUBSET Items] /\ contested \subseteq Modules
    BY Zenon DEF TypeOK
  <2>3. Claim(i, msg)
    BY Zenon DEF PairRecv
  <2> HIDE DEF msg
  <2> QED  BY <2>1, <2>2, <2>3 DEF Claim
<1> QED  BY <1>2, <1>3, <1>4, Zenon DEF PairRecv, TypeOK, CbType, library

\* The second half.
LEMMA TypeAct ==
  ASSUME TypeOK, NEW i \in Items, PairAct(i)
  PROVE  TypeOK'
<1>0. cb[i].msg \in Messages \cup {Idle.msg} /\ cb[i].found \in Items \cup {None}
      /\ cb[i].todo \subseteq Modules
  BY TypeUses, Zenon
<1>i. [cb EXCEPT ![i] = Idle] \in [Items -> CbType]
  BY CbWriteType, Zenon
<1>1. ASSUME RegisterModule(i)  PROVE TypeOK'
  <2>1. cb[i].msg.what \in Modules
    BY <1>0, <1>1, MessageWhat, Zenon DEF RegisterModule
  <2> DEFINE m == cb[i].msg.what
  <2> HIDE DEF m
  <2>a. /\ \/ cb[i].found # None /\ UNCHANGED <<reg_item, g_proxy_reg_map>>
           \/ /\ g_proxy_reg_map' = Inserted(m, i)
              /\ reg_item' = [reg_item EXCEPT ![i] = Listing(@, m)]
        /\ \E r \in {0, -3} : down' = Sent(down, i, Message("REGISTER", m, r))
    BY <1>1, Zenon DEF RegisterModule, m
  <2>b. m \in Modules
    BY <2>1, Zenon DEF m
  <2>2. down' \in [Items -> SUBSET Messages]
    BY <2>a, <2>b, MessageParts, SentType
  <2>3. g_proxy_reg_map' \in [Modules -> Items \cup {None}]
    BY <2>a, <2>b, InsertedType, Zenon
  <2>4. reg_item' \in [Items -> ItemType]
    BY <2>a, <2>b, ListingType
  <2>5. g_registered_module_array' \subseteq Modules
    BY <1>1, <2>1, Zenon DEF RegisterModule, TypeOK
  <2> QED  BY <1>1, <1>i, <2>2, <2>3, <2>4, <2>5, Zenon
           DEF RegisterModule, TypeOK, ItemType, CbType, library, history
<1>2. ASSUME ForwardRequest(i)  PROVE TypeOK'
  <2>1. cb[i].msg.what \in Events /\ cb[i].msg \in Messages
    BY <1>0, <1>2, MessageWhat, Zenon DEF ForwardRequest
  <2>2. down' \in [Items -> SUBSET Messages]
    <3>1. \/ \E j \in Items \cup {None}, msg \in Messages : down' = Sent(down, j, msg)
          \/ down' = down
      BY <1>0, <1>2, <2>1, MessageParts, Zenon DEF ForwardRequest
    <3>2. down \in [Items -> SUBSET Messages]
      BY Zenon DEF TypeOK
    <3> QED  BY <3>1, <3>2, SentType, Zenon
  <2>3. fate' \in [Events -> {"none", "asked", "handed", "answered", "lost"}]
    BY <1>2, FatedType DEF ForwardRequest, Handed, TypeOK
  <2>4. parked' \in [Events -> Items \cup {None}]
    BY <1>2, <2>1, TypeUses, Zenon DEF ForwardRequest
  <2> QED  BY <1>2, <1>i, <2>2, <2>3, <2>4, Zenon DEF ForwardRequest, TypeOK, CbType, library
<1>3. ASSUME ForwardMulticast(i)  PROVE TypeOK'
  <2>1. cb[i].msg.what \in Events /\ cb[i].msg \in Messages
    BY <1>0, <1>3, MessageWhat, Zenon DEF ForwardMulticast
  <2>2. down' \in [Items -> SUBSET Messages]
    <3>1. \A m \in cb[i].todo : g_proxy_reg_map[m] \in Items \cup {None}
      BY <1>0, TypeUses, Zenon
    <3>2. \E j \in Items \cup {None}, msg \in Messages : down' = Sent(down, j, msg)
      BY <1>0, <1>3, <2>1, <3>1, MessageParts, Zenon DEF ForwardMulticast
    <3> QED  BY <3>2, SentType, Zenon
  <2>3. fate' \in [Events -> {"none", "asked", "handed", "answered", "lost"}]
    BY <1>3, FatedType DEF ForwardMulticast, TypeOK
  <2>4. cb' \in [Items -> CbType]
    BY <1>0, <1>3, <1>i, CbWriteType DEF ForwardMulticast
  <2> QED  BY <1>3, <2>2, <2>3, <2>4, Zenon DEF ForwardMulticast, TypeOK, CbType, library
<1>4. ASSUME ForwardAnswer(i)  PROVE TypeOK'
  <2>1. cb[i].msg.what \in Events /\ cb[i].msg \in Messages
    BY <1>0, <1>4, MessageWhat, Zenon DEF ForwardAnswer
  <2>2. down' \in [Items -> SUBSET Messages]
    BY <1>0, <1>4, <2>1, SentType, Zenon DEF ForwardAnswer
  <2> QED  BY <1>4, <1>i, <2>2, Zenon DEF ForwardAnswer, TypeOK, CbType, library, history
<1> QED  BY <1>1, <1>2, <1>3, <1>4, Zenon DEF PairAct

\* The timers.
LEMMA TypeTimer ==
  ASSUME TypeOK
  PROVE  /\ \A e \in Unicast : proxy_expire_cb(e) \/ Elapse(e) => TypeOK'
         /\ \A i \in Items : unreg_cb(i) => TypeOK'
<1>1. ASSUME NEW e \in Unicast, proxy_expire_cb(e)  PROVE TypeOK'
  <2>1. e \in Events /\ Dest(e) \in Modules
    BY DestModule, Zenon DEF Unicast
  <2>2. /\ g_proxy_reg_map[Dest(e)] \in Items \cup {None} /\ parked[e] \in Items \cup {None}
        /\ down \in [Items -> SUBSET Messages]
    BY <2>1, Zenon DEF TypeOK
  <2>3. down' \in [Items -> SUBSET Messages]
    <3>1. \/ \E j \in Items \cup {None}, msg \in Messages : down' = Sent(down, j, msg)
          \/ down' = down
      <4>1. Request(e) \in Messages /\ Answer(e, -8) \in Messages
        BY <2>1, MessageParts, Zenon
      <4> QED  BY <1>1, <2>2, <4>1, Zenon DEF proxy_expire_cb
    <3>2. down \in [Items -> SUBSET Messages]
      BY <2>2, Zenon
    <3> QED  BY <3>1, <3>2, SentType, Zenon
  <2>4. fate' \in [Events -> {"none", "asked", "handed", "answered", "lost"}]
    BY <1>1, FatedType DEF proxy_expire_cb, Handed, TypeOK
  <2>5. parked' \in [Events -> Items \cup {None}]
    BY <1>1, <2>1, Zenon DEF proxy_expire_cb, TypeOK
  <2> QED  BY <1>1, <2>3, <2>4, <2>5, Zenon DEF proxy_expire_cb, TypeOK, library
<1>2. ASSUME NEW e \in Unicast, Elapse(e)  PROVE TypeOK'
  <2>1. due' \in [Events -> {"ample", "near", "past"}]
    BY <1>2, Zenon DEF Elapse, TypeOK
  <2> QED  BY <1>2, <2>1, Zenon DEF Elapse, TypeOK, daemon, library, history
<1>3. ASSUME NEW i \in Items, unreg_cb(i)  PROVE TypeOK'
  <2>1. reg_item' \in [Items -> ItemType]
    <3>1. Deleted \in ItemType
      BY Zenon DEF Deleted, ItemType
    <3> QED  BY <1>3, <3>1, ListingType, Zenon DEF unreg_cb
  <2>2. g_proxy_reg_map' \in [Modules -> Items \cup {None}]
    BY <1>3, Zenon DEF unreg_cb, TypeOK
  <2>3. up' \in [Items -> Seq(Messages)]
    BY <1>3 DEF unreg_cb, TypeOK
  <2>4. fate' \in [Events -> {"none", "asked", "handed", "answered", "lost"}]
    BY <1>3, FatedType, Zenon DEF unreg_cb
  <2>5. claims' \in [Modules -> SUBSET Items]
    BY <1>3, Zenon DEF unreg_cb, TypeOK
  <2> QED  BY <1>3, <2>1, <2>2, <2>3, <2>4, <2>5, Zenon DEF unreg_cb, TypeOK, library, ItemType
<1> QED  BY <1>1, <1>2, <1>3, Zenon

\* The processes.
LEMMA TypeClient ==
  ASSUME TypeOK, Client
  PROVE  TypeOK'
<1>1. ASSUME NEW p \in Processes, Connect(p)  PROVE TypeOK'
  <2>1. PICK i \in Items : /\ reg_item' = [reg_item EXCEPT ![i] = InState(@, "open")]
                           /\ conn' = [conn EXCEPT ![p] = i]
    BY <1>1, Zenon DEF Connect
  <2>2. InState(reg_item[i], "open") \in ItemType
    BY ListingType, ItemParts, Zenon
  <2>3. reg_item' \in [Items -> ItemType]
    BY <2>1, <2>2, ListingType, Zenon
  <2>4. conn' \in [Processes -> Items \cup {None}]
    BY <2>1, Zenon DEF TypeOK
  <2> QED  BY <1>1, <2>3, <2>4, Zenon DEF Connect, TypeOK, history, ItemType
<1>2. ASSUME NEW p \in Processes, server_cb_recv(p)  PROVE TypeOK'
  <2>1. conn[p] \in Items
    BY <1>2, Zenon DEF server_cb_recv, TypeOK
  <2>2. PICK msg \in down[conn[p]] :
          /\ down' = [down EXCEPT ![conn[p]] = @ \ {msg}]
          /\ init' = IF msg.type = "REGISTER" /\ init[msg.what] = "waiting"
                     THEN [init EXCEPT ![msg.what] = "done"] ELSE init
          /\ IF Serves(p, msg) THEN Submit(conn[p], Answer(msg.what, 0)) ELSE UNCHANGED up
    BY <1>2, Zenon DEF server_cb_recv
  <2>3. msg \in Messages /\ down \in [Items -> SUBSET Messages]
    BY <2>1, Zenon DEF TypeOK
  <2>4. down' \in [Items -> SUBSET Messages]
    BY <2>1, <2>2, <2>3, Zenon
  <2>5. init' \in [Modules -> {"none", "waiting", "done", "failed"}]
    BY <2>2, <2>3, MessageWhat, Zenon DEF TypeOK
  <2>6. up' \in [Items -> Seq(Messages)]
    <3>1. CASE Serves(p, msg)
      <4>1. msg.what \in Events
        BY <2>3, <3>1, MessageWhat, Zenon DEF Serves, ReplyType
      <4> QED  BY <2>1, <2>2, <3>1, <4>1, SubmitType, MessageParts, Zenon
    <3>2. CASE ~Serves(p, msg)
      BY <2>2, <3>2, Zenon DEF TypeOK
    <3> QED  BY <3>1, <3>2, Zenon
  <2> QED  BY <1>2, <2>4, <2>5, <2>6, Zenon DEF server_cb_recv, TypeOK, daemon, history
<1>3. ASSUME NEW p \in Processes, Exit(p)  PROVE TypeOK'
  <2>1. conn[p] \in Items
    BY <1>3, Zenon DEF Exit, TypeOK
  <2>2. reg_item' \in [Items -> ItemType]
    <3>1. InState(reg_item[conn[p]], "lost") \in ItemType
      BY <2>1, ListingType, ItemParts, Zenon
    <3> QED  BY <1>3, <2>1, <3>1, ListingType, Zenon DEF Exit
  <2>3. down' \in [Items -> SUBSET Messages] /\ conn' \in [Processes -> Items \cup {None}]
    BY <1>3, Zenon DEF Exit, TypeOK
  <2>4. /\ init' \in [Modules -> {"none", "waiting", "done", "failed"}]
        /\ tries' \in [Modules -> Nat] /\ \A m \in Modules : tries'[m] <= MaxTries[m]
    BY <1>3, DaemonAssumption DEF Exit, TypeOK
  <2> QED  BY <1>3, <2>2, <2>3, <2>4, Zenon DEF Exit, TypeOK, history, ItemType
<1>4. ASSUME NEW p \in Processes, NEW m \in Hosts[p], SendRegister(p, m)  PROVE TypeOK'
  <2>1. m \in Modules /\ conn[p] \in Items
    BY <1>4, DaemonAssumption, Zenon DEF SendRegister, TypeOK
  <2>2. up' \in [Items -> Seq(Messages)]
    BY <1>4, <2>1, SubmitType, MessageParts, Zenon DEF SendRegister
  <2>3. /\ init' \in [Modules -> {"none", "waiting", "done", "failed"}]
        /\ tries' \in [Modules -> Nat] /\ \A n \in Modules : tries'[n] <= MaxTries[n]
    <3>1. init \in [Modules -> {"none", "waiting", "done", "failed"}]
      BY Zenon DEF TypeOK
    <3>2. tries \in [Modules -> Nat] /\ (\A n \in Modules : tries[n] <= MaxTries[n])
          /\ tries[m] < MaxTries[m] /\ MaxTries \in [Modules -> Nat]
      BY <1>4, DaemonAssumption, Zenon DEF TypeOK, SendRegister
    <3>3. init' = [init EXCEPT ![m] = "waiting"] /\ tries' = [tries EXCEPT ![m] = @ + 1]
      BY <1>4, Zenon DEF SendRegister
    <3>4. init' \in [Modules -> {"none", "waiting", "done", "failed"}]
      BY <2>1, <3>1, <3>3, Zenon
    <3> QED  BY <2>1, <3>2, <3>3, <3>4
  <2> QED  BY <1>4, <2>2, <2>3, Zenon DEF SendRegister, TypeOK, daemon, history
<1>5. ASSUME NEW m \in Modules, GiveUp(m)  PROVE TypeOK'
  <2>1. init' \in [Modules -> {"none", "waiting", "done", "failed"}]
    BY <1>5, Zenon DEF GiveUp, TypeOK
  <2> QED  BY <1>5, <2>1, Zenon DEF GiveUp, TypeOK, daemon, history
<1>6. ASSUME NEW p \in Processes, NEW e \in Events, SendRequest(p, e)  PROVE TypeOK'
  <2>1. conn[p] \in Items
    BY <1>6, Zenon DEF SendRequest, TypeOK
  <2>2. up' \in [Items -> Seq(Messages)]
    BY <1>6, <2>1, SubmitType, MessageParts, Zenon DEF SendRequest
  <2>3. fate' \in [Events -> {"none", "asked", "handed", "answered", "lost"}]
    BY <1>6, FatedType, Zenon DEF SendRequest
  <2> QED  BY <1>6, <2>2, <2>3, Zenon DEF SendRequest, TypeOK, daemon, library
<1> QED  BY <1>1, <1>2, <1>3, <1>4, <1>5, <1>6, DaemonAssumption, Zenon DEF Client

\* Every action keeps the types.
LEMMA TypeStep == TypeOK /\ [Next]_vars => TypeOK'
<1> SUFFICES ASSUME TypeOK, [Next]_vars  PROVE TypeOK'
  OBVIOUS
<1>1. CASE Receive
  BY <1>1, TypeRecv, TypeAct, Zenon DEF Receive
<1>2. CASE Timer \/ \E i \in Items : unreg_cb(i)
  BY <1>2, TypeTimer, Zenon DEF Timer
<1>3. CASE Client
  BY <1>3, TypeClient, Zenon
<1>4. CASE UNCHANGED vars
  BY <1>4, Zenon DEF TypeOK, vars, daemon, library, history
<1> QED  BY <1>1, <1>2, <1>3, <1>4, Zenon DEF Next

\* Every variable keeps its type, and init keeps to its number of tries, for
\* any number of processes, connections and requests.
THEOREM TypeCorrect == Spec => []TypeOK
<1>1. Init => TypeOK
  BY DaemonAssumption, ItemParts, CbParts DEF Init, TypeOK, Unused, Idle, Message
<1> QED  BY <1>1, TypeStep, PTL DEF Spec

-----------------------------------------------------------------------------
(***************************************************************************)
(* The entries of the map.                                                 *)
(***************************************************************************)

\* A connection whose item keeps its list and is not deleted stays live.
LEMMA LiveKept ==
  ASSUME TypeOK, TypeOK', LiveInv,
         UNCHANGED g_proxy_reg_map,
         \A i \in Items : /\ reg_item[i].list \subseteq reg_item'[i].list
                          /\ reg_item[i].state \in {"open", "lost"} =>
                                reg_item'[i].state \in {"open", "lost"},
         \A i \in Items : cb'[i] # Idle => cb[i] # Idle \/ reg_item[i].state \in {"open", "lost"}
  PROVE  LiveInv'
<1>1. \A m \in Modules : g_proxy_reg_map[m] \in Items \cup {None}
  BY Zenon DEF TypeOK
<1> QED  BY <1>1, Zenon DEF LiveInv, NoDanglingEntry

\* A callback of a connection keeps LiveInv: it enters only a connection that is
\* not deleted.
LEMMA LiveAct ==
  ASSUME TypeOK, TypeOK', LiveInv, NEW i \in Items, PairAct(i)
  PROVE  LiveInv'
<1>0. cb[i] # Idle
  BY CbParts, Zenon DEF PairAct, RegisterModule, ForwardRequest, ForwardMulticast, ForwardAnswer,
         Requests, Answers
<1>1. reg_item[i].state \in {"open", "lost"} /\ cb \in [Items -> CbType]
  BY <1>0, TypeUses, Zenon DEF LiveInv
<1>2. CASE UNCHANGED <<reg_item, g_proxy_reg_map>>
  <2>1. \E k \in CbType : cb' = [cb EXCEPT ![i] = k]
    <3>1. \A m \in cb[i].todo : m \in Modules
      BY TypeUses, Zenon
    <3>2. \A m \in Modules : Without(cb[i], m) \in CbType
      BY <1>1, CbParts, Zenon
    <3> QED  BY <3>1, <3>2, CbParts, Zenon
             DEF PairAct, RegisterModule, ForwardRequest, ForwardMulticast, ForwardAnswer
  <2>2. \A j \in Items : cb'[j] # Idle => cb[j] # Idle \/ reg_item[j].state \in {"open", "lost"}
    BY <1>1, <2>1, Zenon
  <2> QED  BY <1>2, <2>2, LiveKept, Zenon
<1>3. CASE ~UNCHANGED <<reg_item, g_proxy_reg_map>>
  <2> DEFINE m == cb[i].msg.what
  <2>1. RegisterModule(i)
    BY <1>3, Zenon DEF PairAct, ForwardRequest, ForwardMulticast, ForwardAnswer
  <2> HIDE DEF m
  <2>2. m \in Modules
    BY <2>1, MessageWhat, TypeUses, Zenon DEF RegisterModule, m
  <2>3. /\ g_proxy_reg_map' = Inserted(m, i)
        /\ reg_item' = [reg_item EXCEPT ![i] = Listing(@, m)]
        /\ cb' = [cb EXCEPT ![i] = Idle]
    BY <1>3, <2>1, Zenon DEF RegisterModule, m
  <2>4. /\ reg_item \in [Items -> ItemType] /\ g_proxy_reg_map \in [Modules -> Items \cup {None}]
        /\ Listing(reg_item[i], m).list = reg_item[i].list \cup {m}
        /\ Listing(reg_item[i], m).state = reg_item[i].state
    <3>1. reg_item \in [Items -> ItemType] /\ g_proxy_reg_map \in [Modules -> Items \cup {None}]
      BY TypeUses, Zenon
    <3>2. reg_item[i] \in ItemType
      BY <3>1, Zenon
    <3> QED  BY <2>2, <3>1, <3>2, ItemParts, ZenonT(30)
  <2>5. \A j \in Items : /\ reg_item'[j].state = reg_item[j].state
                         /\ reg_item[j].list \subseteq reg_item'[j].list
                         /\ j = i => m \in reg_item'[j].list
    BY <2>3, <2>4, Zenon
  <2>6. ASSUME NEW n \in Modules, g_proxy_reg_map'[n] # None
        PROVE  /\ n \in reg_item'[g_proxy_reg_map'[n]].list
               /\ reg_item'[g_proxy_reg_map'[n]].state \in {"open", "lost"}
    <3>1. g_proxy_reg_map'[n] = g_proxy_reg_map[n] \/ (n = m /\ g_proxy_reg_map'[n] = i)
      <4>1. g_proxy_reg_map \in [Modules -> Items \cup {None}] /\ g_proxy_reg_map' = Inserted(m, i)
        BY <2>3, <2>4, Zenon
      <4> QED  BY <2>2, <4>1, Zenon DEF Inserted
    <3> QED  BY <1>1, <2>4, <2>5, <2>6, <3>1 DEF LiveInv, NoDanglingEntry
  <2>7. \A j \in Items : cb'[j] # Idle => reg_item'[j].state \in {"open", "lost"}
    BY <1>1, <2>3, <2>5, Zenon DEF LiveInv
  <2> QED  BY <2>6, <2>7, Zenon DEF LiveInv, NoDanglingEntry
<1> QED  BY <1>2, <1>3, Zenon

\* unreg_cb keeps LiveInv: it deletes a connection after its entries.
LEMMA LiveUnreg ==
  ASSUME TypeOK, LiveInv, NEW i \in Items, unreg_cb(i)
  PROVE  LiveInv'
<1>1. /\ reg_item \in [Items -> ItemType] /\ g_proxy_reg_map \in [Modules -> Items \cup {None}]
  BY TypeUses, Zenon
<1>2. \A j \in Items : j # i => reg_item'[j] = reg_item[j]
  BY <1>1, Zenon DEF unreg_cb
<1>3. \A m \in Modules : g_proxy_reg_map'[m] # None =>
         g_proxy_reg_map'[m] = g_proxy_reg_map[m] /\ g_proxy_reg_map[m] # i
  BY <1>1, Zenon DEF unreg_cb, LiveInv, NoDanglingEntry
<1>4. NoDanglingEntry'
  BY <1>1, <1>2, <1>3 DEF LiveInv, NoDanglingEntry
<1>5. \A j \in Items : cb'[j] # Idle => j # i /\ cb[j] # Idle
  BY Zenon DEF unreg_cb
<1> QED  BY <1>2, <1>4, <1>5, Zenon DEF LiveInv

\* Every action keeps LiveInv.
LEMMA LiveStep == TypeOK /\ TypeOK' /\ LiveInv /\ [Next]_vars => LiveInv'
<1> SUFFICES ASSUME TypeOK, TypeOK', LiveInv, [Next]_vars  PROVE LiveInv'
  OBVIOUS
<1>0. reg_item \in [Items -> ItemType] /\ cb \in [Items -> CbType]
  BY TypeUses, Zenon
<1>1. ASSUME NEW i \in Items, PairRecv(i)  PROVE LiveInv'
  BY <1>0, <1>1, LiveKept, Zenon DEF PairRecv
<1>2. ASSUME NEW i \in Items, PairAct(i)  PROVE LiveInv'
  BY <1>2, LiveAct, Zenon
<1>3. CASE UNCHANGED <<reg_item, g_proxy_reg_map, cb>>
  BY <1>3, LiveKept, Zenon
<1>4. ASSUME NEW i \in Items, unreg_cb(i)  PROVE LiveInv'
  BY <1>4, LiveUnreg, Zenon
<1>5. ASSUME NEW p \in Processes, Connect(p) \/ Exit(p)  PROVE LiveInv'
  <2>1. PICK i \in Items, s \in {"open", "lost"} :
             /\ reg_item' = [reg_item EXCEPT ![i] = InState(@, s)]
             /\ UNCHANGED <<g_proxy_reg_map, cb>>
    <3>1. conn[p] \in Items \cup {None}
      BY Zenon DEF TypeOK
    <3> QED  BY <1>5, <3>1, Zenon DEF Connect, Exit
  <2>2. InState(reg_item[i], s).list = reg_item[i].list /\ InState(reg_item[i], s).state = s
    BY <1>0, ItemParts
  <2> QED  BY <1>0, <2>1, <2>2, LiveKept, Zenon
<1>6. CASE Timer \/ UNCHANGED vars
  BY <1>3, <1>6, Zenon DEF Timer, proxy_expire_cb, Elapse, vars, daemon
<1>7. CASE Client
  <2>1. CASE \E p \in Processes : server_cb_recv(p)
    BY <1>3, <2>1, Zenon DEF server_cb_recv, daemon
  <2>2. CASE \E p \in Processes : \E m \in Hosts[p] : SendRegister(p, m) \/ GiveUp(m)
    BY <1>3, <2>2, Zenon DEF SendRegister, GiveUp, daemon
  <2>3. CASE \E p \in Processes, e \in Events : SendRequest(p, e)
    BY <1>3, <2>3, Zenon DEF SendRequest, daemon
  <2> QED  BY <1>5, <1>7, <2>1, <2>2, <2>3, Zenon DEF Client
<1> QED  BY <1>1, <1>2, <1>4, <1>6, <1>7, Zenon DEF Next, Receive

\* No entry of g_proxy_reg_map outlives its connection, however the callbacks that
\* register a module and the removals of connections interleave.
THEOREM NoDanglingEntryThm == Spec => []NoDanglingEntry
<1>1. Init => LiveInv
  BY DEF Init, LiveInv, NoDanglingEntry
<1>2. LiveInv => NoDanglingEntry
  BY Zenon DEF LiveInv
<1>3. Spec => []TypeOK
  BY TypeCorrect, Zenon
<1> QED  BY <1>1, <1>2, <1>3, LiveStep, PTL DEF Spec

-----------------------------------------------------------------------------
(***************************************************************************)
(* The traffic about a module on a connection.                             *)
(***************************************************************************)

\* A message that is taken off, and one that is put in the queue.
LEMMA AsksTail ==
  ASSUME TypeOK, NEW i \in Items, up[i] # <<>>, up' = [up EXCEPT ![i] = Tail(@)],
         NEW j \in Items, NEW m \in Modules
  PROVE  /\ Asks(j, m)' => Asks(j, m)
         /\ Registers(Head(up[i]), m) => Asks(i, m)
<1>1. up \in [Items -> Seq(Messages)] /\ up[i] \in Seq(Messages)
  BY TypeUses, Zenon
<1>2. /\ Len(up[i]) \in Nat \ {0} /\ Head(up[i]) = up[i][1]
      /\ Len(Tail(up[i])) = Len(up[i]) - 1
      /\ \A n \in 1..Len(Tail(up[i])) : Tail(up[i])[n] = up[i][n + 1]
  BY <1>1
<1>3. CASE j = i
  <2>1. \A n \in 1..Len(Tail(up[i])) : n + 1 \in 1..Len(up[i])
    BY <1>2
  <2>2. up'[j] = Tail(up[i])
    BY <1>1, <1>3, Zenon
  <2>3. Asks(j, m)' => Asks(j, m)
    BY <1>2, <1>3, <2>1, <2>2, Zenon DEF Asks
  <2> QED  BY <1>2, <2>3 DEF Asks
<1>4. CASE j # i
  <2>1. up'[j] = up[j]
    BY <1>1, <1>4, Zenon
  <2> QED  BY <1>2, <2>1 DEF Asks
<1> QED  BY <1>3, <1>4, Zenon

\* A message put in a queue asks for nothing but the module it registers.
LEMMA AsksAppend ==
  ASSUME TypeOK, NEW i \in Items, NEW msg \in Messages, Submit(i, msg),
         NEW j \in Items, NEW m \in Modules, Asks(j, m)'
  PROVE  Asks(j, m) \/ (j = i /\ Registers(msg, m))
<1>1. up \in [Items -> Seq(Messages)] /\ up[i] \in Seq(Messages) /\ up[j] \in Seq(Messages)
  BY TypeUses, Zenon
<1>2. up'[j] = IF j = i THEN Append(up[i], msg) ELSE up[j]
  BY <1>1, Zenon DEF Submit
<1>3. CASE j = i
  <2>1. /\ Len(Append(up[i], msg)) = Len(up[i]) + 1 /\ Len(up[i]) \in Nat
        /\ \A n \in 1 .. Len(up[i]) + 1 :
              Append(up[i], msg)[n] = IF n = Len(up[i]) + 1 THEN msg ELSE up[i][n]
    BY <1>1
  <2>2. PICK n \in 1 .. Len(up[i]) + 1 : Registers(Append(up[i], msg)[n], m)
    BY <1>2, <1>3, <2>1, Zenon DEF Asks
  <2>3. CASE n = Len(up[i]) + 1
    BY <1>3, <2>1, <2>2, <2>3, Zenon
  <2>4. CASE n # Len(up[i]) + 1
    <3>1. n \in 1..Len(up[i])
      BY <2>1, <2>4
    <3> QED  BY <1>3, <2>1, <2>2, <2>4, <3>1, Zenon DEF Asks
  <2> QED  BY <2>3, <2>4, Zenon
<1>4. CASE j # i
  BY <1>2, <1>4, Zenon DEF Asks
<1> QED  BY <1>3, <1>4, Zenon

\* A message sent to a connection tells it of nothing but the module it registers,
\* and reaches only an open one.
LEMMA ToldSent ==
  ASSUME TypeOK, NEW i \in Items \cup {None}, NEW msg \in Messages,
         down' = Sent(down, i, msg), NEW j \in Items
  PROVE  /\ \A m \in Modules : Told(j, m)' => Told(j, m) \/ (j = i /\ Registers(msg, m))
         /\ down'[j] # down[j] => reg_item[j].state = "open"
<1>1. down \in [Items -> SUBSET Messages]
  BY Zenon DEF TypeOK
<1>2. /\ down'[j] \subseteq down[j] \cup {msg}
      /\ j # i => down'[j] = down[j]
      /\ reg_item[j].state # "open" => down'[j] = down[j]
  BY <1>1, SentParts
<1> QED  BY <1>2, Zenon DEF Told

\* The answers and the requests are not about a registration.
LEMMA NotRegister ==
  ASSUME NEW e \in Events
  PROVE  \A m, r : ~Registers(Request(e), m) /\ ~Registers(Answer(e, r), m)
<1>1. Type[e] # "REGISTER" /\ ReplyType[Type[e]] # "REGISTER"
  BY DaemonAssumption DEF ReplyType
<1> QED  BY <1>1, Zenon DEF Registers, Request, Answer, Message

\* What a callback does: it registers a module,
LEMMA RegisterEffect ==
  ASSUME TypeOK, NEW i \in Items, RegisterModule(i)
  PROVE  \E m \in Modules :
            /\ Registers(cb[i].msg, m)
            /\ \/ cb[i].found # None /\ UNCHANGED <<reg_item, g_proxy_reg_map>>
               \/ /\ cb[i].found = None /\ g_proxy_reg_map' = Inserted(m, i)
                  /\ reg_item' = [reg_item EXCEPT ![i] = Listing(@, m)]
            /\ cb' = [cb EXCEPT ![i] = Idle]
            /\ UNCHANGED <<up, conn, init, claims, contested>>
            /\ \A j \in Items : /\ down'[j] # down[j] => reg_item[j].state = "open"
                                /\ \A n \in Modules : Told(j, n)' =>
                                      Told(j, n) \/ (j = i /\ n = m)
<1> DEFINE m == cb[i].msg.what
<1> HIDE DEF m
<1>1. m \in Modules /\ Registers(cb[i].msg, m)
  BY MessageWhat, TypeUses, Zenon DEF RegisterModule, m, Registers
<1>2. PICK r \in {0, -3} : down' = Sent(down, i, Message("REGISTER", m, r))
  BY Zenon DEF RegisterModule, m
<1>3. Message("REGISTER", m, r) \in Messages
  BY <1>1, MessageParts, Zenon
<1>4. \A n : Registers(Message("REGISTER", m, r), n) => n = m
  BY Zenon DEF Registers, Message
<1>5. \A j \in Items : /\ down'[j] # down[j] => reg_item[j].state = "open"
                       /\ \A n \in Modules : Told(j, n)' => Told(j, n) \/ (j = i /\ n = m)
  BY <1>2, <1>3, <1>4, ToldSent, Zenon
<1>6. /\ \/ cb[i].found # None /\ UNCHANGED <<reg_item, g_proxy_reg_map>>
         \/ /\ cb[i].found = None /\ g_proxy_reg_map' = Inserted(m, i)
            /\ reg_item' = [reg_item EXCEPT ![i] = Listing(@, m)]
      /\ cb' = [cb EXCEPT ![i] = Idle]
      /\ UNCHANGED <<up, conn, init, claims, contested>>
  BY Zenon DEF RegisterModule, m, library, history
<1> QED  BY <1>1, <1>5, <1>6, Zenon

\* or forwards a message, which is not about a registration.
LEMMA ForwardEffect ==
  ASSUME TypeOK, NEW i \in Items, ForwardRequest(i) \/ ForwardMulticast(i) \/ ForwardAnswer(i)
  PROVE  /\ \E k \in CbType : /\ cb' = [cb EXCEPT ![i] = k]
                              /\ \A m \in Modules : ~Registers(k.msg, m)
         /\ UNCHANGED <<reg_item, g_proxy_reg_map, up, conn, init, claims, contested>>
         /\ \A j \in Items : /\ down'[j] # down[j] => reg_item[j].state = "open"
                             /\ \A m \in Modules : Told(j, m)' => Told(j, m)
<1>0. /\ cb[i] \in CbType /\ cb[i].msg \in Messages \cup {Idle.msg}
      /\ cb[i].found \in Items \cup {None} /\ cb[i].todo \subseteq Modules
  BY TypeUses, Zenon
<1>1. cb[i].msg.type \in DOMAIN ReplyType \cup Answers
  BY MessageWhat, Zenon DEF ForwardRequest, ForwardMulticast, ForwardAnswer, Requests, ReplyType
<1>2. cb[i].msg \in Messages /\ cb[i].msg.what \in Events
      /\ \A m \in Modules : ~Registers(cb[i].msg, m)
  <2>1. cb[i].msg.type # "REGISTER"
    BY <1>1, Zenon DEF ReplyType, Answers
  <2> QED  BY <1>0, <1>1, <2>1, MessageWhat, Zenon DEF Registers
<1>3. \E k \in CbType : /\ cb' = [cb EXCEPT ![i] = k]
                        /\ \A m \in Modules : ~Registers(k.msg, m)
  <2>1. Idle \in CbType /\ \A m \in Modules : ~Registers(Idle.msg, m)
    BY CbParts, Zenon DEF Registers
  <2>2. \A m \in cb[i].todo : /\ Without(cb[i], m) \in CbType
                              /\ \A n \in Modules : ~Registers(Without(cb[i], m).msg, n)
    BY <1>0, <1>2, CbParts, Zenon
  <2> QED  BY <2>1, <2>2, Zenon DEF ForwardRequest, ForwardMulticast, ForwardAnswer
<1>4. UNCHANGED <<reg_item, g_proxy_reg_map, up, conn, init, claims, contested>>
  BY Zenon DEF ForwardRequest, ForwardMulticast, ForwardAnswer, library, history
<1>5. \/ down' = down
      \/ \E j \in Items \cup {None}, msg \in Messages :
            down' = Sent(down, j, msg) /\ \A m \in Modules : ~Registers(msg, m)
  <2>1. \A r \in {0, -2} : /\ Answer(cb[i].msg.what, r) \in Messages
                           /\ \A m \in Modules : ~Registers(Answer(cb[i].msg.what, r), m)
    BY <1>2, MessageParts, NotRegister, Zenon
  <2>2. \A m \in cb[i].todo : g_proxy_reg_map[m] \in Items \cup {None}
    BY <1>0, TypeUses, Zenon
  <2> QED  BY <1>0, <1>2, <2>1, <2>2, Zenon DEF ForwardRequest, ForwardMulticast, ForwardAnswer
<1>6. \A j \in Items : /\ down'[j] # down[j] => reg_item[j].state = "open"
                       /\ \A m \in Modules : Told(j, m)' => Told(j, m)
  BY <1>5, ToldSent, Zenon DEF Told
<1> QED  BY <1>3, <1>4, <1>6, Zenon

\* The timer of a parked request.
LEMMA ExpireEffect ==
  ASSUME TypeOK, NEW e \in Unicast, proxy_expire_cb(e)
  PROVE  /\ UNCHANGED <<reg_item, g_proxy_reg_map, cb, up, conn, init, claims, contested>>
         /\ \A j \in Items : /\ down'[j] # down[j] => reg_item[j].state = "open"
                             /\ \A m \in Modules : Told(j, m)' => Told(j, m)
<1>1. e \in Events /\ Dest(e) \in Modules
  BY DestModule, Zenon DEF Unicast
<1>2. g_proxy_reg_map[Dest(e)] \in Items \cup {None} /\ parked[e] \in Items \cup {None}
  BY <1>1, Zenon DEF TypeOK
<1>3. \A msg \in {Request(e), Answer(e, -8)} :
         msg \in Messages /\ \A m \in Modules : ~Registers(msg, m)
  BY <1>1, MessageParts, NotRegister, Zenon
<1>4. \/ down' = down
      \/ \E j \in Items \cup {None}, msg \in Messages :
            down' = Sent(down, j, msg) /\ \A m \in Modules : ~Registers(msg, m)
  BY <1>2, <1>3, Zenon DEF proxy_expire_cb
<1>5. \A j \in Items : /\ down'[j] # down[j] => reg_item[j].state = "open"
                       /\ \A m \in Modules : Told(j, m)' => Told(j, m)
  BY <1>4, ToldSent DEF Told
<1> QED  BY <1>5, Zenon DEF proxy_expire_cb, library

\* The processes: what they send and what they take.
LEMMA SendEffect ==
  ASSUME TypeOK, NEW p \in Processes
  PROVE  /\ \A e \in Events : SendRequest(p, e) =>
               /\ UNCHANGED <<reg_item, g_proxy_reg_map, cb, down, conn, init, claims, contested>>
               /\ \A j \in Items : /\ up'[j] # up[j] => j = conn[p]
                                   /\ \A n \in Modules : Asks(j, n)' => Asks(j, n)
         /\ \A m \in Hosts[p] : SendRegister(p, m) =>
               /\ UNCHANGED <<reg_item, g_proxy_reg_map, cb, down, conn, claims, contested>>
               /\ init' = [init EXCEPT ![m] = "waiting"]
               /\ conn[p] # None
               /\ \A j \in Items : /\ up'[j] # up[j] => j = conn[p]
                                   /\ \A n \in Modules : Asks(j, n)' =>
                                         Asks(j, n) \/ (j = conn[p] /\ n = m)
<1>0. \A i \in Items : \A msg : Submit(i, msg) => \A j \in Items : up'[j] # up[j] => j = i
  BY Zenon DEF Submit, TypeOK
<1>1. ASSUME NEW e \in Events, SendRequest(p, e)
      PROVE  /\ UNCHANGED <<reg_item, g_proxy_reg_map, cb, down, conn, init, claims, contested>>
             /\ \A j \in Items : /\ up'[j] # up[j] => j = conn[p]
                                 /\ \A n \in Modules : Asks(j, n)' => Asks(j, n)
  <2>1. conn[p] \in Items /\ Request(e) \in Messages /\ Submit(conn[p], Request(e))
    BY <1>1, MessageParts, Zenon DEF SendRequest, TypeOK
  <2>2. \A j \in Items : \A n \in Modules : Asks(j, n)' => Asks(j, n)
    BY <2>1, AsksAppend, NotRegister, Zenon
  <2> QED  BY <1>0, <1>1, <2>1, <2>2, Zenon DEF SendRequest, daemon, library
<1>2. ASSUME NEW m \in Hosts[p], SendRegister(p, m)
      PROVE  /\ UNCHANGED <<reg_item, g_proxy_reg_map, cb, down, conn, claims, contested>>
             /\ init' = [init EXCEPT ![m] = "waiting"]
             /\ conn[p] # None
             /\ \A j \in Items : /\ up'[j] # up[j] => j = conn[p]
                                 /\ \A n \in Modules : Asks(j, n)' =>
                                       Asks(j, n) \/ (j = conn[p] /\ n = m)
  <2> DEFINE msg == Message("REGISTER", m, 0)
  <2>1. conn[p] \in Items /\ m \in Modules /\ Submit(conn[p], msg)
    BY <1>2, DaemonAssumption, Zenon DEF SendRegister, TypeOK
  <2>2. msg \in Messages /\ \A n : Registers(msg, n) => n = m
    BY <2>1, MessageParts, Zenon DEF Registers, Message
  <2> HIDE DEF msg
  <2>3. \A j \in Items : \A n \in Modules : Asks(j, n)' => Asks(j, n) \/ (j = conn[p] /\ n = m)
    BY <2>1, <2>2, AsksAppend, Zenon
  <2> QED  BY <1>0, <1>2, <2>1, <2>3, Zenon DEF SendRegister, daemon, history
<1> QED  BY <1>1, <1>2, Zenon

\* What server_cb_recv of a client can change: an init that was waiting is done if
\* the answer was told.
LEMMA TakeEffect ==
  ASSUME TypeOK, NEW p \in Processes, server_cb_recv(p)
  PROVE  /\ UNCHANGED <<reg_item, g_proxy_reg_map, cb, conn, claims, contested>>
         /\ conn[p] \in Items
         /\ \A m \in Modules : init'[m] # init[m] =>
               init[m] = "waiting" /\ init'[m] = "done" /\ Told(conn[p], m)
         /\ \A j \in Items : /\ up'[j] # up[j] => j = conn[p]
                             /\ down'[j] \subseteq down[j]
                             /\ \A m \in Modules : Asks(j, m)' => Asks(j, m)
<1>1. conn[p] \in Items
  BY Zenon DEF server_cb_recv, TypeOK
<1>2. PICK msg \in down[conn[p]] :
        /\ down' = [down EXCEPT ![conn[p]] = @ \ {msg}]
        /\ init' = IF msg.type = "REGISTER" /\ init[msg.what] = "waiting"
                   THEN [init EXCEPT ![msg.what] = "done"] ELSE init
        /\ IF Serves(p, msg) THEN Submit(conn[p], Answer(msg.what, 0)) ELSE UNCHANGED up
  BY Zenon DEF server_cb_recv
<1>3. msg \in Messages /\ down \in [Items -> SUBSET Messages]
  BY <1>1, Zenon DEF TypeOK
<1>4. \A j \in Items : down'[j] \subseteq down[j]
  BY <1>1, <1>2, <1>3, Zenon
<1>5. \A m \in Modules : init'[m] # init[m] =>
         init[m] = "waiting" /\ init'[m] = "done" /\ Told(conn[p], m)
  BY <1>1, <1>2, <1>3, Zenon DEF TypeOK, Told, Registers
<1>6. \A j \in Items : /\ up'[j] # up[j] => j = conn[p]
                       /\ \A m \in Modules : Asks(j, m)' => Asks(j, m)
  <2>1. CASE Serves(p, msg)
    <3>1. msg.what \in Events
      BY <1>3, <2>1, MessageWhat, Zenon DEF Serves, ReplyType
    <3>2. Submit(conn[p], Answer(msg.what, 0)) /\ Answer(msg.what, 0) \in Messages
      BY <1>2, <2>1, <3>1, MessageParts, Zenon
    <3>3. \A j \in Items : \A m \in Modules : Asks(j, m)' => Asks(j, m)
      BY <1>1, <3>1, <3>2, AsksAppend, NotRegister, Zenon
    <3> QED  BY <3>2, <3>3, Zenon DEF Submit, TypeOK
  <2>2. CASE ~Serves(p, msg)
    BY <1>2, <2>2, Zenon DEF Asks
  <2> QED  BY <2>1, <2>2, Zenon
<1> QED  BY <1>1, <1>4, <1>5, <1>6, Zenon DEF server_cb_recv, daemon, history

-----------------------------------------------------------------------------
(***************************************************************************)
(* The processes keep to their own connection and modules.                 *)
(***************************************************************************)

\* A step that opens or closes no connection.
LEMMA OwnKept ==
  ASSUME TypeOK, OwnInv, UNCHANGED conn,
         \A p \in Processes : conn[p] = None => \A m \in Hosts[p] : init'[m] = init[m],
         \A i \in Items : reg_item'[i].state = reg_item[i].state,
         \A i \in Items : reg_item[i].state = "unused" =>
            up'[i] = up[i] /\ cb'[i] = cb[i] /\ reg_item'[i] = reg_item[i],
         \A i \in Items : reg_item[i].state # "open" => down'[i] \subseteq down[i],
         \A i \in Items, m \in Modules : Carries(i, m)' =>
            Carries(i, m) \/ \E p \in Processes : conn[p] = i /\ m \in Hosts[p]
  PROVE  OwnInv'
<1>2. ASSUME NEW i \in Items
      PROVE  /\ reg_item'[i].state = "unused" => /\ up'[i] = <<>> /\ cb'[i] = Idle
                                                 /\ reg_item'[i] = Unused
             /\ reg_item'[i].state # "open" => down'[i] = {}
  BY DEF OwnInv
<1>3. ASSUME NEW p \in Processes, NEW i \in Items, conn[p] = i
      PROVE  reg_item'[i].state = "open" /\ \A m \in Modules : Carries(i, m)' => m \in Hosts[p]
  <2>1. \A q \in Processes : conn[q] = i => q = p
    BY <1>3, DaemonAssumption DEF OwnInv, Items
  <2> QED  BY <1>3, <2>1 DEF OwnInv
<1> QED  BY <1>2, <1>3, SMTT(30) DEF OwnInv

\* The callbacks.
LEMMA OwnReceive ==
  ASSUME TypeOK, LiveInv, OwnInv, NEW i \in Items, PairRecv(i) \/ PairAct(i)
  PROVE  OwnInv'
<1>0. reg_item \in [Items -> ItemType] /\ cb \in [Items -> CbType]
      /\ up \in [Items -> Seq(Messages)]
  BY TypeUses, Zenon
<1>1. CASE PairRecv(i)
  <2>1. /\ up[i] # <<>> /\ up' = [up EXCEPT ![i] = Tail(@)]
        /\ UNCHANGED <<reg_item, conn, init, down>> /\ reg_item[i].state # "unused"
        /\ \A j \in Items : j # i => cb'[j] = cb[j]
        /\ cb'[i].msg = Head(up[i])
    BY <1>0, <1>1, Zenon DEF PairRecv, library
  <2>2. \A j \in Items, m \in Modules : Carries(j, m)' => Carries(j, m)
    <3>1. \A j \in Items, m \in Modules : Asks(j, m)' => Asks(j, m)
      BY <2>1, AsksTail, Zenon
    <3>2. \A j \in Items, m \in Modules : Registers(cb'[j].msg, m) => Carries(j, m)
      BY <2>1, AsksTail, Zenon DEF Carries
    <3>3. \A j \in Items, m \in Modules : Told(j, m)' => Told(j, m)
      BY <2>1, Zenon DEF Told
    <3> QED  BY <3>1, <3>2, <3>3, Zenon DEF Carries, Registers
  <2>3. \A j \in Items : reg_item[j].state = "unused" => up'[j] = up[j] /\ cb'[j] = cb[j]
    BY <1>0, <2>1, Zenon
  <2> QED  BY <2>1, <2>2, <2>3, OwnKept, Zenon
<1>2. CASE RegisterModule(i)
  <2>1. PICK m \in Modules :
            /\ Registers(cb[i].msg, m)
            /\ \/ UNCHANGED <<reg_item, g_proxy_reg_map>>
               \/ reg_item' = [reg_item EXCEPT ![i] = Listing(@, m)]
            /\ cb' = [cb EXCEPT ![i] = Idle]
            /\ UNCHANGED <<up, conn, init>>
            /\ \A j \in Items : /\ down'[j] # down[j] => reg_item[j].state = "open"
                                /\ \A n \in Modules : Told(j, n)' =>
                                      Told(j, n) \/ (j = i /\ n = m)
    BY <1>2, RegisterEffect
  <2>2. cb[i] # Idle /\ reg_item[i].state # "unused"
    BY <2>1, CbParts, Zenon DEF Registers, LiveInv
  <2>3. \A j \in Items : /\ reg_item'[j].state = reg_item[j].state
                         /\ j # i => reg_item'[j] = reg_item[j] /\ cb'[j] = cb[j]
    <3>1. reg_item[i] \in ItemType
      BY <1>0, Zenon
    <3>2. Listing(reg_item[i], m).state = reg_item[i].state
      BY <3>1, ItemParts, ZenonT(30)
    <3> QED  BY <1>0, <2>1, <3>2, Zenon
  <2>4. \A j \in Items, n \in Modules : Carries(j, n)' => Carries(j, n)
    <3>1. \A j \in Items, n \in Modules : Asks(j, n)' => Asks(j, n)
      BY <2>1, Zenon DEF Asks
    <3>2. \A j \in Items, n \in Modules : Registers(cb'[j].msg, n) => Registers(cb[j].msg, n)
      BY <1>0, <2>1, <2>3, CbParts, Zenon DEF Registers
    <3> QED  BY <2>1, <3>1, <3>2, Zenon DEF Carries, Registers
  <2>5. \A j \in Items : reg_item[j].state = "unused" =>
            up'[j] = up[j] /\ cb'[j] = cb[j] /\ reg_item'[j] = reg_item[j]
    BY <2>1, <2>2, <2>3, Zenon
  <2>6. \A j \in Items : reg_item[j].state # "open" => down'[j] \subseteq down[j]
    BY <2>1, Zenon
  <2> QED  BY <2>1, <2>3, <2>4, <2>5, <2>6, OwnKept, Zenon
<1>3. CASE ForwardRequest(i) \/ ForwardMulticast(i) \/ ForwardAnswer(i)
  <2>1. cb[i] # Idle /\ reg_item[i].state # "unused"
    BY <1>3, CbParts, Zenon DEF ForwardRequest, ForwardMulticast, ForwardAnswer, Requests, Answers,
                         LiveInv
  <2>2. PICK k \in CbType : /\ cb' = [cb EXCEPT ![i] = k]
                            /\ \A m \in Modules : ~Registers(k.msg, m)
    BY <1>3, ForwardEffect, Zenon
  <2>3. /\ UNCHANGED <<reg_item, up, conn, init>>
        /\ \A j \in Items : /\ down'[j] # down[j] => reg_item[j].state = "open"
                            /\ \A m \in Modules : Told(j, m)' => Told(j, m)
    BY <1>3, ForwardEffect, Zenon
  <2>4. \A j \in Items, n \in Modules : Carries(j, n)' => Carries(j, n)
    <3>1. \A j \in Items, n \in Modules : Asks(j, n)' => Asks(j, n)
      BY <2>3, Zenon DEF Asks
    <3>2. \A j \in Items, n \in Modules : Registers(cb'[j].msg, n) => Registers(cb[j].msg, n)
      BY <1>0, <2>2, Zenon
    <3> QED  BY <2>3, <3>1, <3>2, Zenon DEF Carries, Registers
  <2>5. \A j \in Items : reg_item[j].state = "unused" => up'[j] = up[j] /\ cb'[j] = cb[j]
    BY <1>0, <2>1, <2>2, <2>3, Zenon
  <2>6. \A j \in Items : reg_item[j].state # "open" => down'[j] \subseteq down[j]
    BY <2>3, Zenon
  <2> QED  BY <2>3, <2>4, <2>5, <2>6, OwnKept, Zenon
<1> QED  BY <1>1, <1>2, <1>3, Zenon DEF PairAct

\* The steps that open and close a connection.
LEMMA OwnOpen ==
  ASSUME TypeOK, OwnInv, NEW p \in Processes, Connect(p)
  PROVE  OwnInv'
<1>0. reg_item \in [Items -> ItemType] /\ conn \in [Processes -> Items \cup {None}]
  BY TypeUses, Zenon
<1>1. PICK i \in Items : /\ reg_item[i] = Unused
                         /\ reg_item' = [reg_item EXCEPT ![i] = InState(@, "open")]
                         /\ conn' = [conn EXCEPT ![p] = i]
  BY Zenon DEF Connect
<1>2. UNCHANGED <<up, cb, down, init>>
  BY Zenon DEF Connect
<1>3. reg_item[i] \in ItemType /\ reg_item[i].state = "unused"
  BY <1>0, <1>1, ItemParts, Zenon
<1>4. InState(reg_item[i], "open").state = "open"
  BY <1>3, ItemParts, Zenon
<1>5. \A j \in Items : IF j = i THEN reg_item'[j].state = "open" ELSE reg_item'[j] = reg_item[j]
  BY <1>0, <1>1, <1>4, Zenon
<1>6. \A j \in Items, m \in Modules : Carries(j, m)' <=> Carries(j, m)
  BY <1>2, Zenon DEF Carries, Asks, Told, Registers
<1>7. \A m \in Modules : ~Carries(i, m)
  <2>1. up[i] = <<>> /\ cb[i] = Idle /\ down[i] = {}
    BY <1>3, Zenon DEF OwnInv
  <2> QED  BY <2>1, CbParts DEF Carries, Asks, Told, Registers
<1>8. \A q \in Processes : conn[q] # i
  BY <1>3, Zenon DEF OwnInv
<1>9. ASSUME NEW j \in Items
      PROVE  /\ reg_item'[j].state = "unused" => /\ up'[j] = <<>> /\ cb'[j] = Idle
                                                 /\ reg_item'[j] = Unused
             /\ reg_item'[j].state # "open" => down'[j] = {}
  BY <1>2, <1>5, Zenon DEF OwnInv
<1>10. \A q, r \in Processes : conn'[q] = conn'[r] /\ conn'[q] # None => q = r
  BY <1>0, <1>1, <1>8, Zenon DEF OwnInv
<1>11. ASSUME NEW q \in Processes, conn'[q] = None  PROVE \A m \in Hosts[q] : init'[m] = "none"
  <2>1. i # None
    BY DaemonAssumption, Zenon DEF Items
  <2>2. conn[q] = None
    BY <1>0, <1>1, <1>11, <2>1, Zenon
  <2> QED  BY <1>2, <2>2, Zenon DEF OwnInv
<1>12. ASSUME NEW q \in Processes, NEW j \in Items, conn'[q] = j
       PROVE  reg_item'[j].state = "open" /\ \A m \in Modules : Carries(j, m)' => m \in Hosts[q]
  <2>1. CASE j = i
    BY <1>5, <1>6, <1>7, <2>1, Zenon
  <2>2. CASE j # i
    <3>1. conn[q] = j
      BY <1>0, <1>1, <1>12, <2>2, Zenon
    <3> QED  BY <1>5, <1>6, <2>2, <3>1 DEF OwnInv
  <2> QED  BY <2>1, <2>2, Zenon
<1> QED  BY <1>9, <1>10, <1>11, <1>12, Zenon DEF OwnInv

\* A process that dies keeps OwnInv: what it was sent goes with it.
LEMMA OwnExit ==
  ASSUME TypeOK, OwnInv, NEW p \in Processes, Exit(p)
  PROVE  OwnInv'
<1>0. /\ reg_item \in [Items -> ItemType] /\ conn \in [Processes -> Items \cup {None}]
      /\ down \in [Items -> SUBSET Messages]
  BY TypeUses, Zenon
<1> DEFINE i == conn[p]
<1> HIDE DEF i
<1>1. /\ i \in Items /\ i # None /\ conn[p] = i
      /\ down' = [down EXCEPT ![i] = {}]
      /\ reg_item' = [reg_item EXCEPT ![i] = InState(@, "lost")]
      /\ conn' = [conn EXCEPT ![p] = None]
      /\ init' = [m \in Modules |-> IF m \in Hosts[p] THEN "none" ELSE init[m]]
      /\ UNCHANGED <<up, cb>>
  BY <1>0, Zenon DEF Exit, i
<1>2. InState(reg_item[i], "lost").state = "lost"
  <2>1. reg_item[i] \in ItemType
    BY <1>0, <1>1, Zenon
  <2> QED  BY <2>1, ItemParts, Zenon
<1>3. \A j \in Items : IF j = i THEN reg_item'[j].state = "lost" /\ down'[j] = {}
                       ELSE reg_item'[j] = reg_item[j] /\ down'[j] = down[j]
  BY <1>0, <1>1, <1>2, Zenon
<1>4. \A j \in Items, m \in Modules : Carries(j, m)' => Carries(j, m)
  BY <1>1, <1>3, Zenon DEF Carries, Asks, Told, Registers
<1>5. ASSUME NEW j \in Items
      PROVE  /\ reg_item'[j].state = "unused" => /\ up'[j] = <<>> /\ cb'[j] = Idle
                                                 /\ reg_item'[j] = Unused
             /\ reg_item'[j].state # "open" => down'[j] = {}
  BY <1>1, <1>3 DEF OwnInv
<1>6. \A q \in Processes : conn'[q] # None => q # p /\ conn'[q] = conn[q]
  BY <1>0, <1>1, Zenon
<1>7. \A q, r \in Processes : conn'[q] = conn'[r] /\ conn'[q] # None => q = r
  BY <1>6 DEF OwnInv
<1>8. ASSUME NEW q \in Processes, conn'[q] = None, NEW m \in Hosts[q]  PROVE init'[m] = "none"
  <2>1. m \in Modules
    BY DaemonAssumption, Zenon
  <2>2. q = p \/ conn[q] = None
    BY <1>0, <1>1, <1>8, Zenon
  <2> QED  BY <1>1, <2>1, <2>2, Zenon DEF OwnInv
<1>9. ASSUME NEW q \in Processes, NEW j \in Items, conn'[q] = j
      PROVE  reg_item'[j].state = "open" /\ \A m \in Modules : Carries(j, m)' => m \in Hosts[q]
  <2>1. j # None
    BY DaemonAssumption, Zenon DEF Items
  <2>2. q # p /\ conn[q] = j
    BY <1>6, <1>9, <2>1, Zenon
  <2>3. j # i
    BY <1>1, <2>2, Zenon DEF OwnInv
  <2> QED  BY <1>3, <1>4, <2>2, <2>3 DEF OwnInv
<1> QED  BY <1>5, <1>7, <1>8, <1>9, Zenon DEF OwnInv

\* unreg_cb keeps OwnInv: the connection it deletes has nothing under way.
LEMMA OwnUnreg ==
  ASSUME TypeOK, OwnInv, NEW i \in Items, unreg_cb(i)
  PROVE  OwnInv'
<1>0. reg_item \in [Items -> ItemType] /\ up \in [Items -> Seq(Messages)]
  BY TypeUses, Zenon
<1>1. /\ reg_item[i].state = "lost" /\ UNCHANGED <<cb, down, conn, init>>
      /\ \A j \in Items : IF j = i THEN reg_item'[j] = Deleted /\ up'[j] = <<>>
                          ELSE reg_item'[j] = reg_item[j] /\ up'[j] = up[j]
  BY <1>0, Zenon DEF unreg_cb, library
<1>2. Deleted.state = "deleted"
  BY Zenon DEF Deleted
<1>3. \A j \in Items, m \in Modules : j # i => (Carries(j, m)' => Carries(j, m))
  BY <1>1, Zenon DEF Carries, Asks, Told, Registers
<1>4. ASSUME NEW j \in Items
      PROVE  /\ reg_item'[j].state = "unused" => /\ up'[j] = <<>> /\ cb'[j] = Idle
                                                 /\ reg_item'[j] = Unused
             /\ reg_item'[j].state # "open" => down'[j] = {}
  BY <1>1, <1>2 DEF OwnInv
<1>5. ASSUME NEW q \in Processes, NEW j \in Items, conn'[q] = j
      PROVE  reg_item'[j].state = "open" /\ \A m \in Modules : Carries(j, m)' => m \in Hosts[q]
  <2>1. conn[q] = j /\ j # i
    BY <1>1, <1>5, Zenon DEF OwnInv
  <2> QED  BY <1>1, <1>3, <2>1 DEF OwnInv
<1> QED  BY <1>1, <1>4, <1>5 DEF OwnInv

\* The sends and receipts of the processes.
LEMMA OwnSends ==
  ASSUME TypeOK, OwnInv, NEW p \in Processes,
         \/ server_cb_recv(p)
         \/ \E m \in Hosts[p] : SendRegister(p, m) \/ GiveUp(m)
         \/ \E e \in Events : SendRequest(p, e)
  PROVE  OwnInv'
<1>0. \A q \in Processes : Hosts[q] \subseteq Modules
  BY DaemonAssumption, Zenon
<1>u. conn[p] \in Items => reg_item[conn[p]].state # "unused"
  BY Zenon DEF OwnInv
<1>1. CASE server_cb_recv(p)
  <2>1. /\ UNCHANGED <<reg_item, cb, conn>> /\ conn[p] \in Items
        /\ \A m \in Modules : init'[m] # init[m] => init[m] = "waiting"
        /\ \A j \in Items : /\ up'[j] # up[j] => j = conn[p]
                            /\ down'[j] \subseteq down[j]
                            /\ \A m \in Modules : Asks(j, m)' => Asks(j, m)
    BY <1>1, TakeEffect, Zenon
  <2>2. \A j \in Items, m \in Modules : Carries(j, m)' => Carries(j, m)
    BY <2>1, Zenon DEF Carries, Told, Registers
  <2>3. \A q \in Processes : conn[q] = None => \A m \in Hosts[q] : init'[m] = init[m]
    BY <1>0, <2>1 DEF OwnInv
  <2>4. \A j \in Items : reg_item[j].state = "unused" => up'[j] = up[j]
    BY <1>u, <2>1, Zenon
  <2> QED  BY <2>1, <2>2, <2>3, <2>4, OwnKept, Zenon
<1>2. ASSUME NEW m \in Hosts[p], SendRegister(p, m)  PROVE OwnInv'
  <2>1. /\ UNCHANGED <<reg_item, cb, down, conn>>
        /\ init' = [init EXCEPT ![m] = "waiting"] /\ conn[p] # None
        /\ \A j \in Items : /\ up'[j] # up[j] => j = conn[p]
                            /\ \A n \in Modules : Asks(j, n)' =>
                                  Asks(j, n) \/ (j = conn[p] /\ n = m)
    BY <1>2, SendEffect, Zenon
  <2>2. \A j \in Items, n \in Modules : Carries(j, n)' =>
           Carries(j, n) \/ \E q \in Processes : conn[q] = j /\ n \in Hosts[q]
    BY <2>1, Zenon DEF Carries, Told, Registers
  <2>3. ASSUME NEW q \in Processes, conn[q] = None, NEW n \in Hosts[q]
        PROVE  init'[n] = init[n]
    <3>1. n # m
      BY <2>1, <2>3, DaemonAssumption, Zenon
    <3> QED  BY <1>0, <2>1, <3>1, Zenon DEF TypeOK
  <2>4. \A j \in Items : reg_item[j].state = "unused" => up'[j] = up[j]
    BY <1>u, <2>1, Zenon
  <2> QED  BY <2>1, <2>2, <2>3, <2>4, OwnKept, Zenon
<1>3. ASSUME NEW m \in Hosts[p], GiveUp(m)  PROVE OwnInv'
  <2>1. /\ UNCHANGED <<reg_item, cb, down, conn, up>>
        /\ init' = [init EXCEPT ![m] = "failed"] /\ init[m] = "waiting"
    BY <1>3, Zenon DEF GiveUp, daemon
  <2>2. \A j \in Items, n \in Modules : Carries(j, n)' => Carries(j, n)
    BY <2>1, Zenon DEF Carries, Told, Registers, Asks
  <2>3. \A q \in Processes : conn[q] = None => \A n \in Hosts[q] : init'[n] = init[n]
    BY <1>0, <2>1 DEF OwnInv, TypeOK
  <2> QED  BY <2>1, <2>2, <2>3, OwnKept, Zenon
<1>4. ASSUME NEW e \in Events, SendRequest(p, e)  PROVE OwnInv'
  <2>1. /\ UNCHANGED <<reg_item, cb, down, conn, init>>
        /\ \A j \in Items : /\ up'[j] # up[j] => j = conn[p]
                            /\ \A n \in Modules : Asks(j, n)' => Asks(j, n)
    BY <1>4, SendEffect, Zenon
  <2>2. \A j \in Items, m \in Modules : Carries(j, m)' => Carries(j, m)
    BY <2>1, Zenon DEF Carries, Told, Registers
  <2>3. \A j \in Items : reg_item[j].state = "unused" => up'[j] = up[j]
    BY <1>u, <2>1, Zenon
  <2> QED  BY <2>1, <2>2, <2>3, OwnKept, Zenon
<1> QED  BY <1>1, <1>2, <1>3, <1>4, Zenon

\* A step that changes nothing of the connections.
LEMMA OwnQuiet ==
  ASSUME TypeOK, OwnInv,
         \/ \E e \in Unicast : proxy_expire_cb(e) \/ Elapse(e)
         \/ UNCHANGED vars
  PROVE  OwnInv'
<1>1. /\ UNCHANGED <<reg_item, cb, up, conn, init>>
      /\ \A j \in Items : /\ down'[j] # down[j] => reg_item[j].state = "open"
                          /\ \A m \in Modules : Told(j, m)' => Told(j, m)
  <2>1. CASE UNCHANGED <<reg_item, cb, up, conn, init, down>>
    BY <2>1, Zenon DEF Told
  <2>2. CASE \E e \in Unicast : proxy_expire_cb(e)
    BY <2>2, ExpireEffect, Zenon
  <2> QED  BY <2>1, <2>2, Zenon DEF Elapse, vars, daemon, library
<1>2. \A j \in Items, m \in Modules : Carries(j, m)' => Carries(j, m)
  BY <1>1, Zenon DEF Carries, Asks, Registers
<1>3. \A j \in Items : reg_item[j].state # "open" => down'[j] \subseteq down[j]
  BY <1>1, Zenon
<1> QED  BY <1>1, <1>2, <1>3, OwnKept, Zenon

\* Every action keeps OwnInv.
LEMMA OwnStep == TypeOK /\ LiveInv /\ OwnInv /\ [Next]_vars => OwnInv'
<1> SUFFICES ASSUME TypeOK, LiveInv, OwnInv, [Next]_vars  PROVE OwnInv'
  OBVIOUS
<1>1. CASE Receive
  BY <1>1, OwnReceive, Zenon DEF Receive
<1>2. CASE Timer \/ UNCHANGED vars
  BY <1>2, OwnQuiet, Zenon DEF Timer
<1>3. CASE \E i \in Items : unreg_cb(i)
  BY <1>3, OwnUnreg, Zenon
<1>4. CASE Client
  BY <1>4, OwnSends, OwnOpen, OwnExit, Zenon DEF Client
<1> QED  BY <1>1, <1>2, <1>3, <1>4, Zenon DEF Next

-----------------------------------------------------------------------------
(***************************************************************************)
(* A module that one connection at a time claims.                          *)
(***************************************************************************)

\* A step that changes neither the map nor the claims.
LEMMA ClaimKept ==
  ASSUME TypeOK, ClaimInv, UNCHANGED <<g_proxy_reg_map, claims, contested>>,
         \A i \in Items : reg_item'[i].list \subseteq reg_item[i].list,
         \A i \in Items, m \in Modules : Registers(cb'[i].msg, m) => cb'[i] = cb[i],
         \A i \in Items, m \in Modules : Told(i, m)' => Told(i, m)
  PROVE  ClaimInv'
  BY DEF ClaimInv, Registers

\* The first half of the callback: REGISTER claims the module.
LEMMA ClaimRecv ==
  ASSUME TypeOK, ClaimInv, NEW i \in Items, PairRecv(i)
  PROVE  ClaimInv'
<1> DEFINE msg == Head(up[i])
<1>1. msg \in Messages
  BY HeadTail, Zenon DEF PairRecv
<1>2. cb \in [Items -> CbType] /\ claims \in [Modules -> SUBSET Items]
      /\ \A m \in Modules : g_proxy_reg_map[m] \in Items \cup {None}
  BY TypeUses, Zenon
<1>3. /\ cb'[i].msg = msg /\ cb'[i].found = find_proxy_reg_item(msg)
      /\ \A j \in Items : j # i => cb'[j] = cb[j]
      /\ UNCHANGED <<reg_item, g_proxy_reg_map, down>> /\ Claim(i, msg)
  BY <1>2, Zenon DEF PairRecv
<1> HIDE DEF msg
<1>4. \A j \in Items, m \in Modules : Told(j, m)' => Told(j, m)
  BY <1>3, Zenon DEF Told
<1>5. CASE msg.type # "REGISTER"
  <2>1. UNCHANGED <<claims, contested>>
    BY <1>3, <1>5, Zenon DEF Claim
  <2>2. \A j \in Items, m \in Modules : Registers(cb'[j].msg, m) => cb'[j] = cb[j]
    BY <1>3, <1>5, Zenon DEF Registers
  <2> QED  BY <1>3, <1>4, <2>1, <2>2, ClaimKept, Zenon
<1>6. CASE msg.type = "REGISTER"
  <2> DEFINE m == msg.what
  <2> HIDE DEF m
  <2>1. /\ m \in Modules /\ cb'[i].found = g_proxy_reg_map[m]
        /\ claims' = [claims EXCEPT ![m] = @ \cup {i}]
        /\ contested' = IF claims[m] \subseteq {i} THEN contested ELSE contested \cup {m}
        /\ \A n : Registers(msg, n) => n = m
    BY <1>1, <1>3, <1>6, MessageWhat, Zenon DEF Claim, m, find_proxy_reg_item, Registers
  <2>2. ASSUME NEW n \in Modules \ contested'
        PROVE  /\ \A j, k \in claims'[n] : j = k
               /\ g_proxy_reg_map'[n] # None => g_proxy_reg_map'[n] \in claims'[n]
               /\ \A j \in Items :
                     /\ n \in reg_item'[j].list => j \in claims'[n]
                     /\ Registers(cb'[j].msg, n) =>
                           /\ j \in claims'[n]
                           /\ cb'[j].found # None => g_proxy_reg_map'[n] = j
                     /\ Told(j, n)' => g_proxy_reg_map'[n] = j
    <3>1. n \in Modules \ contested
      BY <2>1, Zenon
    <3>2. CASE n # m
      <4>1. claims'[n] = claims[n]
        BY <1>2, <2>1, <3>2, Zenon
      <4>2. \A j \in Items : Registers(cb'[j].msg, n) => cb'[j] = cb[j]
        BY <1>3, <2>1, <3>2, Zenon
      <4> QED  BY <1>3, <1>4, <3>1, <4>1, <4>2, SMTT(30) DEF ClaimInv
    <3>3. CASE n = m
      <4>1. claims[m] \subseteq {i} /\ claims'[m] = {i}
        BY <1>2, <2>1, <3>3, Zenon
      <4>2. \A j \in claims[m] : j = i
        BY <4>1, Zenon
      <4>3. g_proxy_reg_map[m] # None => g_proxy_reg_map[m] = i
        BY <3>1, <3>3, <4>2, Zenon DEF ClaimInv
      <4>4. \A j \in Items : /\ m \in reg_item[j].list => j = i
                             /\ Registers(cb[j].msg, m) => j = i
                             /\ Told(j, m) => g_proxy_reg_map[m] = j
        BY <3>1, <3>3, <4>2, Zenon DEF ClaimInv
      <4>5. \A j \in Items : Registers(cb'[j].msg, m) =>
               j = i /\ (cb'[j].found # None => g_proxy_reg_map[m] = j)
        BY <1>3, <2>1, <4>3, <4>4, ZenonT(60)
      <4> QED  BY <1>3, <1>4, <3>3, <4>1, <4>3, <4>4, <4>5, Zenon
    <3> QED  BY <3>2, <3>3, Zenon
  <2> QED  BY <2>2, Zenon DEF ClaimInv
<1> QED  BY <1>5, <1>6, Zenon

\* The second half: the entry of the module is this connection in the end.
LEMMA ClaimRegister ==
  ASSUME TypeOK, ClaimInv, NEW i \in Items, RegisterModule(i)
  PROVE  ClaimInv'
<1>0. /\ reg_item \in [Items -> ItemType] /\ cb \in [Items -> CbType]
      /\ g_proxy_reg_map \in [Modules -> Items \cup {None}]
  BY TypeUses, Zenon
<1>1. PICK m \in Modules :
            /\ Registers(cb[i].msg, m)
            /\ \/ cb[i].found # None /\ UNCHANGED <<reg_item, g_proxy_reg_map>>
               \/ /\ cb[i].found = None /\ g_proxy_reg_map' = Inserted(m, i)
                  /\ reg_item' = [reg_item EXCEPT ![i] = Listing(@, m)]
            /\ cb' = [cb EXCEPT ![i] = Idle]
            /\ UNCHANGED <<claims, contested>>
            /\ \A j \in Items : \A n \in Modules : Told(j, n)' =>
                  Told(j, n) \/ (j = i /\ n = m)
  BY RegisterEffect
<1>2. \A j \in Items, n \in Modules : n \in reg_item'[j].list =>
         n \in reg_item[j].list \/ (j = i /\ n = m)
  <2>1. reg_item[i] \in ItemType
    BY <1>0, Zenon
  <2>2. Listing(reg_item[i], m).list = reg_item[i].list \cup {m}
    BY <2>1, ItemParts
  <2> QED  BY <1>0, <1>1, <2>2
<1>3. \A j \in Items, n \in Modules : Registers(cb'[j].msg, n) => cb'[j] = cb[j] /\ j # i
  BY <1>0, <1>1, CbParts, Zenon DEF Registers
<1>4. \A n \in Modules : \/ g_proxy_reg_map'[n] = g_proxy_reg_map[n]
                         \/ n = m /\ g_proxy_reg_map[n] = None /\ g_proxy_reg_map'[n] = i
  BY <1>0, <1>1, Zenon DEF Inserted
<1>5. m \notin contested => i \in claims[m] /\ g_proxy_reg_map'[m] = i
  <2>1. ASSUME m \notin contested  PROVE i \in claims[m] /\ g_proxy_reg_map'[m] = i
    <3>1. i \in claims[m] /\ (cb[i].found # None => g_proxy_reg_map[m] = i)
      BY <1>1, <2>1, Zenon DEF ClaimInv
    <3>2. g_proxy_reg_map[m] # None => g_proxy_reg_map[m] = i
      BY <2>1, <3>1, Zenon DEF ClaimInv
    <3>3. CASE cb[i].found # None
      BY <1>1, <3>1, <3>3, Zenon
    <3>4. CASE cb[i].found = None
      <4>1. g_proxy_reg_map' = Inserted(m, i)
        BY <1>1, <3>4, Zenon
      <4> QED  BY <1>0, <3>1, <3>2, <4>1, Zenon DEF Inserted
    <3> QED  BY <3>3, <3>4, Zenon
  <2> QED  BY <2>1, Zenon
<1>6. ASSUME NEW n \in Modules \ contested
      PROVE  /\ \A j, k \in claims[n] : j = k
             /\ g_proxy_reg_map'[n] # None => g_proxy_reg_map'[n] \in claims[n]
             /\ \A j \in Items :
                   /\ n \in reg_item'[j].list => j \in claims[n]
                   /\ Registers(cb'[j].msg, n) =>
                         /\ j \in claims[n]
                         /\ cb'[j].found # None => g_proxy_reg_map'[n] = j
                   /\ Told(j, n)' => g_proxy_reg_map'[n] = j
  <2>1. /\ \A j, k \in claims[n] : j = k
        /\ g_proxy_reg_map[n] # None => g_proxy_reg_map[n] \in claims[n]
        /\ \A j \in Items :
              /\ n \in reg_item[j].list => j \in claims[n]
              /\ Registers(cb[j].msg, n) =>
                    /\ j \in claims[n]
                    /\ cb[j].found # None => g_proxy_reg_map[n] = j
              /\ Told(j, n) => g_proxy_reg_map[n] = j
    BY Zenon DEF ClaimInv
  <2>2. CASE n # m
    BY <1>1, <1>2, <1>3, <1>4, <2>1, <2>2, SMTT(30)
  <2>3. CASE n = m
    <3>1. i \in claims[n] /\ g_proxy_reg_map'[n] = i
      BY <1>5, <2>3, Zenon
    <3>2. \A j \in Items : Registers(cb'[j].msg, n) => FALSE
      BY <1>3, <2>1, <3>1, Zenon
    <3>3. \A j \in Items : Told(j, n)' => g_proxy_reg_map'[n] = j
      BY <1>1, <1>4, <2>1, <2>3, <3>1, DaemonAssumption, SMTT(30) DEF Items
    <3> QED  BY <1>2, <2>1, <2>3, <3>1, <3>2, <3>3, SMTT(30)
  <2> QED  BY <2>2, <2>3, Zenon
<1> QED  BY <1>1, <1>6 DEF ClaimInv

\* The entries a removal erases are those of the connection that goes.
LEMMA ClaimUnreg ==
  ASSUME TypeOK, LiveInv, OwnInv, ClaimInv, NEW i \in Items, unreg_cb(i)
  PROVE  /\ ClaimInv'
         /\ \A m \in Modules \ contested : g_proxy_reg_map'[m] # g_proxy_reg_map[m] =>
               g_proxy_reg_map[m] = i \/ g_proxy_reg_map[m] = None
<1>0. /\ reg_item \in [Items -> ItemType] /\ claims \in [Modules -> SUBSET Items]
      /\ g_proxy_reg_map \in [Modules -> Items \cup {None}]
  BY TypeUses, Zenon
<1>1. /\ reg_item[i].state = "lost" /\ cb[i] = Idle
      /\ \A m \in Modules : /\ g_proxy_reg_map'[m] = IF m \in reg_item[i].list THEN None
                                                     ELSE g_proxy_reg_map[m]
                            /\ claims'[m] = claims[m] \ {i}
      /\ \A j \in Items : reg_item'[j] = IF j = i THEN Deleted ELSE reg_item[j]
      /\ UNCHANGED <<cb, down, contested>>
  BY <1>0, Zenon DEF unreg_cb
<1>2. Deleted.list = {}
  BY Zenon DEF Deleted
<1>3. \A m \in Modules : g_proxy_reg_map'[m] # None =>
         g_proxy_reg_map'[m] = g_proxy_reg_map[m] /\ g_proxy_reg_map[m] # i
  BY <1>0, <1>1, Zenon DEF LiveInv, NoDanglingEntry
<1>4. \A m \in Modules : ~Told(i, m) /\ ~Registers(cb[i].msg, m)
  BY <1>1, CbParts, Zenon DEF OwnInv, Told, Registers
<1>5. \A j \in Items, m \in Modules : Told(j, m)' => Told(j, m)
  BY <1>1, Zenon DEF Told
<1>6. ASSUME NEW m \in Modules \ contested
      PROVE  /\ \A j, k \in claims'[m] : j = k
             /\ g_proxy_reg_map'[m] # None => g_proxy_reg_map'[m] \in claims'[m]
             /\ \A j \in Items :
                   /\ m \in reg_item'[j].list => j \in claims'[m]
                   /\ Registers(cb'[j].msg, m) =>
                         /\ j \in claims'[m]
                         /\ cb'[j].found # None => g_proxy_reg_map'[m] = j
                   /\ Told(j, m)' => g_proxy_reg_map'[m] = j
             /\ g_proxy_reg_map'[m] # g_proxy_reg_map[m] =>
                   g_proxy_reg_map[m] = i \/ g_proxy_reg_map[m] = None
  <2>1. /\ \A j, k \in claims[m] : j = k
        /\ g_proxy_reg_map[m] # None => g_proxy_reg_map[m] \in claims[m]
        /\ \A j \in Items :
              /\ m \in reg_item[j].list => j \in claims[m]
              /\ Registers(cb[j].msg, m) =>
                    /\ j \in claims[m]
                    /\ cb[j].found # None => g_proxy_reg_map[m] = j
              /\ Told(j, m) => g_proxy_reg_map[m] = j
    BY Zenon DEF ClaimInv
  <2>2. \A j \in Items : j # i /\ g_proxy_reg_map[m] = j => g_proxy_reg_map'[m] = j
    <3>1. ASSUME NEW j \in Items, j # i, g_proxy_reg_map[m] = j  PROVE m \notin reg_item[i].list
      <4>1. j # None
        BY DaemonAssumption, Zenon DEF Items
      <4> QED  BY <2>1, <3>1, <4>1, Zenon
    <3> QED  BY <1>1, <3>1, Zenon
  <2>3. \A j, k \in claims'[m] : j = k
    BY <1>1, <2>1
  <2>4. g_proxy_reg_map'[m] # None => g_proxy_reg_map'[m] \in claims'[m]
    BY <1>1, <1>3, <2>1, Zenon
  <2>5. \A j \in Items : m \in reg_item'[j].list => j \in claims'[m]
    BY <1>1, <1>2, <2>1, Zenon
  <2>6. \A j \in Items : Registers(cb'[j].msg, m) =>
           j \in claims'[m] /\ (cb'[j].found # None => g_proxy_reg_map'[m] = j)
    BY <1>1, <1>4, <2>1, <2>2, Zenon
  <2>7. \A j \in Items : Told(j, m)' => g_proxy_reg_map'[m] = j
    BY <1>4, <1>5, <2>1, <2>2, Zenon
  <2>8. g_proxy_reg_map'[m] # g_proxy_reg_map[m] =>
           g_proxy_reg_map[m] = i \/ g_proxy_reg_map[m] = None
    BY <1>0, <2>2, Zenon
  <2> QED  BY <2>3, <2>4, <2>5, <2>6, <2>7, <2>8, Zenon
<1> QED  BY <1>1, <1>6, Zenon DEF ClaimInv

\* Every action keeps ClaimInv.
LEMMA ClaimStep == TypeOK /\ LiveInv /\ OwnInv /\ ClaimInv /\ [Next]_vars => ClaimInv'
<1> SUFFICES ASSUME TypeOK, LiveInv, OwnInv, ClaimInv, [Next]_vars  PROVE ClaimInv'
  OBVIOUS
<1>0. reg_item \in [Items -> ItemType] /\ cb \in [Items -> CbType]
  BY TypeUses, Zenon
<1>q. ASSUME UNCHANGED <<reg_item, g_proxy_reg_map, cb, claims, contested>>,
             \A j \in Items, m \in Modules : Told(j, m)' => Told(j, m)
      PROVE  ClaimInv'
  BY <1>q, ClaimKept, Zenon
<1>1. ASSUME NEW i \in Items, PairRecv(i) \/ PairAct(i)  PROVE ClaimInv'
  <2>1. CASE ForwardRequest(i) \/ ForwardMulticast(i) \/ ForwardAnswer(i)
    <3>1. PICK k \in CbType : /\ cb' = [cb EXCEPT ![i] = k]
                              /\ \A m \in Modules : ~Registers(k.msg, m)
      BY <2>1, ForwardEffect, Zenon
    <3>2. /\ UNCHANGED <<reg_item, g_proxy_reg_map, claims, contested>>
          /\ \A j \in Items, m \in Modules : Told(j, m)' => Told(j, m)
      BY <2>1, ForwardEffect, Zenon
    <3>3. \A j \in Items, m \in Modules : Registers(cb'[j].msg, m) => cb'[j] = cb[j]
      BY <1>0, <3>1, Zenon
    <3> QED  BY <3>2, <3>3, ClaimKept, Zenon
  <2> QED  BY <1>1, <2>1, ClaimRecv, ClaimRegister, Zenon DEF PairAct
<1>2. CASE Timer \/ UNCHANGED vars
  <2>1. CASE UNCHANGED <<reg_item, g_proxy_reg_map, cb, claims, contested, down>>
    BY <1>q, <2>1, Zenon DEF Told
  <2>2. ASSUME NEW e \in Unicast, proxy_expire_cb(e)  PROVE ClaimInv'
    BY <1>q, <2>2, ExpireEffect, Zenon
  <2> QED  BY <1>2, <2>1, <2>2, Zenon DEF Timer, Elapse, vars, daemon, history
<1>3. ASSUME NEW i \in Items, unreg_cb(i)  PROVE ClaimInv'
  BY <1>3, ClaimUnreg, Zenon
<1>4. ASSUME NEW p \in Processes, Connect(p) \/ Exit(p)  PROVE ClaimInv'
  <2>1. conn[p] \in Items \cup {None} /\ down \in [Items -> SUBSET Messages]
    BY Zenon DEF TypeOK
  <2>2. PICK i \in Items, s \in {"open", "lost"} :
             /\ reg_item' = [reg_item EXCEPT ![i] = InState(@, s)]
             /\ UNCHANGED <<g_proxy_reg_map, cb, claims, contested>>
             /\ \A j \in Items : down'[j] \subseteq down[j]
    BY <1>4, <2>1, Zenon DEF Connect, Exit, history
  <2>3. InState(reg_item[i], s).list = reg_item[i].list
    BY <1>0, ItemParts
  <2>4. \A j \in Items : reg_item'[j].list \subseteq reg_item[j].list
    BY <1>0, <2>2, <2>3, Zenon
  <2>5. \A j \in Items, m \in Modules : Told(j, m)' => Told(j, m)
    BY <2>2, Zenon DEF Told
  <2> QED  BY <2>2, <2>4, <2>5, ClaimKept, Zenon
<1>5. ASSUME NEW p \in Processes, server_cb_recv(p)  PROVE ClaimInv'
  BY <1>q, <1>5, TakeEffect, Zenon DEF Told
<1>6. ASSUME NEW p \in Processes, NEW m \in Hosts[p], SendRegister(p, m) \/ GiveUp(m)
      PROVE  ClaimInv'
  BY <1>q, <1>6, SendEffect, Zenon DEF Told, GiveUp, daemon, history
<1>7. ASSUME NEW p \in Processes, NEW e \in Events, SendRequest(p, e)  PROVE ClaimInv'
  BY <1>q, <1>7, SendEffect, Zenon DEF Told
<1>8. CASE Client
  BY <1>4, <1>5, <1>6, <1>7, <1>8, Zenon DEF Client
<1> QED  BY <1>1, <1>2, <1>3, <1>8, Zenon DEF Next, Receive

-----------------------------------------------------------------------------
(***************************************************************************)
(* A module whose init is done is reachable.                               *)
(***************************************************************************)

\* A step that ends no init and keeps the entries of the open connections.
LEMMA ReachKept ==
  ASSUME OwnInv, SoleClaimIsReachable, UNCHANGED conn, contested \subseteq contested',
         \A m \in Modules : init'[m] = "done" => init[m] = "done",
         \A m \in Modules \ contested' : \A p \in Processes :
            conn[p] # None /\ g_proxy_reg_map[m] = conn[p] =>
               g_proxy_reg_map'[m] = g_proxy_reg_map[m]
  PROVE  SoleClaimIsReachable'
<1>1. \A p \in Processes : Hosts[p] \subseteq Modules
  BY DaemonAssumption, Zenon
<1>2. \A p \in Processes : \A m \in Hosts[p] : init[m] = "done" => conn[p] # None
  BY Zenon DEF OwnInv
<1> QED  BY <1>1, <1>2, Zenon DEF SoleClaimIsReachable

\* Every action keeps SoleClaimIsReachable, given the other invariants.
LEMMA ReachStep ==
  TypeOK /\ LiveInv /\ OwnInv /\ ClaimInv /\ SoleClaimIsReachable /\ [Next]_vars
    => SoleClaimIsReachable'
<1> SUFFICES ASSUME TypeOK, LiveInv, OwnInv, ClaimInv, SoleClaimIsReachable, [Next]_vars
             PROVE  SoleClaimIsReachable'
  OBVIOUS
<1>0. \A p \in Processes : Hosts[p] \subseteq Modules
  BY DaemonAssumption, Zenon
<1>q. ASSUME UNCHANGED <<g_proxy_reg_map, conn, contested>>,
             \A m \in Modules : init'[m] = "done" => init[m] = "done"
      PROVE  SoleClaimIsReachable'
  BY <1>q, ReachKept, Zenon
<1>1. ASSUME NEW i \in Items, PairRecv(i)  PROVE SoleClaimIsReachable'
  <2>1. UNCHANGED <<g_proxy_reg_map, conn, init>> /\ contested \subseteq contested'
    BY <1>1, Zenon DEF PairRecv, Claim, library
  <2> QED  BY <2>1, ReachKept, Zenon
<1>2. ASSUME NEW i \in Items, PairAct(i)  PROVE SoleClaimIsReachable'
  <2>1. CASE ForwardRequest(i) \/ ForwardMulticast(i) \/ ForwardAnswer(i)
    BY <1>q, <2>1, ForwardEffect, Zenon
  <2>2. CASE RegisterModule(i)
    <3>1. UNCHANGED <<conn, init, contested>>
      BY <2>2, RegisterEffect, Zenon
    <3>2. g_proxy_reg_map' = g_proxy_reg_map
          \/ \E m \in Modules : g_proxy_reg_map' = Inserted(m, i)
      BY <2>2, RegisterEffect, Zenon
    <3>3. \A m \in Modules : g_proxy_reg_map[m] # None => g_proxy_reg_map'[m] = g_proxy_reg_map[m]
      BY <3>2, Zenon DEF Inserted, TypeOK
    <3> QED  BY <3>1, <3>3, ReachKept, Zenon
  <2> QED  BY <1>2, <2>1, <2>2, Zenon DEF PairAct
<1>3. CASE Timer \/ UNCHANGED vars
  BY <1>q, <1>3, Zenon DEF Timer, proxy_expire_cb, Elapse, vars, daemon, library, history
<1>4. ASSUME NEW i \in Items, unreg_cb(i)  PROVE SoleClaimIsReachable'
  <2>1. UNCHANGED <<conn, init, contested>> /\ reg_item[i].state = "lost"
    BY <1>4, Zenon DEF unreg_cb, library
  <2>2. \A p \in Processes : conn[p] # i
    BY <2>1, Zenon DEF OwnInv
  <2>3. \A m \in Modules \ contested : g_proxy_reg_map'[m] # g_proxy_reg_map[m] =>
           g_proxy_reg_map[m] = i \/ g_proxy_reg_map[m] = None
    BY <1>4, ClaimUnreg, Zenon
  <2> QED  BY <2>1, <2>2, <2>3, ReachKept, Zenon
<1>5. ASSUME NEW p \in Processes, Connect(p)  PROVE SoleClaimIsReachable'
  <2>1. UNCHANGED <<g_proxy_reg_map, init, contested>> /\ conn[p] = None
        /\ \A q \in Processes : q # p => conn'[q] = conn[q]
    BY <1>5, Zenon DEF Connect, history, TypeOK
  <2>2. \A m \in Hosts[p] : init[m] # "done"
    BY <2>1, Zenon DEF OwnInv
  <2> QED  BY <2>1, <2>2, Zenon DEF SoleClaimIsReachable
<1>6. ASSUME NEW p \in Processes, Exit(p)  PROVE SoleClaimIsReachable'
  <2>1. /\ UNCHANGED <<g_proxy_reg_map, contested>>
        /\ \A m \in Modules : init'[m] = IF m \in Hosts[p] THEN "none" ELSE init[m]
        /\ \A q \in Processes : q # p => conn'[q] = conn[q]
    BY <1>6, Zenon DEF Exit, history, TypeOK
  <2> QED  BY <1>0, <2>1 DEF SoleClaimIsReachable
<1>7. ASSUME NEW p \in Processes, server_cb_recv(p)  PROVE SoleClaimIsReachable'
  <2>1. /\ UNCHANGED <<g_proxy_reg_map, conn, contested>> /\ conn[p] \in Items
        /\ \A m \in Modules : init'[m] # init[m] => Told(conn[p], m)
    BY <1>7, TakeEffect, Zenon
  <2>2. \A m \in Modules : Told(conn[p], m) => m \in Hosts[p]
    BY <2>1, Zenon DEF OwnInv, Carries
  <2>3. \A m \in Modules \ contested : Told(conn[p], m) => g_proxy_reg_map[m] = conn[p]
    BY <2>1, Zenon DEF ClaimInv
  <2>4. ASSUME NEW q \in Processes, NEW m \in Hosts[q] \ contested, init'[m] = "done"
        PROVE  g_proxy_reg_map[m] = conn[q]
    <3>1. CASE init'[m] = init[m]
      BY <2>4, <3>1, Zenon DEF SoleClaimIsReachable
    <3>2. CASE init'[m] # init[m]
      <4>1. m \in Modules /\ Told(conn[p], m)
        BY <1>0, <2>1, <3>2, Zenon
      <4>2. q = p
        BY <2>2, <4>1, DaemonAssumption, Zenon
      <4> QED  BY <2>3, <4>1, <4>2, Zenon
    <3> QED  BY <3>1, <3>2, Zenon
  <2> QED  BY <2>1, <2>4, Zenon DEF SoleClaimIsReachable
<1>8. ASSUME NEW p \in Processes, NEW m \in Hosts[p], SendRegister(p, m) \/ GiveUp(m)
      PROVE  SoleClaimIsReachable'
  <2>1. UNCHANGED <<g_proxy_reg_map, conn, contested>>
        /\ \E s \in {"waiting", "failed"} : init' = [init EXCEPT ![m] = s]
    BY <1>8, Zenon DEF SendRegister, GiveUp, daemon, history
  <2> QED  BY <1>q, <2>1, Zenon DEF TypeOK
<1>9. ASSUME NEW p \in Processes, NEW e \in Events, SendRequest(p, e)
      PROVE  SoleClaimIsReachable'
  BY <1>q, <1>9, SendEffect, Zenon
<1>10. CASE Client
  BY <1>5, <1>6, <1>7, <1>8, <1>9, <1>10, Zenon DEF Client
<1> QED  BY <1>1, <1>2, <1>3, <1>4, <1>10, Zenon DEF Next, Receive

\* A module whose init has returned success is in g_proxy_reg_map under the
\* connection of its own process, for any number of processes, as long as no two
\* connections that are not cleaned up have registered it.
THEOREM SoleClaimIsReachableThm == Spec => []SoleClaimIsReachable
<1>1. Init => LiveInv /\ OwnInv /\ ClaimInv /\ SoleClaimIsReachable
  <2> SUFFICES ASSUME Init  PROVE LiveInv /\ OwnInv /\ ClaimInv /\ SoleClaimIsReachable
    OBVIOUS
  <2>1. \A i \in Items : reg_item[i] = Unused /\ cb[i] = Idle /\ up[i] = <<>> /\ down[i] = {}
    BY Zenon DEF Init
  <2>2. \A i \in Items, m \in Modules : ~Told(i, m) /\ ~Registers(cb[i].msg, m)
    BY <2>1, CbParts, Zenon DEF Told, Registers
  <2>3. LiveInv
    BY Zenon DEF Init, LiveInv, NoDanglingEntry
  <2>4. OwnInv
    BY <2>1, DaemonAssumption, Zenon DEF Init, OwnInv, Items
  <2>5. ClaimInv
    BY <2>1, <2>2, Zenon DEF Init, ClaimInv, Unused
  <2> QED  BY <2>3, <2>4, <2>5, DaemonAssumption, Zenon DEF Init, SoleClaimIsReachable
<1>2. Spec => []TypeOK
  BY TypeCorrect, Zenon
<1> QED  BY <1>1, <1>2, LiveStep, OwnStep, ClaimStep, ReachStep, PTL DEF Spec

-----------------------------------------------------------------------------
(***************************************************************************)
(* A request is in one place.  In(e, k, i, x) says that request e is       *)
(* nowhere but at place x of connection i, in the queue, among the         *)
(* messages to the process, in the callback or parked, as k says.          *)
(***************************************************************************)
UpAt(i, n, e) == n \in 1..Len(up[i]) /\ About(up[i][n], e)
DownAt(i, msg, e) == msg \in down[i] /\ About(msg, e)
CbAt(i, e) == About(cb[i].msg, e)
ParkedAt(e) == parked[e] # None

In(e, k, i, x) ==
    /\ \A j \in Items, n \in Nat : UpAt(j, n, e) => k = "up" /\ j = i /\ n = x
    /\ \A j \in Items, msg \in Messages : DownAt(j, msg, e) => k = "down" /\ j = i /\ msg = x
    /\ \A j \in Items : CbAt(j, e) => k = "cb" /\ j = i
    /\ ParkedAt(e) => k = "parked"

Nowhere(e) == In(e, "none", None, None)

\* A multicast is not taken for a request of one destination.
KindInv ==
    \A i \in Items :
       /\ \A n \in Nat : n \in 1..Len(up[i]) /\ up[i][n].type = "MULT_REQ" => up[i][n].what \notin Unicast
       /\ cb[i].msg.type = "MULT_REQ" => cb[i].msg.what \notin Unicast

PlaceInv ==
    \A e \in Unicast : /\ \E k, i, x : In(e, k, i, x)
                       /\ fate[e] = "none" => Nowhere(e)

\* The step brings e to no new place.
Keeps(e) ==
    /\ \A j \in Items, n \in Nat : UpAt(j, n, e)' => UpAt(j, n, e)
    /\ \A j \in Items, msg \in Messages : DownAt(j, msg, e)' => DownAt(j, msg, e)
    /\ \A j \in Items : CbAt(j, e)' => CbAt(j, e)
    /\ ParkedAt(e)' => ParkedAt(e)

\* A request that comes to no new place stays in its one place.
LEMMA KeepsIn ==
  ASSUME NEW e, Keeps(e), NEW k, NEW i, NEW x, In(e, k, i, x)
  PROVE  In(e, k, i, x)'
BY Zenon DEF Keeps, In

\* A request that is somewhere has been asked.
LEMMA Asked ==
  ASSUME PlaceInv, NEW e \in Unicast,
         \/ \E j \in Items, n \in Nat : UpAt(j, n, e)
         \/ \E j \in Items, msg \in Messages : DownAt(j, msg, e)
         \/ \E j \in Items : CbAt(j, e)
         \/ ParkedAt(e)
  PROVE  fate[e] # "none"
<1> SUFFICES ASSUME fate[e] = "none"  PROVE FALSE
  OBVIOUS
<1>1. Nowhere(e)
  BY Zenon DEF PlaceInv
<1> QED  BY <1>1, Zenon DEF Nowhere, In

\* The fate of a request is never taken back.
LEMMA FateStays ==
  ASSUME TypeOK, [Next]_vars, NEW e \in Events, fate[e] # "none"
  PROVE  fate'[e] # "none"
<1>1. ASSUME NEW es, NEW f \in {"asked", "handed", "answered", "lost"}, fate' = Fated(es, f)
      PROVE  fate'[e] # "none"
  BY <1>1, Zenon DEF Fated
<1>2. CASE fate' = fate
  BY <1>2, Zenon
<1>3. ASSUME NEW g, NEW i, fate' = Handed(g, i)  PROVE fate'[e] # "none"
  BY <1>1, <1>3, Zenon DEF Handed
<1>4. ASSUME NEW i \in Items, PairRecv(i) \/ PairAct(i) \/ unreg_cb(i)  PROVE fate'[e] # "none"
  BY <1>1, <1>2, <1>3, <1>4, ZenonT(30) DEF PairRecv, PairAct, RegisterModule, ForwardRequest,
     ForwardMulticast, ForwardAnswer, unreg_cb, history
<1>5. ASSUME NEW g \in Unicast, proxy_expire_cb(g) \/ Elapse(g)  PROVE fate'[e] # "none"
  BY <1>1, <1>2, <1>3, <1>5, Zenon DEF proxy_expire_cb, Elapse, history
<1>6. ASSUME Client  PROVE fate'[e] # "none"
  BY <1>1, <1>2, <1>6, ZenonT(30) DEF Client, Connect, server_cb_recv, Exit, SendRegister, GiveUp,
     SendRequest, history
<1>7. CASE UNCHANGED vars
  BY <1>2, <1>7, Zenon DEF vars, history
<1> QED  BY <1>4, <1>5, <1>6, <1>7, Zenon DEF Next, Receive, Timer

\* The rest of the queue: what was at n + 1 is at n.
LEMMA UpTail ==
  ASSUME TypeOK, NEW i \in Items, up[i] # <<>>, up' = [up EXCEPT ![i] = Tail(@)],
         NEW j \in Items, NEW n \in Nat
  PROVE  /\ n \in 1..Len(up'[j]) =>
               IF j = i THEN n + 1 \in 1..Len(up[i]) /\ up'[j][n] = up[i][n + 1] /\ n + 1 # 1
               ELSE up'[j] = up[j]
         /\ 1 \in 1..Len(up[i]) /\ Head(up[i]) = up[i][1]
<1>1. up \in [Items -> Seq(Messages)] /\ up[i] \in Seq(Messages)
  BY TypeUses, Zenon
<1>2. /\ Len(up[i]) \in Nat \ {0} /\ Head(up[i]) = up[i][1]
      /\ Len(Tail(up[i])) = Len(up[i]) - 1
      /\ \A k \in 1..Len(Tail(up[i])) : Tail(up[i])[k] = up[i][k + 1]
  BY <1>1
<1>3. 1 \in 1..Len(up[i])
  BY <1>2
<1>4. CASE j = i
  <2>1. up'[j] = Tail(up[i])
    BY <1>1, <1>4, Zenon
  <2>2. n \in 1..Len(Tail(up[i])) => n + 1 \in 1..Len(up[i]) /\ n + 1 # 1
    BY <1>2
  <2> QED  BY <1>2, <1>3, <1>4, <2>1, <2>2, Zenon
<1>5. CASE j # i
  <2>1. up'[j] = up[j]
    BY <1>1, <1>5, Zenon
  <2> QED  BY <1>2, <1>3, <1>5, <2>1, Zenon
<1> QED  BY <1>4, <1>5, Zenon

\* A longer queue: what is new is the message at the end.
LEMMA UpAppend ==
  ASSUME TypeOK, NEW i \in Items, NEW msg \in Messages, Submit(i, msg),
         NEW j \in Items, NEW n \in Nat, n \in 1..Len(up'[j])
  PROVE  \/ n \in 1..Len(up[j]) /\ up'[j][n] = up[j][n]
         \/ j = i /\ n = Len(up[i]) + 1 /\ up'[j][n] = msg
<1>1. up \in [Items -> Seq(Messages)] /\ up[i] \in Seq(Messages) /\ up[j] \in Seq(Messages)
  BY TypeUses, Zenon
<1>2. up'[j] = IF j = i THEN Append(up[i], msg) ELSE up[j]
  BY <1>1, Zenon DEF Submit
<1>3. CASE j = i
  <2>1. /\ Len(Append(up[i], msg)) = Len(up[i]) + 1 /\ Len(up[i]) \in Nat
        /\ \A k \in 1 .. Len(up[i]) + 1 :
              Append(up[i], msg)[k] = IF k = Len(up[i]) + 1 THEN msg ELSE up[i][k]
    BY <1>1
  <2>2. n \in 1 .. Len(up[i]) + 1
    BY <1>2, <1>3, <2>1, Zenon
  <2>3. CASE n = Len(up[i]) + 1
    BY <1>2, <1>3, <2>1, <2>2, <2>3, Zenon
  <2>4. CASE n # Len(up[i]) + 1
    <3>1. n \in 1..Len(up[i])
      BY <2>1, <2>2, <2>4
    <3> QED  BY <1>2, <1>3, <2>1, <2>2, <2>4, <3>1, ZenonT(60)
  <2> QED  BY <2>3, <2>4, Zenon
<1>4. CASE j # i
  BY <1>2, <1>4, Zenon
<1> QED  BY <1>3, <1>4, Zenon

\* Nothing but an event is what a request or an answer is about.
LEMMA AboutParts ==
  /\ \A e \in Events : ~About(Idle.msg, e)
  /\ \A e, m, r : ~About(Message("REGISTER", m, r), e)
  /\ \A e \in Events : \A f : /\ About(Request(e), f) => f = e
                              /\ \A r : About(Answer(e, r), f) => f = e
<1>1. \A e \in Events : ~About(Idle.msg, e)
  BY DaemonAssumption, Zenon DEF About, Idle, Message
<1>2. \A e, m, r : ~About(Message("REGISTER", m, r), e)
  BY Zenon DEF About, Message
<1>3. \A e \in Events : \A f : /\ About(Request(e), f) => f = e
                               /\ \A r : About(Answer(e, r), f) => f = e
  BY Zenon DEF About, Request, Answer, Message
<1> QED  BY <1>1, <1>2, <1>3, Zenon

\* What is sent to a connection is new there, and nowhere else.
LEMMA DownSent ==
  ASSUME TypeOK, NEW t \in Items \cup {None}, NEW mm \in Messages, down' = Sent(down, t, mm),
         NEW j \in Items, NEW msg \in down'[j]
  PROVE  msg \in down[j] \/ (j = t /\ msg = mm)
<1>1. down \in [Items -> SUBSET Messages]
  BY Zenon DEF TypeOK
<1>2. down'[j] \subseteq down[j] \cup {mm} /\ (j # t => down'[j] = down[j])
  BY <1>1, SentParts
<1> QED  BY <1>2, Zenon

\* What is sent about another request is not new for e.
LEMMA DownOther ==
  ASSUME TypeOK, NEW t \in Items \cup {None}, NEW mm \in Messages, down' = Sent(down, t, mm),
         NEW e, ~About(mm, e)
  PROVE  \A j \in Items, msg \in Messages : DownAt(j, msg, e)' => DownAt(j, msg, e)
<1> SUFFICES ASSUME NEW j \in Items, NEW msg \in down'[j], About(msg, e)
             PROVE  msg \in down[j]
  BY Zenon DEF DownAt
<1>1. msg \in down[j] \/ (j = t /\ msg = mm)
  BY DownSent
<1> QED  BY <1>1, Zenon

\* A callback that is done.
LEMMA CbDone ==
  ASSUME TypeOK, NEW i \in Items, cb' = [cb EXCEPT ![i] = Idle], NEW e \in Events,
         NEW j \in Items, CbAt(j, e)'
  PROVE  j # i /\ CbAt(j, e)
<1>1. cb'[j] = IF j = i THEN Idle ELSE cb[j]
  BY TypeUses, Zenon
<1> QED  BY <1>1, AboutParts, Zenon DEF CbAt

\* A callback that starts takes its request from the queue.
LEMMA PlaceRecv ==
  ASSUME TypeOK, PlaceInv, NEW i \in Items, PairRecv(i), NEW e \in Unicast, fate'[e] = fate[e]
  PROVE  (\E k, j, x : In(e, k, j, x)') /\ (fate'[e] = "none" => Nowhere(e)')
<1> DEFINE head == Head(up[i])
<1>0. /\ up[i] # <<>> /\ up' = [up EXCEPT ![i] = Tail(@)]
      /\ down' = down /\ parked' = parked /\ e \in Events
      /\ cb' = [cb EXCEPT ![i] =
                   [msg |-> head, found |-> find_proxy_reg_item(head),
                    todo |-> IF head.type = "MULT_REQ" THEN Dests[head.what] ELSE {}]]
  BY Zenon DEF PairRecv, Unicast
<1>1. /\ \A j \in Items, n \in Nat : UpAt(j, n, e)' =>
            IF j = i THEN UpAt(i, n + 1, e) /\ n + 1 # 1 /\ n + 1 \in Nat ELSE UpAt(j, n, e)
      /\ About(head, e) => UpAt(i, 1, e)
  <2>1. 1 \in 1..Len(up[i]) /\ head = up[i][1]
    BY <1>0, UpTail
  <2>2. \A n \in Nat : n + 1 \in Nat
    OBVIOUS
  <2>3. \A j \in Items, n \in Nat : n \in 1..Len(up'[j]) =>
           IF j = i THEN n + 1 \in 1..Len(up[i]) /\ up'[j][n] = up[i][n + 1] /\ n + 1 # 1
           ELSE up'[j] = up[j]
    BY <1>0, UpTail, ZenonT(30)
  <2> QED  BY <2>1, <2>2, <2>3, Zenon DEF UpAt
<1>2. \A j \in Items : CbAt(j, e)' => IF j = i THEN About(head, e) ELSE CbAt(j, e)
  BY <1>0, TypeUses, Zenon DEF CbAt
<1>3. /\ \A j \in Items, msg \in Messages : DownAt(j, msg, e)' => DownAt(j, msg, e)
      /\ ParkedAt(e)' => ParkedAt(e)
  BY <1>0, Zenon DEF DownAt, ParkedAt
<1> HIDE DEF head
<1>4. 1 \in Nat
  OBVIOUS
<1>5. PICK k, i0, x : In(e, k, i0, x)
  BY Zenon DEF PlaceInv
<1>6. CASE About(head, e)
  <2>1. k = "up" /\ i0 = i /\ x = 1
    BY <1>1, <1>4, <1>5, <1>6, Zenon DEF In
  <2>2. In(e, "cb", i, 0)'
    <3>1. \A j \in Items, n \in Nat : ~UpAt(j, n, e)'
      BY <1>1, <1>5, <2>1, Zenon DEF In
    <3>2. \A j \in Items, msg \in Messages : ~DownAt(j, msg, e)'
      BY <1>3, <1>5, <2>1, Zenon DEF In
    <3>3. \A j \in Items : CbAt(j, e)' => j = i
      BY <1>2, <1>5, <2>1, Zenon DEF In
    <3>4. ~ParkedAt(e)'
      BY <1>3, <1>5, <2>1, Zenon DEF In
    <3> QED  BY <3>1, <3>2, <3>3, <3>4, Zenon DEF In
  <2>3. fate'[e] # "none"
    BY <1>1, <1>4, <1>6, Asked, Zenon
  <2> QED  BY <2>2, <2>3, Zenon
<1>7. CASE ~About(head, e)
  <2>1. ASSUME NEW kk, NEW jj, NEW y, In(e, kk, jj, y)
        PROVE  In(e, kk, jj, IF kk = "up" /\ jj = i THEN y - 1 ELSE y)'
    <3> DEFINE z == IF kk = "up" /\ jj = i THEN y - 1 ELSE y
    <3>1. ASSUME NEW j \in Items, NEW n \in Nat, UpAt(j, n, e)'
          PROVE  kk = "up" /\ j = jj /\ n = z
      <4>1. CASE j = i
        <5>1. kk = "up" /\ jj = i /\ n + 1 = y
          BY <1>1, <2>1, <3>1, <4>1, Zenon DEF In
        <5>2. n = y - 1
          BY <5>1
        <5> QED  BY <4>1, <5>1, <5>2, Zenon
      <4>2. CASE j # i
        BY <1>1, <2>1, <3>1, <4>2, Zenon DEF In
      <4> QED  BY <4>1, <4>2, Zenon
    <3>2. ASSUME NEW j \in Items, NEW msg \in Messages, DownAt(j, msg, e)'
          PROVE  kk = "down" /\ j = jj /\ msg = z
      BY <1>3, <2>1, <3>2, Zenon DEF In
    <3>3. \A j \in Items : CbAt(j, e)' => kk = "cb" /\ j = jj
      BY <1>2, <1>7, <2>1, Zenon DEF In
    <3>4. ParkedAt(e)' => kk = "parked"
      BY <1>3, <2>1, Zenon DEF In
    <3> HIDE DEF z
    <3>5. In(e, kk, jj, z)'
      BY <3>1, <3>2, <3>3, <3>4, Zenon DEF In
    <3> QED  BY <3>5, Zenon DEF z
  <2>2. fate'[e] = "none" => Nowhere(e)'
    <3> SUFFICES ASSUME fate'[e] = "none"  PROVE Nowhere(e)'
      OBVIOUS
    <3>1. In(e, "none", None, None)
      BY Zenon DEF PlaceInv, Nowhere
    <3>2. In(e, "none", None, None)'
      BY <2>1, <3>1, Zenon
    <3> QED  BY <3>2, Zenon DEF Nowhere
  <2> QED  BY <1>5, <2>1, <2>2, Zenon
<1> QED  BY <1>6, <1>7, Zenon

\* A callback that passes its message on, or parks it, takes the request along.
LEMMA PlaceForward ==
  ASSUME TypeOK, PlaceInv, NEW i \in Items, NEW f \in Events, CbAt(i, f),
         cb' = [cb EXCEPT ![i] = Idle], up' = up, NEW e \in Unicast,
         \/ /\ parked' = parked
            /\ \E t \in Items \cup {None}, mm \in Messages :
                  down' = Sent(down, t, mm) /\ \A g : About(mm, g) => g = f
         \/ down' = down /\ parked' = [parked EXCEPT ![f] = i]
  PROVE  Keeps(e) \/ (e = f /\ fate[e] # "none" /\ \E k, j, x : In(e, k, j, x)')
<1>0. e \in Events /\ down \in [Items -> SUBSET Messages] /\ parked \in [Events -> Items \cup {None}]
  BY TypeUses, Zenon DEF Unicast
<1>1. \A j \in Items : CbAt(j, e)' => j # i /\ CbAt(j, e)
  BY <1>0, CbDone, Zenon
<1>2. \A j \in Items, n \in Nat : UpAt(j, n, e)' => UpAt(j, n, e)
  BY Zenon DEF UpAt
<1>3. CASE e # f
  <2>1. \A j \in Items, msg \in Messages : DownAt(j, msg, e)' => DownAt(j, msg, e)
    <3>1. CASE down' = down
      BY <3>1, Zenon DEF DownAt
    <3>2. ASSUME NEW t \in Items \cup {None}, NEW mm \in Messages, down' = Sent(down, t, mm),
                 \A g : About(mm, g) => g = f
          PROVE  \A j \in Items, msg \in Messages : DownAt(j, msg, e)' => DownAt(j, msg, e)
      BY <1>3, <3>2, DownOther, Zenon
    <3> QED  BY <3>1, <3>2, Zenon
  <2>2. ParkedAt(e)' => ParkedAt(e)
    BY <1>0, <1>3, Zenon DEF ParkedAt
  <2> QED  BY <1>1, <1>2, <2>1, <2>2, Zenon DEF Keeps
<1>4. CASE e = f
  <2>1. PICK k, i0, x : In(e, k, i0, x)
    BY Zenon DEF PlaceInv
  <2>2. k = "cb" /\ i0 = i
    BY <1>4, <2>1, Zenon DEF In
  <2>3. /\ \A j \in Items, n \in Nat : ~UpAt(j, n, e)'
        /\ \A j \in Items : ~CbAt(j, e)'
        /\ \A j \in Items, msg \in Messages : ~DownAt(j, msg, e)
        /\ ~ParkedAt(e)
    BY <1>1, <1>2, <2>1, <2>2, Zenon DEF In
  <2>4. fate[e] # "none"
    BY <1>4, Asked, Zenon
  <2>5. ASSUME parked' = parked, NEW t \in Items \cup {None}, NEW mm \in Messages,
               down' = Sent(down, t, mm)
        PROVE  In(e, "down", t, mm)'
    <3>1. \A j \in Items, msg \in Messages : DownAt(j, msg, e)' => j = t /\ msg = mm
      BY <2>3, <2>5, DownSent, Zenon DEF DownAt
    <3>2. ~ParkedAt(e)'
      BY <2>3, <2>5, Zenon DEF ParkedAt
    <3> QED  BY <2>3, <3>1, <3>2, Zenon DEF In
  <2>6. CASE down' = down
    <3>1. \A j \in Items, msg \in Messages : ~DownAt(j, msg, e)'
      BY <2>3, <2>6, Zenon DEF DownAt
    <3>2. In(e, "parked", i, i)'
      BY <2>3, <3>1, Zenon DEF In
    <3> QED  BY <1>4, <2>4, <3>2, Zenon
  <2> QED  BY <1>4, <2>4, <2>5, <2>6, Zenon
<1> QED  BY <1>3, <1>4, Zenon

\* A callback that ends moves its request on, or leaves every request where it is.
LEMMA PlaceAct ==
  ASSUME TypeOK, KindInv, PlaceInv, NEW i \in Items, PairAct(i), NEW e \in Unicast
  PROVE  Keeps(e) \/ (fate[e] # "none" /\ \E k, j, x : In(e, k, j, x)')
<1> DEFINE f == cb[i].msg.what
<1>0. /\ cb[i].msg \in Messages \cup {Idle.msg} /\ cb[i].found \in Items \cup {None}
      /\ down \in [Items -> SUBSET Messages] /\ e \in Events /\ cb[i] \in CbType
      /\ cb \in [Items -> CbType] /\ cb[i].todo \subseteq Modules
  BY TypeUses, Zenon DEF Unicast
<1>1. CASE RegisterModule(i)
  <2>1. PICK r \in {0, -3} : down' = Sent(down, i, Message("REGISTER", f, r))
    BY <1>1, Zenon DEF RegisterModule
  <2>2. f \in Modules
    BY <1>0, <1>1, MessageWhat, Zenon DEF RegisterModule
  <2>3. Message("REGISTER", f, r) \in Messages /\ ~About(Message("REGISTER", f, r), e)
    BY <2>2, MessageParts, AboutParts, Zenon
  <2> HIDE DEF f
  <2>4. \A j \in Items, msg \in Messages : DownAt(j, msg, e)' => DownAt(j, msg, e)
    BY <2>1, <2>3, DownSent, Zenon DEF DownAt
  <2>5. cb' = [cb EXCEPT ![i] = Idle] /\ up' = up /\ parked' = parked
    BY <1>1, Zenon DEF RegisterModule
  <2>6. \A j \in Items : CbAt(j, e)' => CbAt(j, e)
    BY <1>0, <2>5, CbDone, Zenon
  <2> QED  BY <2>4, <2>5, <2>6, Zenon DEF Keeps, UpAt, ParkedAt
<1>2. ASSUME ForwardRequest(i) \/ ForwardAnswer(i)
      PROVE  Keeps(e) \/ (fate[e] # "none" /\ \E k, j, x : In(e, k, j, x)')
  <2>1. cb[i].msg.type \in DOMAIN ReplyType \cup Answers /\ cb[i].msg.type # "REGISTER"
    BY <1>2, Zenon DEF ForwardRequest, ForwardAnswer, Requests, Answers, ReplyType
  <2>2. cb[i].msg \in Messages /\ f \in Events /\ CbAt(i, f)
    BY <1>0, <2>1, MessageWhat, Zenon DEF CbAt, About
  <2>3. \A g : About(cb[i].msg, g) => g = f
    BY Zenon DEF About
  <2>4. Answer(f, -2) \in Messages /\ \A g : About(Answer(f, -2), g) => g = f
    BY <2>2, MessageParts, AboutParts, Zenon
  <2>5. cb' = [cb EXCEPT ![i] = Idle] /\ up' = up
    BY <1>2, Zenon DEF ForwardRequest, ForwardAnswer
  <2>6. \/ /\ parked' = parked
           /\ \/ down' = Sent(down, cb[i].found, cb[i].msg)
              \/ down' = Sent(down, i, Answer(f, -2))
        \/ down' = down /\ parked' = [parked EXCEPT ![f] = i]
    BY <1>2, Zenon DEF ForwardRequest, ForwardAnswer
  <2> HIDE DEF f
  <2>7. \/ /\ parked' = parked
           /\ \E t \in Items \cup {None}, mm \in Messages :
                 down' = Sent(down, t, mm) /\ \A g : About(mm, g) => g = f
        \/ down' = down /\ parked' = [parked EXCEPT ![f] = i]
    BY <1>0, <2>2, <2>3, <2>4, <2>6, Zenon
  <2> QED  BY <2>2, <2>5, <2>7, PlaceForward, Zenon
<1>3. CASE ForwardMulticast(i)
  <2>1. f \in Events /\ cb[i].msg \in Messages /\ f # e
    BY <1>0, <1>3, MessageWhat, Zenon DEF ForwardMulticast, KindInv
  <2>2. Answer(f, 0) \in Messages /\ ~About(Answer(f, 0), e) /\ ~About(cb[i].msg, e)
    BY <2>1, MessageParts, AboutParts, Zenon DEF About
  <2>3. \/ \E m \in cb[i].todo : /\ down' = Sent(down, g_proxy_reg_map[m], cb[i].msg)
                                 /\ cb' = [cb EXCEPT ![i] = Without(cb[i], m)]
        \/ down' = Sent(down, i, Answer(f, 0)) /\ cb' = [cb EXCEPT ![i] = Idle]
    BY <1>3, Zenon DEF ForwardMulticast
  <2>4. \A m \in cb[i].todo : g_proxy_reg_map[m] \in Items \cup {None}
    BY <1>0, TypeUses, Zenon
  <2> HIDE DEF f
  <2>5. \A j \in Items, msg \in Messages : DownAt(j, msg, e)' => DownAt(j, msg, e)
    BY <2>1, <2>2, <2>3, <2>4, DownOther, Zenon
  <2>6. \A j \in Items : CbAt(j, e)' => CbAt(j, e)
    <3>1. CASE cb' = [cb EXCEPT ![i] = Idle]
      BY <1>0, <3>1, CbDone, Zenon
    <3>2. ASSUME NEW m \in cb[i].todo, cb' = [cb EXCEPT ![i] = Without(cb[i], m)], NEW j \in Items
          PROVE  CbAt(j, e)' => CbAt(j, e)
      <4>1. Without(cb[i], m).msg = cb[i].msg
        BY <1>0, CbParts, Zenon
      <4>2. cb'[j] = IF j = i THEN Without(cb[i], m) ELSE cb[j]
        BY <1>0, <3>2, Zenon
      <4> QED  BY <4>1, <4>2, Zenon DEF CbAt
    <3> QED  BY <2>3, <3>1, <3>2, Zenon
  <2>7. up' = up /\ parked' = parked
    BY <1>3, Zenon DEF ForwardMulticast
  <2> QED  BY <2>5, <2>6, <2>7, Zenon DEF Keeps, UpAt, ParkedAt
<1> QED  BY <1>1, <1>2, <1>3, Zenon DEF PairAct

\* The timer hands a parked request on, answers it, or leaves it parked.
LEMMA PlaceExpire ==
  ASSUME TypeOK, PlaceInv, NEW f \in Unicast, proxy_expire_cb(f), NEW e \in Unicast
  PROVE  Keeps(e) \/ (fate[e] # "none" /\ \E k, j, x : In(e, k, j, x)')
<1>0. /\ e \in Events /\ f \in Events /\ down \in [Items -> SUBSET Messages]
      /\ parked \in [Events -> Items \cup {None}] /\ parked[f] \in Items \cup {None}
      /\ g_proxy_reg_map[Dest(f)] \in Items \cup {None}
  BY TypeUses, DestModule, Zenon DEF Unicast
<1>1. up' = up /\ cb' = cb /\ ParkedAt(f)
  BY Zenon DEF proxy_expire_cb, ParkedAt
<1>2. \A msg \in {Request(f), Answer(f, -8)} : msg \in Messages /\ \A g : About(msg, g) => g = f
  BY <1>0, MessageParts, AboutParts, Zenon
<1>3. \/ down' = down /\ parked' = parked
      \/ /\ parked' = [parked EXCEPT ![f] = None]
         /\ \/ down' = Sent(down, g_proxy_reg_map[Dest(f)], Request(f))
            \/ down' = Sent(down, parked[f], Answer(f, -8))
  BY Zenon DEF proxy_expire_cb
<1>4. CASE down' = down /\ parked' = parked
  BY <1>1, <1>4, Zenon DEF Keeps, UpAt, DownAt, CbAt, ParkedAt
<1>5. ASSUME NEW t \in Items \cup {None}, NEW mm \in Messages, \A g : About(mm, g) => g = f,
             down' = Sent(down, t, mm), parked' = [parked EXCEPT ![f] = None]
      PROVE  Keeps(e) \/ (fate[e] # "none" /\ \E k, j, x : In(e, k, j, x)')
  <2>1. CASE e # f
    <3>1. \A j \in Items, msg \in Messages : DownAt(j, msg, e)' => DownAt(j, msg, e)
      BY <1>5, <2>1, DownOther, Zenon
    <3>2. ParkedAt(e)' => ParkedAt(e)
      BY <1>0, <1>5, <2>1, Zenon DEF ParkedAt
    <3> QED  BY <1>1, <3>1, <3>2, Zenon DEF Keeps, UpAt, CbAt
  <2>2. CASE e = f
    <3>1. PICK k, i0, x : In(e, k, i0, x)
      BY Zenon DEF PlaceInv
    <3>2. k = "parked"
      BY <1>1, <2>2, <3>1, Zenon DEF In
    <3>3. /\ \A j \in Items, n \in Nat : ~UpAt(j, n, e)'
          /\ \A j \in Items : ~CbAt(j, e)'
          /\ \A j \in Items, msg \in Messages : ~DownAt(j, msg, e)
      BY <1>1, <3>1, <3>2, Zenon DEF In, UpAt, CbAt
    <3>4. \A j \in Items, msg \in Messages : DownAt(j, msg, e)' => j = t /\ msg = mm
      BY <1>5, <3>3, DownSent, Zenon DEF DownAt
    <3>5. ~ParkedAt(e)'
      BY <1>0, <1>5, <2>2, Zenon DEF ParkedAt
    <3>6. In(e, "down", t, mm)'
      BY <3>3, <3>4, <3>5, Zenon DEF In
    <3>7. fate[e] # "none"
      BY <1>1, <2>2, Asked, Zenon
    <3> QED  BY <3>6, <3>7, Zenon
  <2> QED  BY <2>1, <2>2, Zenon
<1> QED  BY <1>0, <1>2, <1>3, <1>4, <1>5, Zenon

\* A process makes a request, which was nowhere before.
LEMMA PlaceSend ==
  ASSUME TypeOK, PlaceInv, NEW p \in Processes, NEW f \in Events, SendRequest(p, f),
         NEW e \in Unicast
  PROVE  Keeps(e) \/ (fate'[e] # "none" /\ \E k, j, x : In(e, k, j, x)')
<1>5. PICK c \in Items : c = conn[p]
  BY TypeUses, Zenon DEF SendRequest
<1>0. c \in Items /\ Request(f) \in Messages /\ Submit(c, Request(f)) /\ e \in Events
  BY <1>5, MessageParts, TypeUses, Zenon DEF SendRequest, Unicast
<1>1. down' = down /\ cb' = cb /\ parked' = parked /\ fate[f] = "none" /\ fate' = Fated({f}, "asked")
  BY Zenon DEF SendRequest, daemon
<1>2. \A j \in Items, n \in Nat : UpAt(j, n, e)' =>
         UpAt(j, n, e) \/ (e = f /\ j = c /\ n = Len(up[c]) + 1)
  <2> SUFFICES ASSUME NEW j \in Items, NEW n \in Nat, UpAt(j, n, e)'
               PROVE  UpAt(j, n, e) \/ (e = f /\ j = c /\ n = Len(up[c]) + 1)
    BY Zenon
  <2>1. \/ n \in 1..Len(up[j]) /\ up'[j][n] = up[j][n]
        \/ j = c /\ n = Len(up[c]) + 1 /\ up'[j][n] = Request(f)
    BY <1>0, UpAppend, Zenon DEF UpAt
  <2> QED  BY <2>1, AboutParts, Zenon DEF UpAt
<1>3. CASE e # f
  BY <1>1, <1>2, <1>3, Zenon DEF Keeps, DownAt, CbAt, ParkedAt
<1>4. CASE e = f
  <2>1. In(e, "none", None, None)
    BY <1>1, <1>4, Zenon DEF PlaceInv, Nowhere
  <2>4. PICK y : y = Len(up[c]) + 1
    BY Zenon
  <2>2. In(e, "up", c, y)'
    <3>1. \A j \in Items, n \in Nat : UpAt(j, n, e)' => j = c /\ n = y
      BY <1>2, <2>1, <2>4, Zenon DEF In
    <3>2. /\ \A j \in Items, msg \in Messages : ~DownAt(j, msg, e)'
          /\ \A j \in Items : ~CbAt(j, e)'
          /\ ~ParkedAt(e)'
      BY <1>1, <2>1, Zenon DEF In, DownAt, CbAt, ParkedAt
    <3> QED  BY <3>1, <3>2, Zenon DEF In
  <2>3. fate'[e] # "none"
    BY <1>0, <1>1, <1>4, Zenon DEF Fated
  <2> QED  BY <2>2, <2>3, Zenon
<1> QED  BY <1>3, <1>4, Zenon

\* A process takes a message, and may answer it.
LEMMA PlaceTake ==
  ASSUME TypeOK, PlaceInv, NEW p \in Processes, server_cb_recv(p), NEW e \in Unicast
  PROVE  Keeps(e) \/ (fate[e] # "none" /\ \E k, j, x : In(e, k, j, x)')
<1>7. PICK c \in Items : c = conn[p]
  BY TypeUses, ZenonT(60) DEF server_cb_recv
<1>0. c \in Items /\ e \in Events /\ down \in [Items -> SUBSET Messages]
  BY TypeUses, Zenon DEF server_cb_recv, Unicast
<1>1. PICK msg \in down[c] :
        /\ down' = [down EXCEPT ![c] = @ \ {msg}]
        /\ IF Serves(p, msg) THEN Submit(c, Answer(msg.what, 0)) ELSE UNCHANGED up
  BY <1>7, Zenon DEF server_cb_recv
<1>2. cb' = cb /\ parked' = parked
  BY Zenon DEF server_cb_recv, daemon
<1>3. msg \in Messages
  BY <1>0, Zenon
<1>4. \A j \in Items, mm \in Messages : DownAt(j, mm, e)' =>
         DownAt(j, mm, e) /\ ~(j = c /\ mm = msg)
  BY <1>0, <1>1, Zenon DEF DownAt
<1>5. CASE UNCHANGED up
  BY <1>2, <1>4, <1>5, Zenon DEF Keeps, UpAt, CbAt, ParkedAt
<1>6. CASE Serves(p, msg) /\ Submit(c, Answer(msg.what, 0))
  <2> DEFINE f == msg.what
  <2>1. msg.type \in Requests /\ msg.type # "REGISTER" /\ f \in Events
    BY <1>3, <1>6, MessageWhat, Zenon DEF Serves, Requests
  <2>2. Answer(f, 0) \in Messages /\ (About(Answer(f, 0), e) => e = f)
    BY <2>1, MessageParts, AboutParts, Zenon
  <2>3. \A j \in Items, n \in Nat : UpAt(j, n, e)' =>
           UpAt(j, n, e) \/ (e = f /\ j = c /\ n = Len(up[c]) + 1)
    <3> SUFFICES ASSUME NEW j \in Items, NEW n \in Nat, UpAt(j, n, e)'
                 PROVE  UpAt(j, n, e) \/ (e = f /\ j = c /\ n = Len(up[c]) + 1)
      BY Zenon
    <3>1. \/ n \in 1..Len(up[j]) /\ up'[j][n] = up[j][n]
          \/ j = c /\ n = Len(up[c]) + 1 /\ up'[j][n] = Answer(f, 0)
      BY <1>0, <1>6, <2>2, UpAppend, ZenonT(60) DEF UpAt
    <3> QED  BY <2>2, <3>1, Zenon DEF UpAt
  <2>4. CASE e # f
    BY <1>2, <1>4, <2>3, <2>4, Zenon DEF Keeps, CbAt, ParkedAt
  <2>5. CASE e = f
    <3>1. DownAt(c, msg, e)
      BY <2>1, <2>5, Zenon DEF DownAt, About
    <3>2. PICK k, i0, x : In(e, k, i0, x)
      BY Zenon DEF PlaceInv
    <3>3. k = "down" /\ i0 = c /\ x = msg
      BY <1>0, <1>3, <3>1, <3>2, Zenon DEF In
    <3>4. /\ \A j \in Items, mm \in Messages : ~DownAt(j, mm, e)'
          /\ \A j \in Items : ~CbAt(j, e)'
          /\ ~ParkedAt(e)'
      BY <1>2, <1>4, <3>2, <3>3, Zenon DEF In, CbAt, ParkedAt
    <3>8. PICK y : y = Len(up[c]) + 1
      BY Zenon
    <3>5. \A j \in Items, n \in Nat : UpAt(j, n, e)' => j = c /\ n = y
      BY <2>3, <3>2, <3>3, <3>8, Zenon DEF In
    <3>6. In(e, "up", c, y)'
      BY <3>4, <3>5, Zenon DEF In
    <3>7. fate[e] # "none"
      BY <1>0, <1>3, <3>1, Asked, Zenon
    <3> QED  BY <3>6, <3>7, Zenon
  <2> QED  BY <2>4, <2>5, Zenon
<1> QED  BY <1>1, <1>5, <1>6, Zenon

\* The other steps bring no request anywhere.
LEMMA PlaceOthers ==
  ASSUME TypeOK, NEW e \in Unicast,
         \/ \E f \in Unicast : Elapse(f)
         \/ \E i \in Items : unreg_cb(i)
         \/ \E p \in Processes : Connect(p) \/ Exit(p) \/ \E m \in Hosts[p] : SendRegister(p, m)
         \/ \E m : GiveUp(m)
         \/ UNCHANGED vars
  PROVE  Keeps(e)
<1>0. cb' = cb /\ parked' = parked
  BY ZenonT(30) DEF Elapse, unreg_cb, Connect, Exit, SendRegister, GiveUp, vars, daemon
<1>1. CASE up' = up /\ down' = down
  BY <1>0, <1>1, Zenon DEF Keeps, UpAt, DownAt, CbAt, ParkedAt
<1>2. ASSUME NEW i \in Items, up' = [up EXCEPT ![i] = <<>>], down' = down
      PROVE  Keeps(e)
  <2>1. \A j \in Items : up'[j] = up[j] \/ up'[j] = <<>>
    BY <1>2, TypeUses, Zenon
  <2>2. \A n \in Nat : n \notin 1..Len(<<>>)
    OBVIOUS
  <2>3. \A j \in Items, n \in Nat : UpAt(j, n, e)' => UpAt(j, n, e)
    BY <2>1, <2>2, Zenon DEF UpAt
  <2> QED  BY <1>0, <1>2, <2>3, Zenon DEF Keeps, DownAt, CbAt, ParkedAt
<1>3. ASSUME NEW p \in Processes, Exit(p)  PROVE Keeps(e)
  <2>1. up' = up /\ down' = [down EXCEPT ![conn[p]] = {}]
    BY <1>3, Zenon DEF Exit
  <2>2. \A j \in Items : down'[j] \subseteq down[j]
    BY <2>1, TypeUses, Zenon
  <2> QED  BY <1>0, <2>1, <2>2, Zenon DEF Keeps, UpAt, DownAt, CbAt, ParkedAt
<1>4. ASSUME NEW p \in Processes, NEW m \in Hosts[p], SendRegister(p, m)  PROVE Keeps(e)
  <2> DEFINE c == conn[p]
             msg == Message("REGISTER", m, 0)
  <2>1. c \in Items /\ m \in Modules /\ Submit(c, msg) /\ down' = down
    BY <1>4, TypeUses, DaemonAssumption, Zenon DEF SendRegister
  <2>2. msg \in Messages /\ ~About(msg, e)
    BY <2>1, MessageParts, AboutParts, Zenon
  <2> HIDE DEF msg, c
  <2>3. \A j \in Items, n \in Nat : UpAt(j, n, e)' => UpAt(j, n, e)
    <3> SUFFICES ASSUME NEW j \in Items, NEW n \in Nat, UpAt(j, n, e)'
                 PROVE  UpAt(j, n, e)
      BY Zenon
    <3>1. \/ n \in 1..Len(up[j]) /\ up'[j][n] = up[j][n]
          \/ up'[j][n] = msg
      BY <2>1, <2>2, UpAppend, Zenon DEF UpAt
    <3> QED  BY <2>2, <3>1, Zenon DEF UpAt
  <2> QED  BY <1>0, <2>1, <2>3, Zenon DEF Keeps, DownAt, CbAt, ParkedAt
<1> QED  BY <1>1, <1>2, <1>3, <1>4, ZenonT(30) DEF Elapse, unreg_cb, Connect, GiveUp, vars

\* A message of a process is no multicast for one destination.
LEMMA KindOfMessages ==
  /\ \A m, r : Message("REGISTER", m, r).type # "MULT_REQ"
  /\ \A e \in Events : /\ Request(e).type = "MULT_REQ" => Request(e).what \notin Unicast
                       /\ \A r : Answer(e, r).type # "MULT_REQ"
  /\ Idle.msg.type # "MULT_REQ"
<1>1. \A m, r : Message("REGISTER", m, r).type # "MULT_REQ"
  BY Zenon DEF Message
<1>2. Idle.msg.type # "MULT_REQ"
  BY Zenon DEF Message, Idle
<1>3. ASSUME NEW e \in Events
      PROVE  /\ Request(e).type = "MULT_REQ" => Request(e).what \notin Unicast
             /\ \A r : Answer(e, r).type # "MULT_REQ"
  <2>1. ReplyType[Type[e]] # "MULT_REQ"
    BY DaemonAssumption DEF ReplyType
  <2> QED  BY <2>1, Zenon DEF Request, Answer, Message, Unicast
<1> QED  BY <1>1, <1>2, <1>3, Zenon

\* No step makes a multicast of a request with one destination.
LEMMA KindStep == TypeOK /\ KindInv /\ [Next]_vars => KindInv'
<1> SUFFICES ASSUME TypeOK, KindInv, [Next]_vars  PROVE KindInv'
  OBVIOUS
<1> DEFINE Kind(msg) == msg.type = "MULT_REQ" => msg.what \notin Unicast
<1>0. /\ \A i \in Items, n \in Nat : n \in 1..Len(up[i]) => Kind(up[i][n])
      /\ \A i \in Items : Kind(cb[i].msg)
  BY Zenon DEF KindInv
<1>1. SUFFICES /\ \A i \in Items, n \in Nat : n \in 1..Len(up'[i]) => Kind(up'[i][n])
               /\ \A i \in Items : Kind(cb'[i].msg)
  BY Zenon DEF KindInv
<1>k. /\ \A m \in Modules : Kind(Message("REGISTER", m, 0))
      /\ \A e \in Events : Kind(Request(e)) /\ Kind(Answer(e, 0))
      /\ Kind(Idle.msg)
  BY KindOfMessages, Zenon
<1> HIDE DEF Kind
<1>2. ASSUME NEW i \in Items, PairRecv(i)
      PROVE  /\ \A j \in Items, n \in Nat : n \in 1..Len(up'[j]) => Kind(up'[j][n])
             /\ \A j \in Items : Kind(cb'[j].msg)
  <2> DEFINE head == Head(up[i])
             new == [msg |-> head, found |-> find_proxy_reg_item(head),
                     todo |-> IF head.type = "MULT_REQ" THEN Dests[head.what] ELSE {}]
  <2>1. up[i] # <<>> /\ up' = [up EXCEPT ![i] = Tail(@)] /\ cb' = [cb EXCEPT ![i] = new]
    BY <1>2, Zenon DEF PairRecv
  <2>2. 1 \in Nat /\ \A n \in Nat : n + 1 \in Nat
    OBVIOUS
  <2>3. 1 \in 1..Len(up[i]) /\ head = up[i][1]
    BY <2>1, UpTail
  <2>4. \A j \in Items, n \in Nat : n \in 1..Len(up'[j]) =>
           IF j = i THEN n + 1 \in 1..Len(up[i]) /\ up'[j][n] = up[i][n + 1] /\ n + 1 # 1
           ELSE up'[j] = up[j]
    BY <2>1, UpTail, ZenonT(30)
  <2>5. new.msg = head
    BY Zenon
  <2> HIDE DEF new, head
  <2>6. \A j \in Items : cb'[j] = IF j = i THEN new ELSE cb[j]
    BY <2>1, TypeUses, Zenon
  <2>7. Kind(head)
    BY <1>0, <2>2, <2>3, Zenon
  <2> QED  BY <1>0, <2>2, <2>4, <2>5, <2>6, <2>7, Zenon
<1>3. ASSUME NEW i \in Items, PairAct(i)
      PROVE  /\ \A j \in Items, n \in Nat : n \in 1..Len(up'[j]) => Kind(up'[j][n])
             /\ \A j \in Items : Kind(cb'[j].msg)
  <2>1. cb[i] \in CbType /\ cb \in [Items -> CbType] /\ cb[i].todo \subseteq Modules
    BY TypeUses, Zenon
  <2>2. \/ cb' = [cb EXCEPT ![i] = Idle]
        \/ \E m \in cb[i].todo : cb' = [cb EXCEPT ![i] = Without(cb[i], m)]
    BY <1>3, Zenon DEF PairAct, RegisterModule, ForwardRequest, ForwardMulticast, ForwardAnswer
  <2>3. up' = up
    BY <1>3, Zenon DEF PairAct, RegisterModule, ForwardRequest, ForwardMulticast, ForwardAnswer
  <2>4. \A m \in cb[i].todo : Without(cb[i], m).msg = cb[i].msg
    BY <2>1, CbParts, Zenon
  <2>5. \A j \in Items : cb'[j] = cb[j] \/ cb'[j].msg = Idle.msg \/ cb'[j].msg = cb[i].msg
    BY <2>1, <2>2, <2>4, Zenon
  <2> QED  BY <1>0, <1>k, <2>3, <2>5, Zenon
<1>4. ASSUME NEW c \in Items, NEW msg \in Messages, Submit(c, msg), Kind(msg), cb' = cb
      PROVE  /\ \A j \in Items, n \in Nat : n \in 1..Len(up'[j]) => Kind(up'[j][n])
             /\ \A j \in Items : Kind(cb'[j].msg)
  <2>1. \A j \in Items, n \in Nat : n \in 1..Len(up'[j]) =>
           \/ n \in 1..Len(up[j]) /\ up'[j][n] = up[j][n]
           \/ up'[j][n] = msg
    BY <1>4, UpAppend, Zenon
  <2> QED  BY <1>0, <1>4, <2>1, Zenon
<1>5. ASSUME NEW p \in Processes, \/ \E e \in Events : SendRequest(p, e)
                                  \/ \E m \in Hosts[p] : SendRegister(p, m)
                                  \/ server_cb_recv(p)
      PROVE  /\ \A j \in Items, n \in Nat : n \in 1..Len(up'[j]) => Kind(up'[j][n])
             /\ \A j \in Items : Kind(cb'[j].msg)
  <2>0. conn[p] \in Items /\ cb' = cb
    BY <1>5, TypeUses, Zenon DEF SendRequest, SendRegister, server_cb_recv, daemon
  <2>1. ASSUME NEW e \in Events, SendRequest(p, e)
        PROVE  \E msg \in Messages : Submit(conn[p], msg) /\ Kind(msg)
    BY <1>k, <2>1, MessageParts, Zenon DEF SendRequest
  <2>2. ASSUME NEW m \in Hosts[p], SendRegister(p, m)
        PROVE  \E msg \in Messages : Submit(conn[p], msg) /\ Kind(msg)
    <3>1. m \in Modules
      BY DaemonAssumption, Zenon
    <3> QED  BY <1>k, <2>2, <3>1, MessageParts, Zenon DEF SendRegister
  <2>3. ASSUME server_cb_recv(p)
        PROVE  up' = up \/ \E msg \in Messages : Submit(conn[p], msg) /\ Kind(msg)
    <3>1. PICK mm \in down[conn[p]] :
             IF Serves(p, mm) THEN Submit(conn[p], Answer(mm.what, 0)) ELSE UNCHANGED up
      BY <2>3, Zenon DEF server_cb_recv
    <3>2. mm \in Messages
      BY <2>0, TypeUses, Zenon
    <3>3. Serves(p, mm) => mm.what \in Events
      BY <3>2, MessageWhat, Zenon DEF Serves, Requests
    <3> QED  BY <1>k, <3>1, <3>3, MessageParts, Zenon
  <2>4. up' = up \/ \E msg \in Messages : Submit(conn[p], msg) /\ Kind(msg)
    BY <1>5, <2>1, <2>2, <2>3, Zenon
  <2> QED  BY <1>0, <1>4, <2>0, <2>4, Zenon
<1>6. ASSUME NEW i \in Items, unreg_cb(i)
      PROVE  /\ \A j \in Items, n \in Nat : n \in 1..Len(up'[j]) => Kind(up'[j][n])
             /\ \A j \in Items : Kind(cb'[j].msg)
  <2>1. up' = [up EXCEPT ![i] = <<>>] /\ cb' = cb
    BY <1>6, Zenon DEF unreg_cb
  <2>2. \A j \in Items : up'[j] = up[j] \/ up'[j] = <<>>
    BY <2>1, TypeUses, Zenon
  <2>3. \A n \in Nat : n \notin 1..Len(<<>>)
    OBVIOUS
  <2> QED  BY <1>0, <2>1, <2>2, <2>3, Zenon
<1>7. CASE up' = up /\ cb' = cb
  BY <1>0, <1>7, Zenon
<1>8. \/ up' = up /\ cb' = cb
      \/ \E i \in Items : PairRecv(i) \/ PairAct(i) \/ unreg_cb(i)
      \/ \E p \in Processes : \/ \E e \in Events : SendRequest(p, e)
                              \/ \E m \in Hosts[p] : SendRegister(p, m)
                              \/ server_cb_recv(p)
  BY ZenonT(30) DEF Next, Receive, Timer, Client, proxy_expire_cb, Elapse, Connect, Exit, GiveUp,
     vars, daemon
<1> QED  BY <1>2, <1>3, <1>5, <1>6, <1>7, <1>8, Zenon

\* No step puts a request in a second place.
LEMMA PlaceStep == TypeOK /\ KindInv /\ PlaceInv /\ [Next]_vars => PlaceInv'
<1> SUFFICES ASSUME TypeOK, KindInv, PlaceInv, [Next]_vars, NEW e \in Unicast
             PROVE  (\E k, i, x : In(e, k, i, x)') /\ (fate'[e] = "none" => Nowhere(e)')
  BY Zenon DEF PlaceInv
<1>0. fate[e] # "none" => fate'[e] # "none"
  BY FateStays, Zenon DEF Unicast
<1>1. CASE Keeps(e)
  <2>1. \E k, i, x : In(e, k, i, x)'
    BY <1>1, KeepsIn, Zenon DEF PlaceInv
  <2>2. fate'[e] = "none" => Nowhere(e)'
    BY <1>0, <1>1, KeepsIn, Zenon DEF PlaceInv, Nowhere
  <2> QED  BY <2>1, <2>2, Zenon
<1>2. CASE fate'[e] # "none" /\ \E k, i, x : In(e, k, i, x)'
  BY <1>2, Zenon
<1>3. ASSUME NEW i \in Items, PairRecv(i)
      PROVE  (\E k, j, x : In(e, k, j, x)') /\ (fate'[e] = "none" => Nowhere(e)')
  <2>1. fate'[e] = fate[e]
    BY <1>3, Zenon DEF PairRecv
  <2> QED  BY <1>3, <2>1, PlaceRecv, Zenon
<1>4. ASSUME \/ \E i \in Items : PairAct(i)
             \/ \E f \in Unicast : proxy_expire_cb(f)
             \/ \E p \in Processes : server_cb_recv(p) \/ \E f \in Events : SendRequest(p, f)
      PROVE  Keeps(e) \/ (fate'[e] # "none" /\ \E k, j, x : In(e, k, j, x)')
  <2>1. Keeps(e) \/ ((fate[e] # "none" \/ fate'[e] # "none") /\ \E k, j, x : In(e, k, j, x)')
    BY <1>4, PlaceAct, PlaceExpire, PlaceTake, PlaceSend, Zenon
  <2> QED  BY <1>0, <2>1, Zenon
<1>5. \/ \E i \in Items : PairRecv(i)
      \/ \/ \E i \in Items : PairAct(i)
         \/ \E f \in Unicast : proxy_expire_cb(f)
         \/ \E p \in Processes : server_cb_recv(p) \/ \E f \in Events : SendRequest(p, f)
      \/ \/ \E f \in Unicast : Elapse(f)
         \/ \E i \in Items : unreg_cb(i)
         \/ \E p \in Processes : Connect(p) \/ Exit(p) \/ \E m \in Hosts[p] : SendRegister(p, m)
         \/ \E m : GiveUp(m)
         \/ UNCHANGED vars
  BY ZenonT(30) DEF Next, Receive, Timer, Client
<1> QED  BY <1>1, <1>2, <1>3, <1>4, <1>5, PlaceOthers, Zenon

\* The places of a request that is in one place.
LEMMA InIsOnePlace ==
  ASSUME TypeOK, NEW e \in Unicast, NEW k, NEW i, NEW x, In(e, k, i, x)
  PROVE  Cardinality(Places(e)) <= 1
<1> DEFINE Here == CASE k = "up" -> <<"up", i, x>>
                     [] k = "down" -> <<"down", i, x>>
                     [] k = "cb" -> <<"cb", i>>
                     [] OTHER -> <<"parked">>
<1>1. ASSUME NEW j \in Items, NEW n \in 1..Len(up[j]), About(up[j][n], e)
      PROVE  <<"up", j, n>> = Here
  <2>1. n \in Nat
    BY <1>1, TypeUses
  <2>2. UpAt(j, n, e)
    BY <1>1, Zenon DEF UpAt
  <2>3. k = "up" /\ j = i /\ n = x
    BY <2>1, <2>2, Zenon DEF In
  <2> QED  BY <2>3, SMTT(30)
<1>2. ASSUME NEW j \in Items, NEW msg \in down[j], About(msg, e)
      PROVE  <<"down", j, msg>> = Here
  <2>1. msg \in Messages
    BY <1>2, TypeUses, Zenon
  <2>2. DownAt(j, msg, e)
    BY <1>2, Zenon DEF DownAt
  <2>3. k = "down" /\ j = i /\ msg = x
    BY <2>1, <2>2, Zenon DEF In
  <2> QED  BY <2>3
<1>3. ASSUME NEW j \in Items, About(cb[j].msg, e)  PROVE <<"cb", j>> = Here
  <2>1. k = "cb" /\ j = i
    BY <1>3, Zenon DEF In, CbAt
  <2> QED  BY <2>1
<1>4. ASSUME parked[e] # None  PROVE <<"parked">> = Here
  <2>1. k = "parked"
    BY <1>4, Zenon DEF In, ParkedAt
  <2> QED  BY <2>1
<1> HIDE DEF Here
<1>5. ASSUME NEW c \in Places(e)  PROVE c = Here
  <2>1. ASSUME c \in UpPlaces(e)  PROVE c = Here
    <3>1. PICK j \in Items : c \in {<<"up", j, n>> : n \in {y \in 1..Len(up[j]) : About(up[j][y], e)}}
      BY <2>1, Zenon DEF UpPlaces
    <3>2. PICK n \in {y \in 1..Len(up[j]) : About(up[j][y], e)} : c = <<"up", j, n>>
      BY <3>1, Zenon
    <3> QED  BY <1>1, <3>2, Zenon
  <2>2. ASSUME c \in DownPlaces(e)  PROVE c = Here
    <3>1. PICK j \in Items : c \in {<<"down", j, msg>> : msg \in {y \in down[j] : About(y, e)}}
      BY <2>2, Zenon DEF DownPlaces
    <3>2. PICK msg \in {y \in down[j] : About(y, e)} : c = <<"down", j, msg>>
      BY <3>1, Zenon
    <3> QED  BY <1>2, <3>2, Zenon
  <2>3. ASSUME c \in CbPlaces(e)  PROVE c = Here
    <3>1. PICK j \in {y \in Items : About(cb[y].msg, e)} : c = <<"cb", j>>
      BY <2>3, Zenon DEF CbPlaces
    <3> QED  BY <1>3, <3>1, Zenon
  <2>4. ASSUME c \in ParkedPlaces(e)  PROVE c = Here
    BY <1>4, <2>4, Zenon DEF ParkedPlaces
  <2> QED  BY <1>5, <2>1, <2>2, <2>3, <2>4, Zenon DEF Places
<1>6. IsFiniteSet({Here}) /\ Cardinality({Here}) = 1
  BY FS_Singleton, Zenon
<1>7. Places(e) \in SUBSET {Here}
  BY <1>5, Zenon
<1>8. Cardinality(Places(e)) <= Cardinality({Here})
  BY <1>6, <1>7, FS_Subset, Zenon
<1> QED  BY <1>6, <1>8, Zenon

\* OnePlace holds of every behaviour: whatever the callbacks and timers do
\* between each other's steps, a request is queued, in a callback, parked or on
\* its way to one process, and never in two of these (ForwardRequest,
\* proxy_expire_cb and the answers).
THEOREM OnePlaceThm == Spec => []OnePlace
<1>1. Init => KindInv /\ PlaceInv
  <2> SUFFICES ASSUME Init  PROVE KindInv /\ PlaceInv
    OBVIOUS
  <2>1. \A i \in Items : up[i] = <<>> /\ down[i] = {} /\ cb[i].msg = Idle.msg
    BY Zenon DEF Init
  <2>2. \A n \in Nat : n \notin 1..Len(<<>>)
    OBVIOUS
  <2>3. \A e \in Unicast : ~About(Idle.msg, e)
    BY DaemonAssumption, Zenon DEF Idle, Message, About, Unicast
  <2>4. KindInv
    BY <2>1, <2>2, KindOfMessages, Zenon DEF KindInv
  <2>5. \A e \in Unicast : parked[e] = None
    BY Zenon DEF Init, Unicast
  <2>6. \A e \in Unicast : Nowhere(e)
    BY <2>1, <2>2, <2>3, <2>5, Zenon DEF Nowhere, In, UpAt, DownAt, CbAt, ParkedAt
  <2> QED  BY <2>4, <2>6, Zenon DEF PlaceInv, Nowhere
<1>2. TypeOK /\ PlaceInv => OnePlace
  BY InIsOnePlace, Zenon DEF PlaceInv, OnePlace
<1>3. Spec => []TypeOK
  BY TypeCorrect, Zenon
<1> QED  BY <1>1, <1>2, <1>3, KindStep, PlaceStep, PTL DEF Spec
=============================================================================
