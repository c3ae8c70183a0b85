--------------------------- MODULE KernelIPCProofs ---------------------------
(***************************************************************************)
(* The safety of message passing, for every table of processes, every set  *)
(* of programs that keep DisciplineAssumption and every size of the        *)
(* asynchronous message tables: type correctness, then IPCInv, then that   *)
(* no set of processes waits for itself, then that signals, notifications  *)
(* and asynchronous messages are not lost.  All but the first hold until   *)
(* do_fork copies a queue with processes in it, which QueueForked says.    *)
(***************************************************************************)
EXTENDS KernelIPCInv, QueueLemmas

-----------------------------------------------------------------------------
(* Type correctness, which needs no assumption on the programs.            *)


(* What the constants' assumptions say of slots and privilege structures. *)
LEMMA Basics ==
    /\ Kernel \subseteq Proc /\ Kernel \subseteq SysProc /\ PM \in Proc
    /\ SysProc \subseteq Proc /\ SysProc \subseteq Priv /\ PM \in Priv
    /\ HARDWARE \in SysProc /\ SYSTEM \in SysProc /\ CLOCK \in SysProc
    /\ \A p \in Proc : priv(p) \in Priv
    /\ \A p \in SysProc : priv(p) = p
  BY ProcAssumption DEF Kernel, Priv, priv, HARDWARE, SYSTEM, CLOCK

(* Endpoint(p) is an endpoint. *)
LEMMA EndpointType ==
    ASSUME TypeOK PROVE \A p \in Proc : Endpoint(p) \in Endpoints
  BY DEF TypeOK, Endpoint, Endpoints

(* The slot of an endpoint is a slot of the process table. *)
LEMMA EndpointsParts ==
    \A e \in Endpoints : e[1] \in 0 .. MaxGen - 1 /\ e[2] \in Proc /\ e = <<e[1], e[2]>>
  BY DEF Endpoints

(* What a program names as its peers are endpoints. *)
LEMMA PeersEndpoints ==
    ASSUME NEW p \in Proc
    PROVE  /\ \A e \in Peers[p] : e \in Endpoints
           /\ \A src \in Peers[p] \cup {ANY} : src \in Endpoints \cup {ANY}
  BY DEF Peers

(* A message built from endpoint, kind and argument is a message. *)
LEMMA MessageType ==
    ASSUME TypeOK, NEW p \in Proc, NEW k \in {"msg", "notify"},
           NEW a, a \subseteq Signals \/ a \subseteq Interrupts
    PROVE  Message(p, k, a) \in Messages
  BY EndpointType DEF Message, Messages

(* BuildNotifyMessage builds a message. *)
LEMMA NotifyMessageType ==
    ASSUME TypeOK, NEW source \in Proc, NEW q \in Priv,
           NEW ints \in [Priv -> SUBSET Interrupts],
           NEW sigs \in [Priv -> SUBSET Signals]
    PROVE  BuildNotifyMessage(source, q, ints, sigs) \in Messages
  <1>1. ints[q] \subseteq Interrupts /\ sigs[q] \subseteq Signals
    OBVIOUS
  <1> QED BY <1>1, MessageType DEF BuildNotifyMessage

(* mini_notify, given well-typed flags and maps, leaves well-typed ones. *)
LEMMA MiniNotifyType ==
    ASSUME TypeOK, NEW source \in SysProc, NEW target \in Proc,
           NEW ints \in [Priv -> SUBSET Interrupts],
           NEW sigs \in [Priv -> SUBSET Signals],
           NEW r \in [Proc -> SUBSET RtsFlags],
           NEW m \in [Proc -> SUBSET MiscFlags],
           NEW i \in [Proc -> Messages],
           NEW np \in [Priv -> SUBSET SysProc],
           mini_notify(source, target, ints, sigs, r, m, i, np)
    PROVE  /\ rts' \in [Proc -> SUBSET RtsFlags]
           /\ misc' \in [Proc -> SUBSET MiscFlags]
           /\ inmsg' \in [Proc -> Messages]
           /\ s_notify_pending' \in [Priv -> SUBSET SysProc]
           /\ s_int_pending' \in [Priv -> SUBSET Interrupts]
           /\ s_sig_pending' \in [Priv -> SUBSET Signals]
  <1>1. priv(target) \in Priv /\ source \in Proc
    BY Basics
  <1>2. BuildNotifyMessage(source, priv(target), ints, sigs) \in Messages
    BY <1>1, NotifyMessageType
  <1>3. CASE WILLRECEIVE(r, target, source) /\ "REPLY_PEND" \notin m[target]
    BY <1>1, <1>2, <1>3 DEF mini_notify, RtsFlags, MiscFlags
  <1>4. CASE ~(WILLRECEIVE(r, target, source) /\ "REPLY_PEND" \notin m[target])
    BY <1>1, <1>4 DEF mini_notify
  <1> QED BY <1>3, <1>4

(* cause_sig, given well-typed flags and maps, leaves well-typed ones. *)
LEMMA CauseSigType ==
    ASSUME TypeOK, NEW target \in Proc, NEW sig \in Signals,
           NEW r \in [Proc -> SUBSET RtsFlags],
           NEW m \in [Proc -> SUBSET MiscFlags],
           NEW i \in [Proc -> Messages],
           NEW np \in [Priv -> SUBSET SysProc],
           cause_sig(target, sig, r, m, i, np)
    PROVE  /\ rts' \in [Proc -> SUBSET RtsFlags]
           /\ misc' \in [Proc -> SUBSET MiscFlags]
           /\ inmsg' \in [Proc -> Messages]
           /\ s_notify_pending' \in [Priv -> SUBSET SysProc]
           /\ s_int_pending' \in [Priv -> SUBSET Interrupts]
           /\ s_sig_pending' \in [Priv -> SUBSET Signals]
           /\ p_pending' \in [Proc -> SUBSET Signals]
  <1> DEFINE sp == [s_sig_pending EXCEPT ![PM] = @ \cup {"SIGKSIG"}]
             r1 == [r EXCEPT ![target] = @ \cup {"SIGNALED", "SIG_PENDING"}]
  <1>1. sp \in [Priv -> SUBSET Signals] /\ r1 \in [Proc -> SUBSET RtsFlags]
        /\ s_int_pending \in [Priv -> SUBSET Interrupts]
    BY Basics DEF TypeOK, Signals, RtsFlags
  <1>2. p_pending' \in [Proc -> SUBSET Signals]
    BY DEF cause_sig, TypeOK
  <1>3. CASE sig \notin p_pending[target] /\ "SIGNALED" \notin r[target]
    <2>1. mini_notify(SYSTEM, PM, s_int_pending, sp, r1, m, i, np)
      BY <1>3 DEF cause_sig
    <2> HIDE DEF sp, r1
    <2> QED BY <1>1, <1>2, <2>1, Basics, MiniNotifyType
  <1>4. CASE ~(sig \notin p_pending[target] /\ "SIGNALED" \notin r[target])
    BY <1>2, <1>4 DEF cause_sig, TypeOK
  <1> QED BY <1>3, <1>4

(* The boot state is well typed. *)
LEMMA InitType == Init => TypeOK
  <1> SUFFICES ASSUME Init PROVE TypeOK OBVIOUS
  <1>1. NoMessage \in Messages
    BY Basics, NumberAssumption DEF NoMessage, Messages, Endpoints
  <1>2. <<0, PM>> \in Endpoints
    BY Basics, NumberAssumption DEF Endpoints
  <1>3. 0 \in 0 .. MaxGen - 1
    BY NumberAssumption
  <1> QED BY <1>1, <1>2, <1>3 DEF Init, TypeOK, RtsFlags, MiscFlags, Results

(* mini_send keeps the types. *)
LEMMA SendType ==
    ASSUME TypeOK, NEW p \in Proc, NEW e \in Endpoints, Send(p, e)
    PROVE  TypeOK'
  <1>1. e[2] \in Proc BY EndpointsParts
  <1>2. Message(p, "msg", {}) \in Messages BY MessageType
  <1>3. \A q \in Proc : Append(callerq[q], p) \in Seq(Proc)
    BY DEF TypeOK
  <1>4. CASE WILLRECEIVE(rts, e[2], p)
    <2>1. QueueMess(p, e[2], rts, misc) /\ UNCHANGED <<sendto, callerq>>
      BY <1>4 DEF Send
    <2> QED BY <1>1, <1>2, <2>1 DEF Send, QueueMess, TypeOK, MiscFlags, Results,
                                    sigvars, asynvars, pmvars
  <1>5. CASE ~WILLRECEIVE(rts, e[2], p)
    <2>1. Enqueue(p, e, {"SENDING"}) /\ UNCHANGED <<misc, inmsg>>
      BY <1>5 DEF Send
    <2> QED BY <1>1, <1>3, <2>1 DEF Send, Enqueue, TypeOK, RtsFlags, Results,
                                    sigvars, asynvars, pmvars
  <1> QED BY <1>4, <1>5

(* mini_send with NON_BLOCKING keeps the types. *)
LEMMA SendNBType ==
    ASSUME TypeOK, NEW p \in Proc, NEW e \in Endpoints, SendNB(p, e)
    PROVE  TypeOK'
  <1>1. e[2] \in Proc BY EndpointsParts
  <1>2. Message(p, "msg", {}) \in Messages BY MessageType
  <1> QED BY <1>1, <1>2 DEF SendNB, QueueMess, TypeOK, MiscFlags, Results, ipcvars,
                            sigvars, asynvars, pmvars

(* A NOTIFY trap keeps the types. *)
LEMMA NotifyType ==
    ASSUME TypeOK, NEW p \in Proc, NEW e \in Endpoints, Notify(p, e)
    PROVE  TypeOK'
  <1>1. e[2] \in Proc BY EndpointsParts
  <1>2. p \in SysProc
    BY PrivAssumption DEF Notify, sys_call, Allowed, priv
  <1>3. mini_notify(p, e[2], s_int_pending, s_sig_pending, rts, misc, inmsg, s_notify_pending)
    BY DEF Notify
  <1>4. /\ rts' \in [Proc -> SUBSET RtsFlags]
        /\ misc' \in [Proc -> SUBSET MiscFlags]
        /\ inmsg' \in [Proc -> Messages]
        /\ s_notify_pending' \in [Priv -> SUBSET SysProc]
        /\ s_int_pending' \in [Priv -> SUBSET Interrupts]
        /\ s_sig_pending' \in [Priv -> SUBSET Signals]
    BY <1>1, <1>2, <1>3, MiniNotifyType DEF TypeOK
  <1> QED BY <1>4 DEF Notify, TypeOK, Results, ipcvars, asynvars, pmvars

(* mini_receive that takes a notification keeps the types. *)
LEMMA ReceiveNotificationType ==
    ASSUME TypeOK, NEW p \in Proc, NEW src \in Endpoints \cup {ANY},
           NEW m \in [Proc -> SUBSET MiscFlags],
           ReceiveNotification(p, src, m),
           retreg' \in [Proc -> Results], UNCHANGED pmvars
    PROVE  TypeOK'
  <1>1. priv(p) \in Priv BY Basics
  <1>2. PICK s \in Acceptable(p, src) :
        /\ misc' = [m EXCEPT ![p] = @ \cup {"DELIVERMSG"}]
        /\ inmsg' = [inmsg EXCEPT ![p] =
                        BuildNotifyMessage(s, priv(p), s_int_pending, s_sig_pending)]
        /\ s_notify_pending' = [s_notify_pending EXCEPT ![priv(p)] = @ \ {s}]
        /\ s_int_pending' = IF s = HARDWARE
                            THEN [s_int_pending EXCEPT ![priv(p)] = {}] ELSE s_int_pending
        /\ s_sig_pending' = IF s = SYSTEM
                            THEN [s_sig_pending EXCEPT ![priv(p)] = {}] ELSE s_sig_pending
        /\ UNCHANGED <<rts, ipcvars, p_pending, asynvars>>
    BY DEF ReceiveNotification
  <1>3. s \in Proc
    BY <1>1, Basics DEF Acceptable, ChunkHeads, TypeOK
  <1>4. BuildNotifyMessage(s, priv(p), s_int_pending, s_sig_pending) \in Messages
    BY <1>1, <1>3, NotifyMessageType DEF TypeOK
  <1> QED BY <1>1, <1>2, <1>4 DEF TypeOK, MiscFlags, ipcvars, asynvars, pmvars

(* mini_receive that takes a sender off its queue keeps the types. *)
LEMMA ReceiveQueuedType ==
    ASSUME TypeOK, NEW p \in Proc, NEW src \in Endpoints \cup {ANY},
           NEW m \in [Proc -> SUBSET MiscFlags],
           ReceiveQueued(p, src, m),
           retreg' \in [Proc -> Results], UNCHANGED pmvars
    PROVE  TypeOK'
  <1> DEFINE x(i)  == callerq[p][i]
             r(i)  == [rts EXCEPT ![x(i)] = @ \ {"SENDING"}]
             m1    == [m EXCEPT ![p] = @ \cup {"DELIVERMSG"}]
             m2(i) == [m1 EXCEPT ![x(i)] = @ \ {"SIG_DELAY"}]
             i1(i) == [inmsg EXCEPT ![p] = Message(x(i), "msg", {})]
  <1>1. PICK i \in InQueue(p, src) :
         /\ callerq' = [callerq EXCEPT ![p] = RemoveAt(@, i)]
         /\ IF "SIG_DELAY" \in misc[x(i)]
            THEN cause_sig(x(i), "SIGNDELAY", r(i), m2(i), i1(i), s_notify_pending)
            ELSE /\ rts' = r(i) /\ misc' = m1 /\ inmsg' = i1(i)
                 /\ UNCHANGED <<s_notify_pending, s_int_pending, sigvars>>
         /\ UNCHANGED <<gen, getfrom, sendto, asynvars>>
    BY DEF ReceiveQueued
  <1>2. i \in 1 .. Len(callerq[p]) /\ x(i) \in Proc
    BY DEF InQueue, TypeOK
  <1>3. callerq' \in [Proc -> Seq(Proc)]
    BY <1>1, <1>2, RemoveAtIs DEF TypeOK
  <1>4. Message(x(i), "msg", {}) \in Messages
    BY <1>2, MessageType
  <1>5. /\ r(i) \in [Proc -> SUBSET RtsFlags] /\ m1 \in [Proc -> SUBSET MiscFlags]
        /\ m2(i) \in [Proc -> SUBSET MiscFlags] /\ i1(i) \in [Proc -> Messages]
    BY <1>2, <1>4 DEF TypeOK, MiscFlags, RtsFlags
  <1>6. CASE "SIG_DELAY" \in misc[x(i)]
    <2>1. cause_sig(x(i), "SIGNDELAY", r(i), m2(i), i1(i), s_notify_pending)
      BY <1>1, <1>6
    <2>2. "SIGNDELAY" \in Signals /\ s_notify_pending \in [Priv -> SUBSET SysProc]
      BY DEF Signals, TypeOK
    <2> HIDE DEF x, r, m1, m2, i1
    <2>3. /\ rts' \in [Proc -> SUBSET RtsFlags]
          /\ misc' \in [Proc -> SUBSET MiscFlags]
          /\ inmsg' \in [Proc -> Messages]
          /\ s_notify_pending' \in [Priv -> SUBSET SysProc]
          /\ s_int_pending' \in [Priv -> SUBSET Interrupts]
          /\ s_sig_pending' \in [Priv -> SUBSET Signals]
          /\ p_pending' \in [Proc -> SUBSET Signals]
      BY <1>2, <1>5, <2>1, <2>2, CauseSigType
    <2>4. UNCHANGED <<gen, getfrom, sendto, asynvars>>
      BY <1>1
    <2> QED BY <1>3, <2>3, <2>4 DEF TypeOK, asynvars, pmvars
  <1>7. CASE "SIG_DELAY" \notin misc[x(i)]
    <2>1. /\ rts' = r(i) /\ misc' = m1 /\ inmsg' = i1(i)
          /\ UNCHANGED <<s_notify_pending, s_int_pending, sigvars>>
          /\ UNCHANGED <<gen, getfrom, sendto, asynvars>>
      BY <1>1, <1>7
    <2> HIDE DEF x, r, m1, m2, i1
    <2> QED BY <1>3, <1>5, <2>1 DEF TypeOK, sigvars, asynvars, pmvars
  <1> QED BY <1>6, <1>7

(* A table of which an entry was marked AMF_DONE is a table. *)
LEMMA MarkDoneType ==
    ASSUME TypeOK, NEW s \in SysProc, NEW i \in DOMAIN asyn[s]
    PROVE  [asyn EXCEPT ![s][i].done = TRUE] \in [SysProc -> Seq(Entries)]
  <1>1. asyn[s] \in Seq(Entries) /\ asyn[s][i] \in Entries
    BY DEF TypeOK
  <1>2. [asyn[s][i] EXCEPT !.done = TRUE] \in Entries
    BY <1>1 DEF Entries
  <1>3. [asyn[s] EXCEPT ![i] = [asyn[s][i] EXCEPT !.done = TRUE]] \in Seq(Entries)
    BY <1>1, <1>2
  <1> QED BY <1>3 DEF TypeOK

(* Scanned is a map from system processes to Booleans. *)
LEMMA ScannedType == \A S, d : Scanned(S, d) \in [SysProc -> BOOLEAN]
  BY DEF Scanned

(* mini_receive that takes an asynchronous message keeps the types. *)
LEMMA ReceiveAsyncType ==
    ASSUME TypeOK, NEW p \in Proc, NEW src \in Endpoints \cup {ANY},
           NEW m \in [Proc -> SUBSET MiscFlags],
           ReceiveAsync(p, src, m),
           retreg' \in [Proc -> Results], UNCHANGED pmvars
    PROVE  TypeOK'
  <1>0. PICK s \in SysProc : \E i \in DOMAIN asyn[s] : TakeAsync(p, src, m, s, i)
    BY DEF ReceiveAsync
  <1>1. PICK i \in DOMAIN asyn[s] : TakeAsync(p, src, m, s, i)
    BY <1>0
  <1>2. asyn' \in [SysProc -> Seq(Entries)]
    BY <1>1, MarkDoneType DEF TakeAsync
  <1>3. asynsize' \in [SysProc -> BOOLEAN]
    BY <1>1, ScannedType DEF TakeAsync, TypeOK
  <1>4. Message(s, "msg", {}) \in Messages
    BY Basics, MessageType
  <1> QED BY <1>1, <1>2, <1>3, <1>4
          DEF ReceiveAsync, TakeAsync, TypeOK, MiscFlags, ipcvars, sigvars, pmvars

(* A scan that finds nothing keeps the types of what it touches. *)
LEMMA NoAsyncType ==
    ASSUME TypeOK, NEW p \in Proc, NEW src \in Endpoints \cup {ANY},
           NEW m \in [Proc -> SUBSET MiscFlags], NoAsync(p, src, m)
    PROVE  misc' \in [Proc -> SUBSET MiscFlags] /\ asynsize' \in [SysProc -> BOOLEAN]
  <1>1. misc' \in [Proc -> SUBSET MiscFlags]
    <2>1. misc' = [m EXCEPT ![p] = @ \ {"ASYNMSG"}] \/ misc' = m
      BY DEF NoAsync
    <2> QED BY <2>1 DEF MiscFlags
  <1>2. asynsize' \in [SysProc -> BOOLEAN]
    <2>1. asynsize' = asynsize \/ \E S : asynsize' = Scanned(S, p)
      BY DEF NoAsync
    <2> QED BY <2>1, ScannedType DEF TypeOK
  <1> QED BY <1>1, <1>2

(* mini_receive that blocks keeps the types. *)
LEMMA ReceiveBlocksType ==
    ASSUME TypeOK, NEW p \in Proc, NEW src \in Endpoints \cup {ANY},
           NEW m \in [Proc -> SUBSET MiscFlags],
           ReceiveBlocks(p, src, m),
           retreg' \in [Proc -> Results], UNCHANGED pmvars
    PROVE  TypeOK'
  <1>1. misc' \in [Proc -> SUBSET MiscFlags] /\ asynsize' \in [SysProc -> BOOLEAN]
    BY NoAsyncType DEF ReceiveBlocks
  <1> QED BY <1>1 DEF ReceiveBlocks, Block, TypeOK, RtsFlags, sigvars, pmvars

(* mini_receive keeps the types. *)
LEMMA ReceiveType ==
    ASSUME TypeOK, NEW p \in Proc, NEW src \in Endpoints \cup {ANY}, Receive(p, src)
    PROVE  TypeOK'
  <1> DEFINE m == [misc EXCEPT ![p] = @ \ {"REPLY_PEND"}]
  <1>1. m \in [Proc -> SUBSET MiscFlags]
    BY DEF TypeOK, MiscFlags
  <1>2. retreg' \in [Proc -> Results] /\ UNCHANGED pmvars
    BY DEF Receive, TypeOK, Results
  <1>3. \/ ReceiveNotification(p, src, m) \/ ReceiveQueued(p, src, m)
        \/ ReceiveAsync(p, src, m) \/ ReceiveBlocks(p, src, m)
    BY DEF Receive
  <1> HIDE DEF m
  <1> QED BY <1>1, <1>2, <1>3, ReceiveNotificationType, ReceiveQueuedType,
             ReceiveAsyncType, ReceiveBlocksType

(* A call that fails because the peer has no endpoint keeps the types. *)
LEMMA PeerDiedType ==
    ASSUME TypeOK, NEW p \in Proc, NEW call, NEW e, PeerDied(p, call, e)
    PROVE  TypeOK'
  BY DEF PeerDied, TypeOK, MiscFlags, Results, ipcvars, sigvars, asynvars, pmvars

(* SENDREC keeps the types. *)
LEMMA SendRecType ==
    ASSUME TypeOK, NEW p \in Proc, NEW e \in Endpoints, SendRec(p, e)
    PROVE  TypeOK'
  <1> DEFINE d  == e[2]
             r  == [rts EXCEPT ![d] = @ \ {"RECEIVING"}]
             m  == [misc EXCEPT ![p] = @ \cup {"REPLY_PEND"}, ![d] = @ \cup {"DELIVERMSG"}]
             i1 == [inmsg EXCEPT ![d] = Message(p, "msg", {})]
  <1>1. d \in Proc BY EndpointsParts
  <1>2. Message(p, "msg", {}) \in Messages BY MessageType
  <1>3. /\ r \in [Proc -> SUBSET RtsFlags] /\ m \in [Proc -> SUBSET MiscFlags]
        /\ i1 \in [Proc -> Messages]
    BY <1>1, <1>2 DEF TypeOK, MiscFlags, RtsFlags
  <1>4. /\ retreg' \in [Proc -> Results]
        /\ UNCHANGED <<gen, s_notify_pending, s_int_pending, sigvars, pmvars>>
    BY DEF SendRec, TypeOK, Results
  <1>5. CASE SendRecBlocks(p, e)
    <2>1. \A q \in Proc : Append(callerq[q], p) \in Seq(Proc)
      BY DEF TypeOK
    <2> QED BY <1>1, <1>4, <1>5, <2>1 DEF SendRecBlocks, Enqueue, TypeOK, RtsFlags,
                                    MiscFlags, sigvars, asynvars, pmvars
  <1>6. CASE SendRecDelivers(p, e)
    <2>1. CASE /\ d \in SysProc
               /\ \E i \in DOMAIN asyn[d] :
                    /\ TryOne(d, p, m, i)
                    /\ asyn' = [asyn EXCEPT ![d][i].done = TRUE]
               /\ rts' = r
               /\ misc' = [m EXCEPT ![p] = @ \cup {"DELIVERMSG"}]
               /\ inmsg' = [i1 EXCEPT ![p] = Message(d, "msg", {})]
               /\ UNCHANGED <<getfrom, asynsize>>
      <3>0. PICK i \in DOMAIN asyn[d] : asyn' = [asyn EXCEPT ![d][i].done = TRUE]
        BY <2>1
      <3>1. asyn' \in [SysProc -> Seq(Entries)]
        BY <2>1, <3>0, MarkDoneType
      <3>2. Message(d, "msg", {}) \in Messages BY <1>1, MessageType
      <3>3. UNCHANGED <<sendto, callerq>>
        BY <1>6 DEF SendRecDelivers
      <3> HIDE DEF d, r, m, i1
      <3> QED BY <1>1, <1>3, <1>4, <2>1, <3>1, <3>2, <3>3
              DEF TypeOK, MiscFlags, sigvars, pmvars
    <2>2. CASE NoAsync(p, e, m) /\ Block(p, e, r) /\ inmsg' = i1 /\ UNCHANGED asyn
      <3>1. UNCHANGED <<sendto, callerq>>
        BY <1>6 DEF SendRecDelivers
      <3> HIDE DEF d, r, m, i1
      <3>2. misc' \in [Proc -> SUBSET MiscFlags] /\ asynsize' \in [SysProc -> BOOLEAN]
        BY <1>3, <2>2, NoAsyncType
      <3> QED BY <1>3, <1>4, <2>2, <3>1, <3>2 DEF Block, TypeOK, RtsFlags, sigvars, pmvars
    <2> QED BY <1>6, <2>1, <2>2 DEF SendRecDelivers
  <1> QED BY <1>5, <1>6 DEF SendRec

(* The flags after a kernel call are well typed. *)
LEMMA KernelCallType ==
    ASSUME NEW p \in Proc, NEW m \in [Proc -> SUBSET MiscFlags]
    PROVE  KernelCall(p, m) \in [Proc -> SUBSET MiscFlags]
  BY DEF KernelCall, MiscFlags

(* delivermsg keeps the types. *)
LEMMA DeliverMsgType ==
    ASSUME TypeOK, NEW p \in Proc, DeliverMsg(p)
    PROVE  TypeOK'
  <1>1. NoMessage \in Messages
    BY Basics, NumberAssumption DEF NoMessage, Messages, Endpoints
  <1>2. ksig' \in {"idle", "get", "handle"}
    BY DEF DeliverMsg, TypeOK
  <1> QED BY <1>1, <1>2 DEF DeliverMsg, TypeOK, MiscFlags, ipcvars, sigvars, asynvars

(* Interrupts and alarms keep the types. *)
LEMMA ExternalType ==
    ASSUME TypeOK, NEW d \in Proc, External(d)
    PROVE  TypeOK'
  <1> USE DEF TypeOK
  <1>0. UNCHANGED <<ipcvars, retreg, p_pending, asynvars, pmvars>>
    BY DEF External, Alarm, Interrupt
  <1>1. /\ rts' \in [Proc -> SUBSET RtsFlags]
        /\ misc' \in [Proc -> SUBSET MiscFlags]
        /\ inmsg' \in [Proc -> Messages]
        /\ s_notify_pending' \in [Priv -> SUBSET SysProc]
        /\ s_int_pending' \in [Priv -> SUBSET Interrupts]
        /\ s_sig_pending' \in [Priv -> SUBSET Signals]
    <2>1. CASE Alarm(d)
      <3>1. mini_notify(CLOCK, d, s_int_pending, s_sig_pending, rts, misc, inmsg,
                        s_notify_pending)
        BY <2>1 DEF Alarm
      <3> QED BY <3>1, Basics, MiniNotifyType
    <2>2. ASSUME NEW irq \in Interrupts, Interrupt(d, irq)
          PROVE  <1>1!:
      <3> DEFINE ints == [s_int_pending EXCEPT ![d] = @ \cup {irq}]
      <3>1. mini_notify(HARDWARE, d, ints, s_sig_pending, rts, misc, inmsg, s_notify_pending)
        BY <2>2 DEF Interrupt
      <3>2. ints \in [Priv -> SUBSET Interrupts]
        OBVIOUS
      <3> HIDE DEF ints
      <3> QED BY <3>1, <3>2, Basics, MiniNotifyType
    <2> QED BY <2>1, <2>2 DEF External
  <1> QED BY <1>0, <1>1 DEF ipcvars, asynvars, pmvars

(* An exception keeps the types. *)
LEMMA ExceptionType ==
    ASSUME TypeOK, NEW p \in Proc, Exception(p)
    PROVE  TypeOK'
  <1>1. "SIGSEGV" \in Signals BY DEF Signals
  <1>2. /\ cause_sig(p, "SIGSEGV", rts, misc, inmsg, s_notify_pending)
        /\ UNCHANGED <<ipcvars, retreg, asynvars, pmvars>>
    BY DEF Exception
  <1>3. /\ rts' \in [Proc -> SUBSET RtsFlags]
        /\ misc' \in [Proc -> SUBSET MiscFlags]
        /\ inmsg' \in [Proc -> Messages]
        /\ s_notify_pending' \in [Priv -> SUBSET SysProc]
        /\ s_int_pending' \in [Priv -> SUBSET Interrupts]
        /\ s_sig_pending' \in [Priv -> SUBSET Signals]
        /\ p_pending' \in [Proc -> SUBSET Signals]
    BY <1>1, <1>2, CauseSigType DEF TypeOK
  <1> QED BY <1>2, <1>3 DEF TypeOK, ipcvars, asynvars, pmvars

(* The parts of clear_endpoint. *)
LEMMA ClearType ==
    ASSUME TypeOK, NEW c \in Proc
    PROVE  /\ FlagsCleared(c) \in [Proc -> SUBSET RtsFlags]
           /\ QueuesCleared(c) \in [Proc -> Seq(Proc)]
           /\ ResultsCleared(c) \in [Proc -> Results]
           /\ NotifiesCleared(c) \in [Priv -> SUBSET SysProc]
           /\ SizesCleared(c) \in [SysProc -> BOOLEAN]
  <1>1. FlagsCleared(c) \in [Proc -> SUBSET RtsFlags]
    BY DEF FlagsCleared, TypeOK, RtsFlags
  <1>2. QueuesCleared(c) \in [Proc -> Seq(Proc)]
    <2>1. CASE "SENDING" \in rts[c]
      <3>1. sendto[c][2] \in Proc
        BY EndpointsParts DEF TypeOK
      <3>2. RemoveFirst(callerq[sendto[c][2]], c) \in Seq(Proc)
        BY <3>1, RemoveFirstQueue DEF TypeOK
      <3> QED BY <2>1, <3>1, <3>2 DEF QueuesCleared, TypeOK
    <2>2. CASE "SENDING" \notin rts[c]
      BY <2>2 DEF QueuesCleared, TypeOK
    <2> QED BY <2>1, <2>2
  <1>3. ResultsCleared(c) \in [Proc -> Results]
    BY DEF ResultsCleared, TypeOK, Results
  <1>4. NotifiesCleared(c) \in [Priv -> SUBSET SysProc]
    BY DEF NotifiesCleared, TypeOK
  <1>5. SizesCleared(c) \in [SysProc -> BOOLEAN]
    BY DEF SizesCleared, TypeOK
  <1> QED BY <1>1, <1>2, <1>3, <1>4, <1>5

(* do_exit keeps the types. *)
LEMMA ExitType ==
    ASSUME TypeOK, NEW c \in Proc, DoExit(c) \/ DoExitSelf(c)
    PROVE  TypeOK'
  <1>0. clear_proc(c) /\ \E p \in Proc : misc' = KernelCall(p, misc)
    BY Basics DEF DoExit, DoExitSelf
  <1>1. PICK p \in Proc : clear_proc(c) /\ misc' = KernelCall(p, misc)
    BY <1>0
  <1>2. misc' \in [Proc -> SUBSET MiscFlags]
    <2>1. misc \in [Proc -> SUBSET MiscFlags] BY DEF TypeOK
    <2> QED BY <1>1, <2>1, KernelCallType
  <1> QED BY <1>1, <1>2, ClearType DEF clear_proc, TypeOK, RtsFlags, sigvars, pmvars

(* do_fork keeps the types. *)
LEMMA DoForkType ==
    ASSUME TypeOK, NEW f \in Proc, NEW c \in Proc, DoFork(f, c)
    PROVE  TypeOK'
  <1> DEFINE g == IF gen[c] + 1 >= MaxGen THEN 1 ELSE gen[c] + 1
  <1>1. g \in 0 .. MaxGen - 1
    BY NumberAssumption DEF TypeOK
  <1>2. [misc EXCEPT ![c] = misc[f]] \in [Proc -> SUBSET MiscFlags]
    BY DEF TypeOK
  <1>3. misc' \in [Proc -> SUBSET MiscFlags]
    BY <1>2, Basics, KernelCallType DEF DoFork
  <1>4. gen' \in [Proc -> 0 .. MaxGen - 1]
    BY <1>1 DEF DoFork, NextGen, TypeOK
  <1> QED BY <1>3, <1>4 DEF DoFork, TypeOK, RtsFlags, Results, asynvars, pmvars

(* do_kill keeps the types. *)
LEMMA DoKillType ==
    ASSUME TypeOK, NEW p \in Proc, NEW t \in Proc, NEW sig \in {"SIGKILL", "SIGTERM"},
           DoKill(p, t, sig)
    PROVE  TypeOK'
  <1>1. sig \in Signals BY DEF Signals
  <1>2. KernelCall(p, misc) \in [Proc -> SUBSET MiscFlags]
    BY KernelCallType DEF TypeOK
  <1>3. UNCHANGED <<gen, getfrom, sendto, asyn, pmvars>>
    BY DEF DoKill
  <1>4. CASE sig = "SIGKILL"
    <2>1. /\ cause_sig(t, sig, FlagsCleared(t), KernelCall(p, misc), inmsg, NotifiesCleared(t))
          /\ callerq' = QueuesCleared(t)
          /\ retreg' = ResultsCleared(t)
          /\ asynsize' = SizesCleared(t)
      BY <1>4 DEF DoKill
    <2>2. /\ rts' \in [Proc -> SUBSET RtsFlags]
          /\ misc' \in [Proc -> SUBSET MiscFlags]
          /\ inmsg' \in [Proc -> Messages]
          /\ s_notify_pending' \in [Priv -> SUBSET SysProc]
          /\ s_int_pending' \in [Priv -> SUBSET Interrupts]
          /\ s_sig_pending' \in [Priv -> SUBSET Signals]
          /\ p_pending' \in [Proc -> SUBSET Signals]
      BY <1>1, <1>2, <2>1, ClearType, CauseSigType DEF TypeOK
    <2> QED BY <1>3, <2>1, <2>2, ClearType DEF TypeOK, pmvars
  <1>5. CASE sig # "SIGKILL"
    <2>1. /\ cause_sig(t, sig, rts, KernelCall(p, misc), inmsg, s_notify_pending)
          /\ UNCHANGED <<callerq, retreg, asynsize>>
      BY <1>5 DEF DoKill
    <2>2. /\ rts' \in [Proc -> SUBSET RtsFlags]
          /\ misc' \in [Proc -> SUBSET MiscFlags]
          /\ inmsg' \in [Proc -> Messages]
          /\ s_notify_pending' \in [Priv -> SUBSET SysProc]
          /\ s_int_pending' \in [Priv -> SUBSET Interrupts]
          /\ s_sig_pending' \in [Priv -> SUBSET Signals]
          /\ p_pending' \in [Proc -> SUBSET Signals]
      BY <1>1, <1>2, <2>1, CauseSigType DEF TypeOK
    <2> QED BY <1>3, <2>1, <2>2 DEF TypeOK, pmvars
  <1> QED BY <1>4, <1>5

(* do_privctl, do_runctl, do_getksig and do_endksig keep the types. *)
LEMMA SmallCallsType ==
    ASSUME TypeOK, NEW p \in Proc,
           \/ DoPrivctl(p) \/ DoResume(p) \/ DoGetKsig \/ DoEndKsig
           \/ \E delay \in BOOLEAN : DoStop(p, delay)
    PROVE  TypeOK'
  <1> DEFINE md == [misc EXCEPT ![p] = @ \cup {"SIG_DELAY"}]
  <1>1. KernelCall(PM, misc) \in [Proc -> SUBSET MiscFlags]
    BY Basics, KernelCallType DEF TypeOK
  <1>2. md \in [Proc -> SUBSET MiscFlags]
    BY DEF TypeOK, MiscFlags
  <1>3. KernelCall(PM, md) \in [Proc -> SUBSET MiscFlags]
    BY <1>2, Basics, KernelCallType
  <1>4. CASE DoPrivctl(p)
    <2>1. PICK f \in SysProc : misc' = KernelCall(f, misc)
      BY <1>4 DEF DoPrivctl
    <2>2. misc' \in [Proc -> SUBSET MiscFlags]
      BY <2>1, Basics, KernelCallType DEF TypeOK
    <2> QED BY <1>4, <2>2 DEF DoPrivctl, TypeOK, RtsFlags, ipcvars, sigvars, asynvars, pmvars
  <1>5. CASE DoResume(p)
    BY <1>1, <1>5 DEF DoResume, TypeOK, RtsFlags, ipcvars, sigvars, asynvars, pmvars
  <1>6. CASE \E delay \in BOOLEAN : DoStop(p, delay)
    <2>1. misc' \in [Proc -> SUBSET MiscFlags] /\ rts' \in [Proc -> SUBSET RtsFlags]
      <3>1. PICK delay \in BOOLEAN : DoStop(p, delay)
        BY <1>6
      <3>2. \/ misc' = KernelCall(PM, md) /\ UNCHANGED rts
            \/ /\ misc' = KernelCall(PM, misc)
               /\ rts' = [rts EXCEPT ![p] = @ \cup {"PROC_STOP"}]
        BY <3>1 DEF DoStop
      <3> HIDE DEF md
      <3> QED BY <1>1, <1>3, <3>2 DEF TypeOK, RtsFlags
    <2> QED BY <1>6, <2>1 DEF DoStop, TypeOK, ipcvars, sigvars, asynvars, pmvars
  <1>7. CASE DoGetKsig
    <2> DEFINE S == {q \in Proc \ Kernel : "SIGNALED" \in rts[q]}
    <2>1. misc' \in [Proc -> SUBSET MiscFlags]
      BY <1>1, <1>7 DEF DoGetKsig
    <2>2. CASE ksig' = "idle" /\ UNCHANGED <<rts, p_pending, ksig_e>>
      BY <1>7, <2>1, <2>2 DEF DoGetKsig, TypeOK, ipcvars, asynvars
    <2>3. ASSUME NEW q \in S,
                 /\ ksig' = "handle" /\ ksig_e' = Endpoint(q)
                 /\ rts' = [rts EXCEPT ![q] = @ \ {"SIGNALED"}]
                 /\ p_pending' = [p_pending EXCEPT ![q] = {}]
          PROVE  TypeOK'
      <3>1. ksig_e' \in Endpoints BY <2>3, EndpointType
      <3> QED BY <1>7, <2>1, <2>3, <3>1 DEF DoGetKsig, TypeOK, RtsFlags, ipcvars, asynvars
    <2> QED BY <1>7, <2>2, <2>3 DEF DoGetKsig
  <1>8. CASE DoEndKsig
    <2>1. misc' \in [Proc -> SUBSET MiscFlags]
      BY <1>1, <1>8 DEF DoEndKsig, TypeOK
    <2>2. rts' \in [Proc -> SUBSET RtsFlags]
      <3>1. \/ UNCHANGED rts
            \/ rts' = [rts EXCEPT ![ksig_e[2]] = IF "SIGNALED" \in @ THEN @
                                                ELSE @ \ {"SIG_PENDING"}]
        BY <1>8 DEF DoEndKsig
      <3>2. rts' = rts \/ rts' = [rts EXCEPT ![ksig_e[2]] = @ \ {"SIG_PENDING"}]
        BY <3>1 DEF TypeOK
      <3>3. ksig_e[2] \in Proc BY EndpointsParts DEF TypeOK
      <3>4. rts \in [Proc -> SUBSET RtsFlags] BY DEF TypeOK
      <3> QED BY <3>2, <3>3, <3>4
    <2> QED BY <1>8, <2>1, <2>2 DEF DoEndKsig, TypeOK, ipcvars, sigvars, asynvars
  <1> QED BY <1>4, <1>5, <1>6, <1>7, <1>8

(* SENDA rebuilds the caller's table and touches processes it may send to. *)
LEMMA SendAType ==
    ASSUME TypeOK, NEW p \in Proc, NEW e \in Endpoints, NEW noreply \in BOOLEAN,
           NEW k \in 0 .. ASYN_NR, SendA(p, e, noreply, k)
    PROVE  TypeOK'
  <1> DEFINE entry == [dst |-> e, noreply |-> noreply, done |-> FALSE]
             rest  == SubSeq(asyn[p], k + 1, Len(asyn[p]))
             table == AsynTable(p, e, noreply, k)
             new   == [i \in DOMAIN table |-> [table[i] EXCEPT !.done = ~Kept(p, table, i)]]
  <1>1. p \in SysProc /\ k \in Nat /\ k <= Len(asyn[p])
    BY NumberAssumption DEF SendA
  <1>2. asyn[p] \in Seq(Entries)
    BY <1>1 DEF TypeOK
  <1>3. entry \in Entries
    BY DEF Entries
  <1>4. rest \in Seq(Entries)
    BY <1>1, <1>2
  <1>5. table \in Seq(Entries)
    BY <1>3, <1>4 DEF AsynTable
  <1>6. asyn' = [asyn EXCEPT ![p] = new]
    BY DEF SendA
  <1> HIDE DEF table
  <1>7. new \in Seq(Entries)
    <2>1. ASSUME NEW i \in DOMAIN table
          PROVE  [table[i] EXCEPT !.done = ~Kept(p, table, i)] \in Entries
      <3>1. table[i] \in Entries BY <1>5
      <3>2. (~Kept(p, table, i)) \in BOOLEAN OBVIOUS
      <3> QED BY <3>1, <3>2 DEF Entries
    <2>2. DOMAIN table = 1 .. Len(table) /\ Len(table) \in Nat
      BY <1>5
    <2>3. new \in [1 .. Len(table) -> Entries]
      BY <2>1, <2>2
    <2> HIDE DEF new
    <2> QED BY <2>2, <2>3, SeqDef
  <1>8. asyn' \in [SysProc -> Seq(Entries)]
    BY <1>6, <1>7 DEF TypeOK
  <1>9. asynsize' \in [SysProc -> BOOLEAN]
    BY DEF SendA, TypeOK
  <1>10. rts' \in [Proc -> SUBSET RtsFlags]
    BY DEF SendA, TypeOK, RtsFlags
  <1>11. misc' \in [Proc -> SUBSET MiscFlags]
    BY DEF SendA, TypeOK, MiscFlags
  <1>12. inmsg' \in [Proc -> Messages]
    <2>1. Message(p, "msg", {}) \in Messages BY MessageType
    <2> QED BY <2>1 DEF SendA, TypeOK
  <1>13. /\ retreg' \in [Proc -> Results]
         /\ UNCHANGED <<ipcvars, s_notify_pending, s_int_pending, sigvars, pmvars>>
    BY DEF SendA, TypeOK, Results
  <1> QED BY <1>8, <1>9, <1>10, <1>11, <1>12, <1>13
          DEF TypeOK, ipcvars, sigvars, pmvars

(* Every value the kernel stores in these tables has its type. *)
LEMMA NextType ==
    ASSUME TypeOK, [Next]_vars
    PROVE  TypeOK'
  <1>1. CASE UNCHANGED vars
    BY <1>1 DEF vars, ipcvars, sigvars, asynvars, TypeOK
  <1>2. ASSUME NEW p \in Proc, Trap(p) PROVE TypeOK'
    BY <1>2, SendType, SendNBType, SendRecType, NotifyType, PeerDiedType, SendAType,
       ReceiveType, PeersEndpoints, Zenon DEF Trap
  <1>3. ASSUME NEW p \in Proc, DeliverMsg(p) \/ External(p) PROVE TypeOK'
    BY <1>3, DeliverMsgType, ExternalType, Zenon
  <1>4. ASSUME NEW p \in Proc, Signal(p) PROVE TypeOK'
    <2>1. KillTargets \subseteq Proc BY ProgramAssumption
    <2> QED BY <1>4, <2>1, ExceptionType, DoKillType, Zenon DEF Signal
  <1>5. ASSUME NEW p \in Proc, Lifecycle(p) PROVE TypeOK'
    BY <1>5, ExitType, SmallCallsType, DoForkType, Zenon DEF Lifecycle
  <1>6. ASSUME NEW p \in Proc, Stop(p) PROVE TypeOK'
    BY <1>6, SmallCallsType, Zenon DEF Stop
  <1>7. CASE DoGetKsig \/ DoEndKsig
    BY <1>7, Basics, SmallCallsType, Zenon
  <1> QED BY <1>1, <1>2, <1>3, <1>4, <1>5, <1>6, <1>7, Zenon DEF Next

(* The kernel's tables always hold what their declarations allow. *)
THEOREM TypeCorrect == Spec => []TypeOK
  <1>1. Init => TypeOK
    BY InitType
  <1>2. TypeOK /\ [Next]_vars => TypeOK'
    BY NextType
  <1> QED BY <1>1, <1>2, PTL DEF Spec

-----------------------------------------------------------------------------
(* The safety of message passing.  What an action does to the queues and   *)
(* to the flags of blocked processes is one of six kinds of step; each     *)
(* kind preserves IPCInv, and each action is of one of the kinds.          *)


-----------------------------------------------------------------------------
(* The first kind: processes in S stop sending, others may stop receiving, *)
(* with a message to be delivered, and nobody new is blocked.              *)
FlagStep(S) ==
    \A p \in Proc :
        /\ "SENDING" \in rts'[p] <=> ("SENDING" \in rts[p] /\ p \notin S)
        /\ "RECEIVING" \in rts'[p] => "RECEIVING" \in rts[p]
        /\ "SLOT_FREE" \in rts'[p] <=> "SLOT_FREE" \in rts[p]
        /\ "SLOT_FREE" \in rts[p] => rts'[p] = rts[p]
        /\ "NO_ENDPOINT" \in rts'[p] <=> "NO_ENDPOINT" \in rts[p]
        /\ "DELIVERMSG" \in misc'[p] => \/ "DELIVERMSG" \in misc[p]
                                       \/ /\ "RECEIVING" \notin rts'[p]
                                          /\ "SENDING" \notin rts'[p]
        /\ ("RECEIVING" \in rts'[p] /\ getfrom[p] = ANY) =>
              /\ "REPLY_PEND" \in misc'[p] => "REPLY_PEND" \in misc[p]
              /\ s_notify_pending'[priv(p)] \subseteq s_notify_pending[priv(p)]

(* Endpoints, processes and ANY are told apart. *)
LEMMA AnyNoEndpoint == ANY \notin Endpoints
  <1>1. 0 .. MaxGen - 1 \subseteq Nat /\ Proc \subseteq Int
    BY ProcAssumption, NumberAssumption
  <1>2. \A e \in Endpoints : e \in Nat \X Int
    BY <1>1 DEF Endpoints
  <1> QED BY <1>2, AnyAssumption

(* Under a flag step the same processes live, with the same endpoints. *)
LEMMA FlagStepLives ==
    ASSUME NEW S, FlagStep(S), TypeOK, FlagsSound, TypeOK', UNCHANGED gen
    PROVE  /\ \A p \in Proc : Alive(p)' <=> Alive(p)
           /\ \A p \in Proc : isemptyp(p)' <=> isemptyp(p)
           /\ \A p \in Proc : Endpoint(p)' = Endpoint(p)
           /\ \A e \in Endpoints : isokendpt(e)' <=> isokendpt(e)
  <1>1. \A p \in Proc : Alive(p)' <=> Alive(p)
    BY DEF FlagStep, Alive
  <1>2. \A p \in Proc : isemptyp(p)' <=> isemptyp(p)
    BY DEF FlagStep, isemptyp, FlagsSound, TypeOK
  <1>3. \A p \in Proc : Endpoint(p)' = Endpoint(p)
    BY DEF Endpoint
  <1>4. \A e \in Endpoints : isokendpt(e)' <=> isokendpt(e)
    BY <1>2, <1>3, EndpointsParts DEF isokendpt
  <1> QED BY <1>1, <1>2, <1>3, <1>4

(* A flag step preserves the parts of IPCInv that speak of flags only. *)
LEMMA FlagStepFlags ==
    ASSUME NEW S, FlagStep(S), IPCInv, TypeOK', UNCHANGED <<gen, getfrom, sendto>>
    PROVE  FlagsSound' /\ BlockedOnLive' /\ OneMessage'
  <1> USE DEF IPCInv
  <1>1. FlagsSound'
    BY DEF FlagStep, FlagsSound
  <1>2. BlockedOnLive'
    <2>1. ASSUME NEW p \in Proc, "SENDING" \in rts'[p]
          PROVE  isokendpt(sendto[p])' /\ Alive(sendto[p][2])'
      <3>1. sendto[p] \in Endpoints /\ sendto[p][2] \in Proc
        BY EndpointsParts DEF TypeOK
      <3>2. isokendpt(sendto[p]) /\ Alive(sendto[p][2])
        BY <2>1 DEF FlagStep, BlockedOnLive
      <3>3. isokendpt(sendto[p])' <=> isokendpt(sendto[p])
        BY <3>1, FlagStepLives
      <3> QED BY <3>1, <3>2, <3>3, FlagStepLives
    <2>2. ASSUME NEW p \in Proc, "RECEIVING" \in rts'[p], getfrom[p] # ANY
          PROVE  isokendpt(getfrom[p])' /\ Alive(getfrom[p][2])'
      <3>1. getfrom[p] \in Endpoints /\ getfrom[p][2] \in Proc
        BY <2>2, EndpointsParts DEF TypeOK
      <3>2. isokendpt(getfrom[p]) /\ Alive(getfrom[p][2])
        BY <2>2 DEF FlagStep, BlockedOnLive
      <3> QED BY <3>1, <3>2, FlagStepLives
    <2> QED BY <2>1, <2>2 DEF BlockedOnLive
  <1>3. OneMessage'
    BY DEF FlagStep, OneMessage
  <1> QED BY <1>1, <1>2, <1>3

(* QueueSound says of a queue that it is distinct and who its members are. *)
LEMMA QueueSoundIs ==
    QueueSound <=>
        \A d \in Proc : Alive(d) =>
            /\ Distinct(callerq[d])
            /\ \A p \in Proc : Member(p, callerq[d])
                                 <=> ("SENDING" \in rts[p] /\ sendto[p] = Endpoint(d))
  BY DEF QueueSound, Distinct, Member

(* A flag step that leaves queues and senders alone preserves IPCInv. *)
LEMMA FlagStepInv ==
    ASSUME IPCInv, TypeOK', FlagStep({}), UNCHANGED ipcvars
    PROVE  IPCInv'
  <1>0. UNCHANGED <<gen, getfrom, sendto, callerq>>
    BY DEF ipcvars
  <1>1. FlagsSound' /\ BlockedOnLive' /\ OneMessage'
    BY <1>0, FlagStepFlags
  <1>2. QueueSound'
    <2>1. TypeOK /\ FlagsSound BY DEF IPCInv
    <2>2. /\ \A p \in Proc : Alive(p)' <=> Alive(p)
          /\ \A p \in Proc : Endpoint(p)' = Endpoint(p)
      BY <1>0, <2>1, FlagStepLives
    <2>3. \A p \in Proc : "SENDING" \in rts'[p] <=> "SENDING" \in rts[p]
      BY DEF FlagStep
    <2> QED BY <1>0, <2>2, <2>3 DEF QueueSound, IPCInv
  <1>3. NoMissedRendezvous'
    <2>1. \A p \in Proc : Endpoint(p)' = Endpoint(p)
      BY <1>0 DEF Endpoint
    <2>2. SUFFICES ASSUME NEW p \in Proc, "RECEIVING" \in rts'[p], "SENDING" \notin rts'[p]
                   PROVE  /\ \A i \in DOMAIN callerq[p] :
                                getfrom[p] # ANY /\ getfrom[p] # Endpoint(callerq[p][i])
                          /\ getfrom[p] = ANY => s_notify_pending'[priv(p)] = {}
      <3>1. \A p \in Proc : \A i \in DOMAIN callerq[p] : callerq[p][i] \in Proc
        BY DEF IPCInv, TypeOK
      <3> QED BY <1>0, <2>1, <3>1 DEF NoMissedRendezvous
    <2>3. "RECEIVING" \in rts[p] /\ "SENDING" \notin rts[p]
      BY <2>2 DEF FlagStep
    <2> QED BY <2>2, <2>3 DEF FlagStep, IPCInv, NoMissedRendezvous
  <1> QED BY <1>1, <1>2, <1>3 DEF IPCInv

-----------------------------------------------------------------------------
(* What mini_notify and cause_sig do to flags r, m and the notify maps np. *)
Woken(r, m, np) ==
    \A p \in Proc :
        /\ \A f \in {"SENDING", "SLOT_FREE", "NO_ENDPOINT"} : f \in rts'[p] <=> f \in r[p]
        /\ "RECEIVING" \in rts'[p] => "RECEIVING" \in r[p]
        /\ "SLOT_FREE" \in r[p] => rts'[p] = r[p]
        /\ "REPLY_PEND" \in misc'[p] => "REPLY_PEND" \in m[p]
        /\ "DELIVERMSG" \in misc'[p] => \/ "DELIVERMSG" \in m[p]
                                       \/ /\ "RECEIVING" \notin rts'[p]
                                          /\ "SENDING" \notin r[p]
        /\ (/\ "RECEIVING" \in rts'[p] /\ "SENDING" \notin r[p]
            /\ getfrom[p] = ANY /\ p \in SysProc /\ "REPLY_PEND" \notin m[p])
              => s_notify_pending'[priv(p)] = np[priv(p)]

(* A system process shares its privilege structure with no one. *)
LEMMA PrivOfOne ==
    ASSUME NEW p \in SysProc, NEW q \in Proc, priv(p) = priv(q) PROVE p = q
  BY ProcAssumption DEF priv

(* mini_notify wakes its target or marks a bit that its target did not wait for. *)
LEMMA MiniNotifyWakes ==
    ASSUME NEW source \in Proc, NEW target \in Proc, NEW ints, NEW sigs,
           NEW r \in [Proc -> SUBSET RtsFlags],
           NEW m \in [Proc -> SUBSET MiscFlags], NEW i,
           NEW np \in [Priv -> SUBSET SysProc],
           \A p \in Proc : "SLOT_FREE" \in r[p] => r[p] = {"SLOT_FREE"},
           mini_notify(source, target, ints, sigs, r, m, i, np)
    PROVE  Woken(r, m, np)
  <1>1. CASE WILLRECEIVE(r, target, source) /\ "REPLY_PEND" \notin m[target]
    <2>1. /\ rts' = [r EXCEPT ![target] = @ \ {"RECEIVING"}]
          /\ misc' = [m EXCEPT ![target] = @ \cup {"DELIVERMSG"}]
          /\ s_notify_pending' = np
      BY <1>1 DEF mini_notify
    <2>2. "RECEIVING" \in r[target] /\ "SENDING" \notin r[target]
      BY <1>1 DEF WILLRECEIVE
    <2> QED BY <2>1, <2>2 DEF Woken
  <1>2. CASE ~(WILLRECEIVE(r, target, source) /\ "REPLY_PEND" \notin m[target])
    <2>1. /\ rts' = r /\ misc' = m
          /\ s_notify_pending' = [np EXCEPT ![priv(target)] = @ \cup {source}]
      BY <1>2 DEF mini_notify
    <2>2. ASSUME NEW p \in SysProc, "RECEIVING" \in rts'[p], "SENDING" \notin r[p],
                 getfrom[p] = ANY, "REPLY_PEND" \notin m[p]
          PROVE  s_notify_pending'[priv(p)] = np[priv(p)]
      <3>1. p # target
        BY <1>2, <2>1, <2>2 DEF WILLRECEIVE
      <3>2. priv(p) # priv(target)
        BY <3>1, PrivOfOne
      <3> QED BY <2>1, <3>2, Basics
    <2> QED BY <2>1, <2>2 DEF Woken
  <1> QED BY <1>1, <1>2

(* So does cause_sig, which otherwise only blocks the signalled process. *)
LEMMA CauseSigWakes ==
    ASSUME NEW target \in Proc, NEW sig,
           NEW r \in [Proc -> SUBSET RtsFlags],
           NEW m \in [Proc -> SUBSET MiscFlags], NEW i,
           NEW np \in [Priv -> SUBSET SysProc],
           \A p \in Proc : "SLOT_FREE" \in r[p] => r[p] = {"SLOT_FREE"},
           "SLOT_FREE" \notin r[target],
           cause_sig(target, sig, r, m, i, np)
    PROVE  Woken(r, m, np)
  <1> DEFINE sp == [s_sig_pending EXCEPT ![PM] = @ \cup {"SIGKSIG"}]
             r1 == [r EXCEPT ![target] = @ \cup {"SIGNALED", "SIG_PENDING"}]
  <1>1. CASE sig \notin p_pending[target] /\ "SIGNALED" \notin r[target]
    <2>1. mini_notify(SYSTEM, PM, s_int_pending, sp, r1, m, i, np)
      BY <1>1 DEF cause_sig
    <2>2. /\ r1 \in [Proc -> SUBSET RtsFlags]
          /\ \A p \in Proc : "SLOT_FREE" \in r1[p] => r1[p] = {"SLOT_FREE"}
      BY DEF RtsFlags
    <2>3. Woken(r1, m, np)
      <3> HIDE DEF r1, sp
      <3> QED BY <2>1, <2>2, Basics, MiniNotifyWakes
    <2> QED BY <2>3 DEF Woken
  <1>2. CASE ~(sig \notin p_pending[target] /\ "SIGNALED" \notin r[target])
    <2>1. rts' = r /\ misc' = m /\ s_notify_pending' = np
      BY <1>2 DEF cause_sig
    <2> QED BY <2>1 DEF Woken
  <1> QED BY <1>1, <1>2

(* A process in receive(ANY) awaits no reply and owns its privilege structure. *)
LEMMA ReceivingAny ==
    ASSUME IPCInv, NEW p \in Proc, "RECEIVING" \in rts[p], getfrom[p] = ANY
    PROVE  p \in SysProc /\ "REPLY_PEND" \notin misc[p] /\ "SENDING" \notin rts[p]
  BY AnyNoEndpoint DEF IPCInv, FlagsSound, TypeOK

(* A step whose whole effect is a notification. *)
LEMMA WokenStep ==
    ASSUME IPCInv, TypeOK', UNCHANGED ipcvars, NEW m,
           \A p \in Proc : /\ "DELIVERMSG" \in m[p] => "DELIVERMSG" \in misc[p]
                           /\ "RECEIVING" \in rts[p] => m[p] = misc[p],
           Woken(rts, m, s_notify_pending)
    PROVE  IPCInv'
  <1>1. ASSUME NEW p \in Proc, "RECEIVING" \in rts'[p], getfrom[p] = ANY
        PROVE  /\ "REPLY_PEND" \in misc'[p] => "REPLY_PEND" \in misc[p]
               /\ s_notify_pending'[priv(p)] \subseteq s_notify_pending[priv(p)]
    <2>1. "RECEIVING" \in rts[p]
      BY <1>1 DEF Woken
    <2> QED BY <1>1, <2>1, ReceivingAny DEF Woken
  <1>2. FlagStep({})
    BY <1>1 DEF Woken, FlagStep
  <1> QED BY <1>2, FlagStepInv

(* A message handed to a process that waits for it. *)
LEMMA DeliverInv ==
    ASSUME IPCInv, TypeOK', UNCHANGED ipcvars, UNCHANGED s_notify_pending,
           NEW p \in Proc, NEW d \in Proc, WILLRECEIVE(rts, d, p),
           QueueMess(p, d, rts, misc)
    PROVE  IPCInv'
  <1>1. "RECEIVING" \in rts[d] /\ "SENDING" \notin rts[d]
    BY DEF WILLRECEIVE
  <1>2. FlagStep({})
    BY <1>1 DEF QueueMess, FlagStep, IPCInv, TypeOK, FlagsSound
  <1> QED BY <1>2, FlagStepInv

(* SENDNB preserves IPCInv. *)
LEMMA SendNBInv ==
    ASSUME IPCInv, NEW p \in Proc, NEW e \in Endpoints, SendNB(p, e)
    PROVE  IPCInv'
  <1>1. TypeOK' BY SendNBType DEF IPCInv
  <1>2. e[2] \in Proc BY EndpointsParts
  <1> QED BY <1>1, <1>2, DeliverInv DEF SendNB

(* NOTIFY preserves IPCInv. *)
LEMMA NotifyInv ==
    ASSUME IPCInv, NEW p \in Proc, NEW e \in Endpoints, Notify(p, e)
    PROVE  IPCInv'
  <1>1. TypeOK' BY NotifyType DEF IPCInv
  <1>2. e[2] \in Proc BY EndpointsParts
  <1>3. /\ mini_notify(p, e[2], s_int_pending, s_sig_pending, rts, misc, inmsg,
                       s_notify_pending)
        /\ UNCHANGED ipcvars
    BY DEF Notify
  <1>4. Woken(rts, misc, s_notify_pending)
    BY <1>2, <1>3, MiniNotifyWakes DEF IPCInv, TypeOK, FlagsSound
  <1> QED BY <1>1, <1>3, <1>4, WokenStep

(* Interrupts and alarms preserve IPCInv. *)
LEMMA ExternalInv ==
    ASSUME IPCInv, NEW d \in Proc, External(d)
    PROVE  IPCInv'
  <1>1. TypeOK' BY ExternalType DEF IPCInv
  <1>2. UNCHANGED ipcvars BY DEF External, Alarm, Interrupt
  <1>3. \E source \in Proc : \E ints, sigs :
           mini_notify(source, d, ints, sigs, rts, misc, inmsg, s_notify_pending)
    BY Basics DEF External, Alarm, Interrupt
  <1>4. Woken(rts, misc, s_notify_pending)
    BY <1>3, MiniNotifyWakes DEF IPCInv, TypeOK, FlagsSound
  <1> QED BY <1>1, <1>2, <1>4, WokenStep

(* An exception preserves IPCInv. *)
LEMMA ExceptionInv ==
    ASSUME IPCInv, NEW p \in Proc, Exception(p)
    PROVE  IPCInv'
  <1>1. TypeOK' BY ExceptionType DEF IPCInv
  <1>2. /\ cause_sig(p, "SIGSEGV", rts, misc, inmsg, s_notify_pending)
        /\ UNCHANGED ipcvars /\ rts[p] = {}
    BY DEF Exception, Running
  <1>3. Woken(rts, misc, s_notify_pending)
    BY <1>2, CauseSigWakes DEF IPCInv, TypeOK, FlagsSound
  <1> QED BY <1>1, <1>2, <1>3, WokenStep

(* do_kill with a signal other than SIGKILL preserves IPCInv. *)
LEMMA DoKillTermInv ==
    ASSUME IPCInv, NEW p \in Proc, NEW t \in Proc, DoKill(p, t, "SIGTERM")
    PROVE  IPCInv'
  <1>1. TypeOK' BY DoKillType DEF IPCInv
  <1>2. /\ cause_sig(t, "SIGTERM", rts, KernelCall(p, misc), inmsg, s_notify_pending)
        /\ UNCHANGED ipcvars
    BY DEF DoKill, ipcvars
  <1>3. "SLOT_FREE" \notin rts[t] /\ rts[p] = {}
    BY DEF DoKill, Running, isemptyp, IPCInv, FlagsSound
  <1>4. KernelCall(p, misc) \in [Proc -> SUBSET MiscFlags]
    BY KernelCallType DEF IPCInv, TypeOK
  <1>5. Woken(rts, KernelCall(p, misc), s_notify_pending)
    BY <1>2, <1>3, <1>4, CauseSigWakes DEF IPCInv, TypeOK, FlagsSound
  <1>6. \A q \in Proc : /\ "DELIVERMSG" \in KernelCall(p, misc)[q] => "DELIVERMSG" \in misc[q]
                        /\ "RECEIVING" \in rts[q] => KernelCall(p, misc)[q] = misc[q]
    BY <1>3 DEF KernelCall, IPCInv, TypeOK
  <1> QED BY <1>1, <1>2, <1>5, <1>6, WokenStep

(* mini_senda, which may wake several processes at once, preserves IPCInv. *)
LEMMA SendAInv ==
    ASSUME IPCInv, NEW p \in Proc, NEW e \in Endpoints, NEW noreply \in BOOLEAN,
           NEW k \in 0 .. ASYN_NR, SendA(p, e, noreply, k)
    PROVE  IPCInv'
  <1> DEFINE table   == AsynTable(p, e, noreply, k)
             Served  == {q \in Proc : \E i \in DOMAIN table :
                                    table[i].dst[2] = q /\ Given(p, table, i)}
             Flagged == {q \in Proc : \E i \in DOMAIN table :
                                    table[i].dst[2] = q /\ Kept(p, table, i)}
  <1>1. TypeOK' BY SendAType DEF IPCInv
  <1>2. /\ rts' = [q \in Proc |-> IF q \in Served THEN rts[q] \ {"RECEIVING"}
                                                 ELSE rts[q]]
        /\ misc' = [q \in Proc |->
                       misc[q] \cup {f \in {"DELIVERMSG", "ASYNMSG"} :
                                       \/ f = "DELIVERMSG" /\ q \in Served
                                       \/ f = "ASYNMSG" /\ q \in Flagged}]
        /\ UNCHANGED <<ipcvars, s_notify_pending>>
    BY DEF SendA
  <1>3. \A q \in Served : "RECEIVING" \in rts[q] /\ "SENDING" \notin rts[q]
    BY DEF Given, Fits, WILLRECEIVE
  <1> HIDE DEF Served, Flagged
  <1>4. FlagStep({})
    BY <1>2, <1>3 DEF FlagStep, IPCInv, TypeOK, FlagsSound
  <1> QED BY <1>1, <1>2, <1>4, FlagStepInv

(* RECEIVE that finds a notification or an asynchronous message. *)
LEMMA ReceiveAtOnceInv ==
    ASSUME IPCInv, TypeOK', NEW p \in Proc, NEW src, rts[p] = {},
           LET m == [misc EXCEPT ![p] = @ \ {"REPLY_PEND"}]
           IN  ReceiveNotification(p, src, m) \/ ReceiveAsync(p, src, m)
    PROVE  IPCInv'
  <1> DEFINE m == [misc EXCEPT ![p] = @ \ {"REPLY_PEND"}]
  <1>1. /\ UNCHANGED rts /\ UNCHANGED ipcvars
        /\ misc' = [m EXCEPT ![p] = @ \cup {"DELIVERMSG"}]
        /\ \/ \E s : s_notify_pending' = [s_notify_pending EXCEPT ![priv(p)] = @ \ {s}]
           \/ UNCHANGED s_notify_pending
    <2>1. CASE ReceiveNotification(p, src, m)
      BY <2>1 DEF ReceiveNotification
    <2>2. CASE ReceiveAsync(p, src, m)
      BY <2>2 DEF ReceiveAsync, TakeAsync
    <2> QED BY <2>1, <2>2
  <1>2. \A q \in Priv : s_notify_pending'[q] \subseteq s_notify_pending[q]
    <2>1. s_notify_pending \in [Priv -> SUBSET SysProc] /\ priv(p) \in Priv
      BY Basics DEF IPCInv, TypeOK
    <2>2. ASSUME NEW s, s_notify_pending' = [s_notify_pending EXCEPT ![priv(p)] = @ \ {s}]
          PROVE  \A q \in Priv : s_notify_pending'[q] \subseteq s_notify_pending[q]
      BY <2>1, <2>2
    <2> QED BY <1>1, <2>2
  <1>3. \A q \in Proc : q # p => misc'[q] = misc[q]
    BY <1>1 DEF IPCInv, TypeOK
  <1>4. FlagStep({})
    BY <1>1, <1>2, <1>3, Basics DEF FlagStep, IPCInv, TypeOK, FlagsSound
  <1> QED BY <1>1, <1>4, FlagStepInv

(* A call that fails because the peer has no endpoint preserves IPCInv. *)
LEMMA PeerDiedInv ==
    ASSUME IPCInv, NEW p \in Proc, NEW call, NEW e, PeerDied(p, call, e)
    PROVE  IPCInv'
  <1>1. TypeOK' BY PeerDiedType DEF IPCInv
  <1>2. /\ UNCHANGED <<rts, ipcvars, s_notify_pending>> /\ rts[p] = {}
        /\ misc' = [misc EXCEPT ![p] = IF call = "SENDREC" THEN @ \cup {"REPLY_PEND"}
                                                           ELSE @ \ {"REPLY_PEND"}]
    BY DEF PeerDied, sys_call, Running
  <1>3. FlagStep({})
    BY <1>2 DEF FlagStep, IPCInv, TypeOK, FlagsSound
  <1> QED BY <1>1, <1>2, <1>3, FlagStepInv

(* delivermsg preserves IPCInv. *)
LEMMA DeliverMsgInv ==
    ASSUME IPCInv, NEW p \in Proc, DeliverMsg(p)
    PROVE  IPCInv'
  <1>1. TypeOK' BY DeliverMsgType DEF IPCInv
  <1>2. /\ UNCHANGED <<rts, ipcvars, s_notify_pending>>
        /\ misc' = [misc EXCEPT ![p] = @ \ {"DELIVERMSG"}]
    BY DEF DeliverMsg
  <1>3. FlagStep({})
    BY <1>2 DEF FlagStep, IPCInv, TypeOK, FlagsSound
  <1> QED BY <1>1, <1>2, <1>3, FlagStepInv

(* Kernel calls that leave queues and endpoints alone. *)
LEMMA SmallCallsInv ==
    ASSUME IPCInv, NEW p \in Proc,
           \/ DoPrivctl(p) \/ DoResume(p) \/ DoGetKsig \/ DoEndKsig
           \/ \E delay \in BOOLEAN : DoStop(p, delay)
    PROVE  IPCInv'
  <1>1. TypeOK' BY SmallCallsType DEF IPCInv
  <1>2. UNCHANGED ipcvars /\ UNCHANGED s_notify_pending
    BY DEF DoPrivctl, DoResume, DoGetKsig, DoEndKsig, DoStop
  <1>3. PICK k \in Proc :
        /\ rts[k] = {}
        /\ \A q \in Proc : /\ "DELIVERMSG" \in misc'[q] => "DELIVERMSG" \in misc[q]
                           /\ (q # k /\ "REPLY_PEND" \in misc'[q]) => "REPLY_PEND" \in misc[q]
    <2>1. \E k \in SysProc :
          /\ rts[k] = {}
          /\ \/ UNCHANGED misc
             \/ misc' = KernelCall(k, misc)
             \/ misc' = KernelCall(k, [misc EXCEPT ![p] = @ \cup {"SIG_DELAY"}])
      <3>1. CASE DoPrivctl(p)
        BY <3>1 DEF DoPrivctl, Running
      <3>2. CASE \/ DoResume(p) \/ DoGetKsig \/ DoEndKsig
                 \/ \E delay \in BOOLEAN : DoStop(p, delay)
        BY <3>2, ProcAssumption DEF DoResume, DoGetKsig, DoEndKsig, DoStop, Running
      <3> QED BY <3>1, <3>2
    <2>2. misc \in [Proc -> SUBSET MiscFlags] /\ SysProc \subseteq Proc
      BY Basics DEF IPCInv, TypeOK
    <2> QED BY <2>1, <2>2 DEF KernelCall
  <1>4. \A q \in Proc :
          /\ \A f \in {"SENDING", "RECEIVING", "SLOT_FREE", "NO_ENDPOINT"} :
                f \in rts'[q] <=> f \in rts[q]
          /\ "SLOT_FREE" \in rts[q] => rts'[q] = rts[q]
    <2>1. rts \in [Proc -> SUBSET RtsFlags]
      BY DEF IPCInv, TypeOK
    <2>2. \A q \in Proc : "SLOT_FREE" \in rts[q] => rts[q] = {"SLOT_FREE"}
      BY DEF IPCInv, FlagsSound
    <2>3. CASE DoPrivctl(p)
      BY <2>1, <2>2, <2>3 DEF DoPrivctl
    <2>4. CASE DoResume(p)
      BY <2>1, <2>2, <2>4 DEF DoResume
    <2>5. CASE \E delay \in BOOLEAN : DoStop(p, delay)
      <3>1. \/ UNCHANGED rts
            \/ ~isemptyp(p) /\ rts' = [rts EXCEPT ![p] = @ \cup {"PROC_STOP"}]
        BY <2>5 DEF DoStop
      <3> QED BY <2>1, <2>2, <3>1 DEF isemptyp
    <2>6. CASE DoGetKsig
      <3>1. \/ UNCHANGED rts
            \/ \E q \in Proc : rts' = [rts EXCEPT ![q] = @ \ {"SIGNALED"}]
        BY <2>6 DEF DoGetKsig
      <3> QED BY <2>1, <2>2, <3>1
    <2>7. CASE DoEndKsig
      <3>1. \/ UNCHANGED rts
            \/ rts' = [rts EXCEPT ![ksig_e[2]] = IF "SIGNALED" \in @ THEN @
                                                ELSE @ \ {"SIG_PENDING"}]
        BY <2>7 DEF DoEndKsig
      <3>2. rts' = rts \/ rts' = [rts EXCEPT ![ksig_e[2]] = @ \ {"SIG_PENDING"}]
        BY <2>1, <3>1
      <3> QED BY <2>1, <2>2, <3>2
    <2> QED BY <2>3, <2>4, <2>5, <2>6, <2>7
  <1>5. FlagStep({})
    BY <1>2, <1>3, <1>4 DEF FlagStep
  <1> QED BY <1>1, <1>2, <1>5, FlagStepInv

-----------------------------------------------------------------------------
(* The second kind: a message is taken off a queue. *)

(* The members of a caller queue are processes. *)
LEMMA CallersAreProcs ==
    ASSUME TypeOK, NEW p \in Proc, NEW i \in DOMAIN callerq[p]
    PROVE  /\ callerq[p][i] \in Proc /\ i \in 1 .. Len(callerq[p])
           /\ callerq[p] \in Seq(Proc) /\ Member(callerq[p][i], callerq[p])
  BY DEF TypeOK, Member

(* What to show for NoMissedRendezvous in the next state. *)
LEMMA RendezvousNext ==
    ASSUME UNCHANGED gen,
           \A q \in Proc : ("RECEIVING" \in rts'[q] /\ "SENDING" \notin rts'[q]) =>
               /\ \A j \in DOMAIN callerq'[q] :
                     getfrom'[q] # ANY /\ getfrom'[q] # Endpoint(callerq'[q][j])
               /\ getfrom'[q] = ANY => s_notify_pending'[priv(q)] = {}
    PROVE  NoMissedRendezvous'
  BY DEF NoMissedRendezvous, Endpoint

(* Taking sender number i off p's queue and ending its SENDING preserves IPCInv. *)
LEMMA DequeueInv ==
    ASSUME IPCInv, TypeOK', NEW p \in Proc, rts[p] = {},
           NEW i \in DOMAIN callerq[p], FlagStep({callerq[p][i]}),
           UNCHANGED <<gen, getfrom, sendto>>,
           callerq' = [callerq EXCEPT ![p] = RemoveAt(@, i)]
    PROVE  IPCInv'
  <1> DEFINE x == callerq[p][i]
  <1>0. TypeOK /\ FlagsSound /\ QueueSound BY DEF IPCInv
  <1>1. FlagsSound' /\ BlockedOnLive' /\ OneMessage'
    BY FlagStepFlags
  <1>2. /\ \A q \in Proc : Alive(q)' <=> Alive(q)
        /\ \A q \in Proc : Endpoint(q)' = Endpoint(q)
    BY <1>0, FlagStepLives
  <1>3. x \in Proc /\ i \in 1 .. Len(callerq[p]) /\ callerq[p] \in Seq(Proc)
        /\ Member(x, callerq[p])
    BY <1>0, CallersAreProcs
  <1>4. Alive(p)
    BY DEF Alive
  <1>5. "SENDING" \in rts[x] /\ sendto[x] = Endpoint(p)
    BY <1>0, <1>3, <1>4, QueueSoundIs
  <1>6. \A q \in Proc : "SENDING" \in rts'[q] <=> ("SENDING" \in rts[q] /\ q # x)
    BY DEF FlagStep
  <1>7. \A q \in Proc : callerq'[q] = IF q = p THEN RemoveAt(callerq[p], i) ELSE callerq[q]
    BY <1>0 DEF TypeOK
  <1>8. QueueSound'
    <2>1. Distinct(callerq[p])
      BY <1>0, <1>4, QueueSoundIs
    <2>2. /\ Distinct(RemoveAt(callerq[p], i))
          /\ \A y : Member(y, RemoveAt(callerq[p], i)) <=> (Member(y, callerq[p]) /\ y # x)
      BY <1>3, <2>1, RemoveAtQueue
    <2>3. \A d \in Proc : d # p => Endpoint(d) # Endpoint(p)
      BY DEF Endpoint
    <2> HIDE DEF x
    <2>4. ASSUME NEW d \in Proc, Alive(d)
          PROVE  /\ Distinct(callerq'[d])
                 /\ \A q \in Proc : Member(q, callerq'[d])
                        <=> ("SENDING" \in rts'[q] /\ sendto'[q] = Endpoint(d)')
      <3>1. /\ Distinct(callerq[d])
            /\ \A q \in Proc : Member(q, callerq[d])
                                 <=> ("SENDING" \in rts[q] /\ sendto[q] = Endpoint(d))
        BY <1>0, <2>4, QueueSoundIs
      <3>2. CASE d = p
        BY <1>2, <1>6, <1>7, <2>2, <3>1, <3>2
      <3>3. CASE d # p
        BY <1>2, <1>5, <1>6, <1>7, <2>3, <3>1, <3>3
      <3> QED BY <3>2, <3>3
    <2> QED BY <1>2, <2>4 DEF QueueSound, Distinct, Member
  <1>9. NoMissedRendezvous'
    <2>1. SUFFICES ASSUME NEW q \in Proc, "RECEIVING" \in rts'[q], "SENDING" \notin rts'[q]
                   PROVE  /\ \A j \in DOMAIN callerq'[q] :
                                getfrom[q] # ANY /\ getfrom[q] # Endpoint(callerq'[q][j])
                          /\ getfrom[q] = ANY => s_notify_pending'[priv(q)] = {}
      BY RendezvousNext
    <2>2. "RECEIVING" \in rts[q] /\ q # p
      BY <2>1 DEF FlagStep
    <2>3. callerq'[q] = callerq[q] /\ \A j \in DOMAIN callerq[q] : callerq[q][j] \in Proc
      BY <1>0, <1>7, <2>2, CallersAreProcs
    <2>4. CASE q # x
      <3>1. "SENDING" \notin rts[q]
        BY <1>6, <2>1, <2>4
      <3>2. /\ \A j \in DOMAIN callerq[q] :
                  getfrom[q] # ANY /\ getfrom[q] # Endpoint(callerq[q][j])
            /\ getfrom[q] = ANY => s_notify_pending[priv(q)] = {}
        BY <2>2, <3>1 DEF IPCInv, NoMissedRendezvous
      <3> QED BY <2>1, <2>3, <3>2 DEF FlagStep
    <2>5. CASE q = x
      <3>1. getfrom[q] = Endpoint(p)
        BY <1>0, <1>3, <1>5, <2>2, <2>5 DEF FlagsSound
      <3>2. getfrom[q] # ANY
        BY <1>0, <3>1, EndpointType, AnyNoEndpoint
      <3>3. ~Member(p, callerq[q])
        <4>1. Alive(q)
          BY <1>0, <1>5, <2>5 DEF FlagsSound, Alive
        <4> QED BY <1>0, <4>1, QueueSoundIs
      <3>4. \A y \in Proc : Endpoint(y) = Endpoint(p) => y = p
        BY DEF Endpoint
      <3> QED BY <2>3, <3>1, <3>2, <3>3, <3>4 DEF Member
    <2> QED BY <2>4, <2>5
  <1> QED BY <1>1, <1>8, <1>9 DEF IPCInv

(* mini_receive that takes a sender off its queue preserves IPCInv. *)
LEMMA ReceiveQueuedInv ==
    ASSUME IPCInv, TypeOK', NEW p \in Proc, NEW src, rts[p] = {},
           ReceiveQueued(p, src, [misc EXCEPT ![p] = @ \ {"REPLY_PEND"}])
    PROVE  IPCInv'
  <1> DEFINE m     == [misc EXCEPT ![p] = @ \ {"REPLY_PEND"}]
             x(i)  == callerq[p][i]
             r(i)  == [rts EXCEPT ![x(i)] = @ \ {"SENDING"}]
             m1    == [m EXCEPT ![p] = @ \cup {"DELIVERMSG"}]
             m2(i) == [m1 EXCEPT ![x(i)] = @ \ {"SIG_DELAY"}]
             i1(i) == [inmsg EXCEPT ![p] = Message(x(i), "msg", {})]
  <1>1. PICK i \in InQueue(p, src) :
         /\ callerq' = [callerq EXCEPT ![p] = RemoveAt(@, i)]
         /\ IF "SIG_DELAY" \in misc[x(i)]
            THEN cause_sig(x(i), "SIGNDELAY", r(i), m2(i), i1(i), s_notify_pending)
            ELSE /\ rts' = r(i) /\ misc' = m1 /\ inmsg' = i1(i)
                 /\ UNCHANGED <<s_notify_pending, s_int_pending, sigvars>>
         /\ UNCHANGED <<gen, getfrom, sendto, asynvars>>
    BY DEF ReceiveQueued
  <1>2. i \in DOMAIN callerq[p] BY DEF InQueue
  <1>3. x(i) \in Proc /\ Member(x(i), callerq[p])
    BY <1>2, CallersAreProcs DEF IPCInv
  <1>4. "SENDING" \in rts[x(i)] /\ "SLOT_FREE" \notin rts[x(i)]
    <2>1. Alive(p) BY DEF Alive
    <2>2. "SENDING" \in rts[x(i)]
      BY <1>3, <2>1, QueueSoundIs DEF IPCInv
    <2> QED BY <1>3, <2>2 DEF IPCInv, FlagsSound
  <1>5. /\ rts \in [Proc -> SUBSET RtsFlags] /\ misc \in [Proc -> SUBSET MiscFlags]
        /\ s_notify_pending \in [Priv -> SUBSET SysProc]
    BY DEF IPCInv, TypeOK
  <1>6. \A q \in Proc : "SLOT_FREE" \in rts[q] => rts[q] = {"SLOT_FREE"}
    BY DEF IPCInv, FlagsSound
  <1>7. Woken(r(i), m1, s_notify_pending)
    <2>1. CASE "SIG_DELAY" \in misc[x(i)]
      <3>1. cause_sig(x(i), "SIGNDELAY", r(i), m2(i), i1(i), s_notify_pending)
        BY <1>1, <2>1
      <3>2. /\ r(i) \in [Proc -> SUBSET RtsFlags] /\ m2(i) \in [Proc -> SUBSET MiscFlags]
            /\ \A q \in Proc : "SLOT_FREE" \in r(i)[q] => r(i)[q] = {"SLOT_FREE"}
            /\ "SLOT_FREE" \notin r(i)[x(i)]
        BY <1>3, <1>4, <1>5, <1>6 DEF MiscFlags
      <3>3. Woken(r(i), m2(i), s_notify_pending)
        <4> HIDE DEF x, r, m2, i1
        <4> QED BY <1>3, <1>5, <3>1, <3>2, CauseSigWakes
      <3>4. \A q \in Proc, f \in {"REPLY_PEND", "DELIVERMSG"} : f \in m2(i)[q] <=> f \in m1[q]
        BY <1>3, <1>5
      <3> HIDE DEF r, m1, m2
      <3> QED BY <3>3, <3>4 DEF Woken
    <2>2. CASE "SIG_DELAY" \notin misc[x(i)]
      <3>1. rts' = r(i) /\ misc' = m1 /\ UNCHANGED s_notify_pending
        BY <1>1, <2>2
      <3> HIDE DEF r, m1
      <3> QED BY <3>1 DEF Woken
    <2> QED BY <2>1, <2>2
  <1>8. FlagStep({x(i)})
    <2>1. ASSUME NEW q \in Proc, "RECEIVING" \in rts'[q], getfrom[q] = ANY
          PROVE  /\ "REPLY_PEND" \in misc'[q] => "REPLY_PEND" \in misc[q]
                 /\ s_notify_pending'[priv(q)] \subseteq s_notify_pending[priv(q)]
      <3>1. "RECEIVING" \in rts[q] /\ q # p
        BY <1>3, <1>5, <1>7, <2>1 DEF Woken
      <3>2. q \in SysProc /\ "REPLY_PEND" \notin misc[q] /\ "SENDING" \notin rts[q]
        BY <2>1, <3>1, ReceivingAny
      <3>3. "REPLY_PEND" \notin m1[q] /\ "SENDING" \notin r(i)[q]
        BY <1>3, <1>5, <3>1, <3>2
      <3> HIDE DEF r, m1, x
      <3> QED BY <1>7, <2>1, <3>2, <3>3 DEF Woken
    <2>2. ASSUME NEW q \in Proc
          PROVE  /\ "SENDING" \in r(i)[q] <=> ("SENDING" \in rts[q] /\ q # x(i))
                 /\ \A f \in {"RECEIVING", "SLOT_FREE", "NO_ENDPOINT"} :
                       f \in r(i)[q] <=> f \in rts[q]
                 /\ "SLOT_FREE" \in rts[q] => r(i)[q] = rts[q]
                 /\ "DELIVERMSG" \in m1[q] => "DELIVERMSG" \in misc[q] \/ rts[q] = {}
      BY <1>3, <1>4, <1>5, <1>6
    <2> HIDE DEF r, m1, x
    <2> QED BY <1>7, <2>1, <2>2 DEF Woken, FlagStep
  <1> QED BY <1>1, <1>2, <1>8, DequeueInv

-----------------------------------------------------------------------------
(* The third kind: a process joins a queue. *)

(* A process that blocks on sending and joins the queue preserves IPCInv. *)
LEMMA EnqueueInv ==
    ASSUME IPCInv, TypeOK', NEW p \in Proc, rts[p] = {}, "DELIVERMSG" \notin misc[p],
           NEW e \in Endpoints, isokendpt(e), "NO_ENDPOINT" \notin rts[e[2]],
           ~WILLRECEIVE(rts, e[2], p),
           NEW f \in {{"SENDING"}, {"SENDING", "RECEIVING"}}, Enqueue(p, e, f),
           getfrom' = IF "RECEIVING" \in f THEN [getfrom EXCEPT ![p] = e] ELSE getfrom,
           \A q \in Proc : /\ "DELIVERMSG" \in misc'[q] => "DELIVERMSG" \in misc[q]
                           /\ q # p => misc'[q] = misc[q],
           UNCHANGED <<gen, s_notify_pending>>
    PROVE  IPCInv'
  <1> DEFINE d == e[2]
  <1>0. TypeOK /\ FlagsSound /\ QueueSound BY DEF IPCInv
  <1>1. d \in Proc /\ e = Endpoint(d) /\ ~isemptyp(d) /\ e # ANY
    BY EndpointsParts, AnyNoEndpoint DEF isokendpt
  <1>2. Alive(d)
    BY <1>0, <1>1 DEF Alive, FlagsSound, isemptyp
  <1>3. /\ \A q \in Proc : rts'[q] = IF q = p THEN f ELSE rts[q]
        /\ \A q \in Proc : sendto'[q] = IF q = p THEN e ELSE sendto[q]
        /\ \A q \in Proc : q # p => getfrom'[q] = getfrom[q]
        /\ "RECEIVING" \in f => getfrom'[p] = e
        /\ \A q \in Proc : callerq'[q] = IF q = d THEN Append(callerq[d], p) ELSE callerq[q]
    BY <1>0, <1>1 DEF Enqueue, TypeOK
  <1>4. "SENDING" \in f /\ "SLOT_FREE" \notin f /\ "NO_ENDPOINT" \notin f
    OBVIOUS
  <1>5. /\ \A q \in Proc : Alive(q)' <=> Alive(q)
        /\ \A q \in Proc : isemptyp(q)' <=> isemptyp(q)
        /\ \A q \in Proc : Endpoint(q)' = Endpoint(q)
    BY <1>3, <1>4 DEF Alive, isemptyp, Endpoint
  <1>6. \A x \in Endpoints : isokendpt(x)' <=> isokendpt(x)
    BY <1>5, EndpointsParts DEF isokendpt
  <1>7. FlagsSound'
    BY <1>0, <1>1, <1>3, <1>4 DEF FlagsSound
  <1>8. BlockedOnLive'
    <2>1. ASSUME NEW q \in Proc, "SENDING" \in rts'[q]
          PROVE  isokendpt(sendto[q])' /\ Alive(sendto[q][2])'
      <3>1. sendto'[q] \in Endpoints /\ sendto'[q][2] \in Proc
        BY EndpointsParts DEF TypeOK
      <3>2. isokendpt(sendto'[q]) /\ Alive(sendto'[q][2])
        BY <1>1, <1>2, <1>3, <2>1 DEF BlockedOnLive, IPCInv
      <3> QED BY <1>5, <1>6, <3>1, <3>2
    <2>2. ASSUME NEW q \in Proc, "RECEIVING" \in rts'[q], getfrom'[q] # ANY
          PROVE  isokendpt(getfrom[q])' /\ Alive(getfrom[q][2])'
      <3>1. getfrom'[q] \in Endpoints /\ getfrom'[q][2] \in Proc
        BY <2>2, EndpointsParts DEF TypeOK
      <3>2. isokendpt(getfrom'[q]) /\ Alive(getfrom'[q][2])
        BY <1>1, <1>2, <1>3, <2>2 DEF BlockedOnLive, IPCInv
      <3> QED BY <1>5, <1>6, <3>1, <3>2
    <2> QED BY <2>1, <2>2 DEF BlockedOnLive
  <1>9. OneMessage'
    BY <1>3 DEF OneMessage, IPCInv
  <1>10. QueueSound'
    <2>1. \A q \in Proc : Alive(q) => ~Member(p, callerq[q])
      BY <1>0, QueueSoundIs
    <2>2. callerq[d] \in Seq(Proc)
      BY <1>0, <1>1 DEF TypeOK
    <2>3. /\ Distinct(Append(callerq[d], p))
          /\ \A y : Member(y, Append(callerq[d], p)) <=> (Member(y, callerq[d]) \/ y = p)
      BY <1>0, <1>1, <1>2, <2>1, <2>2, AppendQueue, QueueSoundIs
    <2>4. \A q \in Proc : q # d => Endpoint(q) # e
      BY <1>1 DEF Endpoint
    <2>5. ASSUME NEW t \in Proc, Alive(t)
          PROVE  /\ Distinct(callerq'[t])
                 /\ \A q \in Proc : Member(q, callerq'[t])
                        <=> ("SENDING" \in rts'[q] /\ sendto'[q] = Endpoint(t))
      <3>1. /\ Distinct(callerq[t])
            /\ \A q \in Proc : Member(q, callerq[t])
                                 <=> ("SENDING" \in rts[q] /\ sendto[q] = Endpoint(t))
        BY <1>0, <2>5, QueueSoundIs
      <3> HIDE DEF d
      <3>2. CASE t = d
        BY <1>1, <1>3, <1>4, <2>3, <3>1, <3>2
      <3>3. CASE t # d
        BY <1>3, <2>1, <2>4, <2>5, <3>1, <3>3
      <3> QED BY <3>2, <3>3
    <2> QED BY <1>5, <2>5 DEF QueueSound, Distinct, Member
  <1>11. NoMissedRendezvous'
    <2>1. SUFFICES ASSUME NEW q \in Proc, "RECEIVING" \in rts'[q], "SENDING" \notin rts'[q]
                   PROVE  /\ \A j \in DOMAIN callerq'[q] :
                                getfrom'[q] # ANY /\ getfrom'[q] # Endpoint(callerq'[q][j])
                          /\ getfrom'[q] = ANY => s_notify_pending'[priv(q)] = {}
      BY RendezvousNext
    <2>2. q # p /\ "RECEIVING" \in rts[q] /\ "SENDING" \notin rts[q] /\ getfrom'[q] = getfrom[q]
      BY <1>3, <1>4, <2>1
    <2>3. /\ \A j \in DOMAIN callerq[q] :
                getfrom[q] # ANY /\ getfrom[q] # Endpoint(callerq[q][j])
          /\ getfrom[q] = ANY => s_notify_pending[priv(q)] = {}
      BY <2>2 DEF IPCInv, NoMissedRendezvous
    <2>4. CASE q # d
      BY <1>3, <2>2, <2>3, <2>4
    <2>5. CASE q = d
      <3>1. getfrom[q] # ANY /\ getfrom[q] # Endpoint(p)
        BY <2>2, <2>5 DEF WILLRECEIVE
      <3>2. callerq[d] \in Seq(Proc)
        BY <1>0, <1>1 DEF TypeOK
      <3>3. ASSUME NEW j \in DOMAIN Append(callerq[d], p)
            PROVE  Append(callerq[d], p)[j] = p \/ \E k \in DOMAIN callerq[d] :
                      Append(callerq[d], p)[j] = callerq[d][k]
        BY <3>2
      <3>4. callerq'[q] = Append(callerq[d], p)
        BY <1>3, <2>5
      <3>5. ASSUME NEW j \in DOMAIN callerq'[q]
            PROVE  getfrom[q] # Endpoint(callerq'[q][j])
        <4>1. \/ callerq'[q][j] = p
              \/ \E k \in DOMAIN callerq[q] : callerq'[q][j] = callerq[q][k]
          BY <2>5, <3>3, <3>4, <3>5
        <4> QED BY <2>3, <3>1, <4>1
      <3> QED BY <2>2, <3>1, <3>5
    <2> QED BY <2>4, <2>5
  <1> QED BY <1>7, <1>8, <1>9, <1>10, <1>11 DEF IPCInv

(* mini_send preserves IPCInv. *)
LEMMA SendInv ==
    ASSUME IPCInv, NEW p \in Proc, NEW e \in Endpoints, Send(p, e)
    PROVE  IPCInv'
  <1>1. TypeOK' BY SendType DEF IPCInv
  <1>2. e[2] \in Proc /\ e # ANY BY EndpointsParts, AnyNoEndpoint
  <1>3. CASE WILLRECEIVE(rts, e[2], p)
    <2>1. /\ QueueMess(p, e[2], rts, misc)
          /\ UNCHANGED <<gen, getfrom, sendto, callerq, s_notify_pending>>
      BY <1>3 DEF Send
    <2>2. UNCHANGED ipcvars
      BY <2>1 DEF ipcvars
    <2> QED BY <1>1, <1>2, <1>3, <2>1, <2>2, DeliverInv
  <1>4. CASE ~WILLRECEIVE(rts, e[2], p)
    <2>1. /\ Enqueue(p, e, {"SENDING"})
          /\ UNCHANGED <<gen, getfrom, misc, s_notify_pending>>
          /\ "NO_ENDPOINT" \notin rts[e[2]]
      BY <1>4 DEF Send
    <2>2. /\ rts[p] = {} /\ "DELIVERMSG" \notin misc[p]
          /\ isokendpt(e)
      BY <1>2 DEF Send, sys_call, Allowed, Running
    <2> QED BY <1>1, <1>4, <2>1, <2>2, EnqueueInv
  <1> QED BY <1>3, <1>4

(* A SENDREC whose first half blocks preserves IPCInv. *)
LEMMA SendRecBlocksInv ==
    ASSUME IPCInv, NEW p \in Proc, NEW e \in Endpoints, SendRec(p, e), SendRecBlocks(p, e)
    PROVE  IPCInv'
  <1>1. TypeOK' BY SendRecType DEF IPCInv
  <1>2. e[2] \in Proc /\ e # ANY BY EndpointsParts, AnyNoEndpoint
  <1>3. /\ Enqueue(p, e, {"SENDING", "RECEIVING"}) /\ ~WILLRECEIVE(rts, e[2], p)
        /\ getfrom' = [getfrom EXCEPT ![p] = e]
        /\ misc' = [misc EXCEPT ![p] = @ \cup {"REPLY_PEND"}]
    BY DEF SendRecBlocks
  <1>4. /\ UNCHANGED <<gen, s_notify_pending>> /\ "NO_ENDPOINT" \notin rts[e[2]]
        /\ rts[p] = {} /\ "DELIVERMSG" \notin misc[p]
        /\ isokendpt(e)
    BY <1>2 DEF SendRec, sys_call, Allowed, Running
  <1>5. \A q \in Proc : /\ "DELIVERMSG" \in misc'[q] => "DELIVERMSG" \in misc[q]
                        /\ q # p => misc'[q] = misc[q]
    BY <1>3 DEF IPCInv, TypeOK
  <1> QED BY <1>1, <1>3, <1>4, <1>5, EnqueueInv

-----------------------------------------------------------------------------
(* The fourth kind: a process blocks in receive. *)

(* A process that blocks in receive, having found nothing, preserves IPCInv. *)
LEMMA BlockInv ==
    ASSUME IPCInv, TypeOK', NEW p \in Proc, rts[p] = {},
           NEW src \in Endpoints \cup {ANY},
           src # ANY => isokendpt(src) /\ "NO_ENDPOINT" \notin rts[src[2]],
           src = ANY => /\ p \in SysProc /\ "REPLY_PEND" \notin misc'[p]
                        /\ s_notify_pending[priv(p)] = {},
           \A j \in DOMAIN callerq[p] : src # ANY /\ src[2] # callerq[p][j],
           rts'[p] = {"RECEIVING"}, "DELIVERMSG" \notin misc'[p],
           getfrom' = [getfrom EXCEPT ![p] = src],
           \A q \in Proc \ {p} :
               /\ \A f \in {"SENDING", "SLOT_FREE", "NO_ENDPOINT"} : f \in rts'[q] <=> f \in rts[q]
               /\ "RECEIVING" \in rts'[q] => "RECEIVING" \in rts[q]
               /\ "SLOT_FREE" \in rts[q] => rts'[q] = rts[q]
               /\ "REPLY_PEND" \in misc'[q] => "REPLY_PEND" \in misc[q]
               /\ "DELIVERMSG" \in misc'[q] => \/ "DELIVERMSG" \in misc[q]
                                              \/ /\ "RECEIVING" \notin rts'[q]
                                                 /\ "SENDING" \notin rts'[q],
           UNCHANGED <<gen, sendto, callerq, s_notify_pending>>
    PROVE  IPCInv'
  <1>0. TypeOK /\ FlagsSound /\ QueueSound BY DEF IPCInv
  <1>1. /\ \A q \in Proc : q # p => getfrom'[q] = getfrom[q]
        /\ getfrom'[p] = src
    BY <1>0 DEF TypeOK
  <1>2. /\ \A q \in Proc : Alive(q)' <=> Alive(q)
        /\ \A q \in Proc : isemptyp(q)' <=> isemptyp(q)
        /\ \A q \in Proc : Endpoint(q)' = Endpoint(q)
        /\ \A q \in Proc : "SENDING" \in rts'[q] <=> "SENDING" \in rts[q]
    BY <1>0 DEF Alive, isemptyp, Endpoint, FlagsSound
  <1>3. \A x \in Endpoints : isokendpt(x)' <=> isokendpt(x)
    BY <1>2, EndpointsParts DEF isokendpt
  <1>4. FlagsSound'
    BY <1>0, <1>1 DEF FlagsSound
  <1>5. BlockedOnLive'
    <2>1. ASSUME NEW q \in Proc, "SENDING" \in rts'[q]
          PROVE  isokendpt(sendto[q])' /\ Alive(sendto[q][2])'
      <3>1. sendto[q] \in Endpoints /\ sendto[q][2] \in Proc
        BY <1>0, EndpointsParts DEF TypeOK
      <3>2. isokendpt(sendto[q]) /\ Alive(sendto[q][2])
        BY <1>2, <2>1 DEF BlockedOnLive, IPCInv
      <3> QED BY <1>2, <1>3, <3>1, <3>2
    <2>2. ASSUME NEW q \in Proc, "RECEIVING" \in rts'[q], getfrom'[q] # ANY
          PROVE  isokendpt(getfrom[q])' /\ Alive(getfrom[q][2])'
      <3>1. getfrom'[q] \in Endpoints /\ getfrom'[q][2] \in Proc
        BY <2>2, EndpointsParts DEF TypeOK
      <3>2. isokendpt(getfrom'[q]) /\ Alive(getfrom'[q][2])
        <4>1. CASE q = p
          BY <1>0, <1>1, <2>2, <3>1, <4>1 DEF isokendpt, isemptyp, Alive, FlagsSound
        <4>2. CASE q # p
          BY <1>1, <2>2, <4>2 DEF BlockedOnLive, IPCInv
        <4> QED BY <4>1, <4>2
      <3> QED BY <1>2, <1>3, <3>1, <3>2
    <2> QED BY <2>1, <2>2 DEF BlockedOnLive
  <1>6. OneMessage'
    BY DEF OneMessage, IPCInv
  <1>7. QueueSound'
    BY <1>0, <1>2 DEF QueueSound
  <1>8. NoMissedRendezvous'
    <2>1. SUFFICES ASSUME NEW q \in Proc, "RECEIVING" \in rts'[q], "SENDING" \notin rts'[q]
                   PROVE  /\ \A j \in DOMAIN callerq'[q] :
                                getfrom'[q] # ANY /\ getfrom'[q] # Endpoint(callerq'[q][j])
                          /\ getfrom'[q] = ANY => s_notify_pending'[priv(q)] = {}
      BY RendezvousNext
    <2>2. CASE q = p
      <3>1. \A j \in DOMAIN callerq[p] : src # Endpoint(callerq[p][j])
        BY DEF Endpoint
      <3> QED BY <1>1, <2>2, <3>1
    <2>3. CASE q # p
      BY <1>1, <1>2, <2>1, <2>3 DEF IPCInv, NoMissedRendezvous
    <2> QED BY <2>2, <2>3
  <1> QED BY <1>4, <1>5, <1>6, <1>7, <1>8 DEF IPCInv

(* A map that is not empty has a bit that mini_receive looks at. *)
LEMMA HeadExists ==
    ASSUME NEW map, map \subseteq SysProc, ChunkHeads(map) = {}
    PROVE  map = {}
  <1> SUFFICES ASSUME map # {} PROVE FALSE
    OBVIOUS
  <1> DEFINE ids == {s_id[s] : s \in map}
  <1>1. ids \subseteq Nat /\ ids # {}
    BY NumberAssumption
  <1>2. \E n \in ids : \A k \in ids : n <= k
    BY <1>1, LeastExists
  <1>3. PICK s \in map : \A t \in map : s_id[s] <= s_id[t]
    BY <1>2
  <1>4. s \in ChunkHeads(map)
    BY <1>3 DEF ChunkHeads
  <1> QED BY <1>4

(* mini_receive that blocks preserves IPCInv. *)
LEMMA ReceiveBlocksInv ==
    ASSUME IPCInv, TypeOK', NEW p \in Proc, NEW src \in Endpoints \cup {ANY},
           sys_call(p, "RECEIVE", src),
           src # ANY => "NO_ENDPOINT" \notin rts[src[2]],
           Acceptable(p, src) = {}, InQueue(p, src) = {},
           ReceiveBlocks(p, src, [misc EXCEPT ![p] = @ \ {"REPLY_PEND"}])
    PROVE  IPCInv'
  <1> DEFINE m == [misc EXCEPT ![p] = @ \ {"REPLY_PEND"}]
  <1>0. TypeOK BY DEF IPCInv
  <1>1. rts[p] = {} /\ "DELIVERMSG" \notin misc[p]
    BY DEF sys_call, Running
  <1>2. src # ANY => isokendpt(src)
    BY DEF sys_call, Allowed
  <1>3. p \in SysProc
    BY PrivAssumption DEF sys_call, Allowed, priv
  <1>4. misc' = m \/ misc' = [m EXCEPT ![p] = @ \ {"ASYNMSG"}]
    BY DEF ReceiveBlocks, NoAsync
  <1>5. \A q \in Proc : q # p => misc'[q] = misc[q]
    BY <1>0, <1>4 DEF TypeOK
  <1>6. "REPLY_PEND" \notin misc'[p] /\ "DELIVERMSG" \notin misc'[p]
    BY <1>0, <1>1, <1>4 DEF TypeOK
  <1>7. /\ rts' = [rts EXCEPT ![p] = @ \cup {"RECEIVING"}]
        /\ getfrom' = [getfrom EXCEPT ![p] = src]
        /\ UNCHANGED <<gen, sendto, callerq, s_notify_pending>>
    BY DEF ReceiveBlocks, Block
  <1>8. rts'[p] = {"RECEIVING"} /\ \A q \in Proc : q # p => rts'[q] = rts[q]
    BY <1>0, <1>1, <1>7 DEF TypeOK
  <1>9. src = ANY => s_notify_pending[priv(p)] = {}
    <2>1. s_notify_pending[priv(p)] \subseteq SysProc
      BY <1>0, Basics DEF TypeOK
    <2> QED BY <2>1, HeadExists DEF Acceptable
  <1>10. \A j \in DOMAIN callerq[p] : src # ANY /\ src[2] # callerq[p][j]
    BY DEF InQueue
  <1> QED BY <1>1, <1>2, <1>3, <1>5, <1>6, <1>7, <1>8, <1>9, <1>10, BlockInv

(* mini_receive preserves IPCInv. *)
LEMMA ReceiveInv ==
    ASSUME IPCInv, NEW p \in Proc, NEW src \in Endpoints \cup {ANY}, Receive(p, src)
    PROVE  IPCInv'
  <1> DEFINE m == [misc EXCEPT ![p] = @ \ {"REPLY_PEND"}]
  <1>1. TypeOK' BY ReceiveType DEF IPCInv
  <1>2. /\ sys_call(p, "RECEIVE", src) /\ rts[p] = {}
        /\ src # ANY => "NO_ENDPOINT" \notin rts[src[2]]
    BY DEF Receive, sys_call, Running
  <1>3. \/ ReceiveNotification(p, src, m)
        \/ ReceiveQueued(p, src, m)
        \/ ReceiveAsync(p, src, m)
        \/ /\ Acceptable(p, src) = {} /\ InQueue(p, src) = {}
           /\ ReceiveBlocks(p, src, m)
    BY DEF Receive
  <1> QED BY <1>1, <1>2, <1>3, ReceiveAtOnceInv, ReceiveQueuedInv, ReceiveBlocksInv

(* A SENDREC whose first half is delivered at once preserves IPCInv. *)
LEMMA SendRecDeliversInv ==
    ASSUME IPCInv, NEW p \in Proc, NEW e \in Endpoints, SendRec(p, e), SendRecDelivers(p, e)
    PROVE  IPCInv'
  <1> DEFINE d  == e[2]
             r  == [rts EXCEPT ![d] = @ \ {"RECEIVING"}]
             m  == [misc EXCEPT ![p] = @ \cup {"REPLY_PEND"}, ![d] = @ \cup {"DELIVERMSG"}]
             i1 == [inmsg EXCEPT ![d] = Message(p, "msg", {})]
  <1>0. TypeOK /\ FlagsSound /\ QueueSound BY DEF IPCInv
  <1>1. TypeOK' BY SendRecType DEF IPCInv
  <1>2. d \in Proc /\ e # ANY BY EndpointsParts, AnyNoEndpoint
  <1>3. /\ UNCHANGED <<gen, s_notify_pending>> /\ "NO_ENDPOINT" \notin rts[d]
        /\ rts[p] = {} /\ "DELIVERMSG" \notin misc[p] /\ isokendpt(e)
    BY <1>2 DEF SendRec, sys_call, Allowed, Running
  <1>4. "RECEIVING" \in rts[d] /\ "SENDING" \notin rts[d] /\ p # d
    BY <1>3 DEF SendRecDelivers, WILLRECEIVE
  <1>5. UNCHANGED <<sendto, callerq>>
    BY DEF SendRecDelivers
  <1>6. /\ \A q \in Proc : r[q] = IF q = d THEN rts[d] \ {"RECEIVING"} ELSE rts[q]
        /\ m[d] = misc[d] \cup {"DELIVERMSG"}
        /\ m[p] = misc[p] \cup {"REPLY_PEND"}
        /\ \A q \in Proc : (q # p /\ q # d) => m[q] = misc[q]
    BY <1>0, <1>2, <1>4 DEF TypeOK
  <1>7. CASE rts' = r /\ misc' = [m EXCEPT ![p] = @ \cup {"DELIVERMSG"}] /\ UNCHANGED getfrom
    <2>1. /\ misc'[p] = misc[p] \cup {"REPLY_PEND", "DELIVERMSG"}
          /\ misc'[d] = misc[d] \cup {"DELIVERMSG"}
          /\ \A q \in Proc : (q # p /\ q # d) => misc'[q] = misc[q]
      BY <1>0, <1>2, <1>4, <1>7 DEF TypeOK
    <2> HIDE DEF d, r, m
    <2>2. FlagStep({})
      BY <1>0, <1>2, <1>3, <1>4, <1>6, <1>7, <2>1 DEF FlagStep, FlagsSound
    <2> QED BY <1>1, <1>3, <1>5, <1>7, <2>2, FlagStepInv DEF ipcvars
  <1>8. CASE NoAsync(p, e, m) /\ Block(p, e, r)
    <2>1. misc' = m
      BY <1>2, <1>8 DEF NoAsync
    <2>2. /\ rts' = [r EXCEPT ![p] = @ \cup {"RECEIVING"}]
          /\ getfrom' = [getfrom EXCEPT ![p] = e]
      BY <1>8 DEF Block
    <2>3. /\ rts'[p] = {"RECEIVING"} /\ rts'[d] = rts[d] \ {"RECEIVING"}
          /\ \A q \in Proc : (q # p /\ q # d) => rts'[q] = rts[q]
      BY <1>0, <1>2, <1>3, <1>4, <1>6, <2>2 DEF TypeOK
    <2>4. \A j \in DOMAIN callerq[p] : d # callerq[p][j]
      <3>1. Alive(p) BY <1>3 DEF Alive
      <3>2. ~Member(d, callerq[p])
        BY <1>0, <1>2, <1>4, <3>1, QueueSoundIs
      <3> QED BY <3>2 DEF Member
    <2>5. \A q \in Proc \ {p} :
             /\ \A f \in {"SENDING", "SLOT_FREE", "NO_ENDPOINT"} : f \in rts'[q] <=> f \in rts[q]
             /\ "RECEIVING" \in rts'[q] => "RECEIVING" \in rts[q]
             /\ "SLOT_FREE" \in rts[q] => rts'[q] = rts[q]
             /\ "REPLY_PEND" \in misc'[q] => "REPLY_PEND" \in misc[q]
             /\ "DELIVERMSG" \in misc'[q] => \/ "DELIVERMSG" \in misc[q]
                                            \/ /\ "RECEIVING" \notin rts'[q]
                                               /\ "SENDING" \notin rts'[q]
      <3> HIDE DEF d, r, m
      <3> QED BY <1>0, <1>2, <1>4, <1>6, <2>1, <2>3 DEF FlagsSound
    <2>6. "DELIVERMSG" \notin misc'[p]
      BY <1>3, <1>6, <2>1
    <2> QED BY <1>1, <1>2, <1>3, <1>5, <2>2, <2>3, <2>4, <2>5, <2>6, BlockInv
  <1> QED BY <1>7, <1>8 DEF SendRecDelivers

-----------------------------------------------------------------------------
(* The fifth kind: clear_endpoint takes the endpoint of c away. *)

ClearStep(c) ==
    /\ "SENDING" \notin rts'[c] /\ "RECEIVING" \notin rts'[c] /\ ~Alive(c)'
    /\ "SLOT_FREE" \in rts'[c] => rts'[c] = {"SLOT_FREE"}
    /\ \A q \in Proc \ {c} :
        /\ "SENDING" \in rts'[q] <=> ("SENDING" \in rts[q] /\ sendto[q] # Endpoint(c))
        /\ "RECEIVING" \in rts'[q] => ("RECEIVING" \in rts[q] /\ getfrom[q] # Endpoint(c))
        /\ "SLOT_FREE" \in rts'[q] <=> "SLOT_FREE" \in rts[q]
        /\ "SLOT_FREE" \in rts[q] => rts'[q] = rts[q]
        /\ "NO_ENDPOINT" \in rts'[q] <=> "NO_ENDPOINT" \in rts[q]
        /\ "DELIVERMSG" \in misc'[q] => \/ "DELIVERMSG" \in misc[q]
                                       \/ /\ "RECEIVING" \notin rts'[q]
                                          /\ "SENDING" \notin rts'[q]
        /\ ("RECEIVING" \in rts'[q] /\ getfrom[q] = ANY) =>
              /\ "REPLY_PEND" \in misc'[q] => "REPLY_PEND" \in misc[q]
              /\ s_notify_pending'[priv(q)] \subseteq s_notify_pending[priv(q)]

(* What clear_endpoint leaves of the queue of a process that lives on. *)
LEMMA QueuesClearedIs ==
    ASSUME IPCInv, NEW c \in Proc, NEW d \in Proc, d # c, Alive(d)
    PROVE  /\ QueuesCleared(c)[d] \in Seq(Proc)
           /\ Distinct(QueuesCleared(c)[d])
           /\ \A q : Member(q, QueuesCleared(c)[d]) <=> (Member(q, callerq[d]) /\ q # c)
  <1>0. TypeOK /\ QueueSound BY DEF IPCInv
  <1>1. callerq[d] \in Seq(Proc) /\ callerq \in [Proc -> Seq(Proc)]
    BY <1>0 DEF TypeOK
  <1>2. Distinct(callerq[d])
    BY <1>0, QueueSoundIs
  <1>3. CASE "SENDING" \in rts[c] /\ sendto[c][2] = d
    <2>1. QueuesCleared(c)[d] = RemoveFirst(callerq[d], c)
      BY <1>1, <1>3 DEF QueuesCleared
    <2> QED BY <1>1, <1>2, <2>1, RemoveFirstQueue
  <1>4. CASE ~("SENDING" \in rts[c] /\ sendto[c][2] = d)
    <2>1. QueuesCleared(c)[d] = callerq[d]
      BY <1>1, <1>4 DEF QueuesCleared
    <2>2. ~Member(c, callerq[d])
      <3>1. Member(c, callerq[d]) => "SENDING" \in rts[c] /\ sendto[c] = Endpoint(d)
        BY <1>0, QueueSoundIs
      <3> QED BY <1>4, <3>1 DEF Endpoint
    <2> QED BY <1>1, <1>2, <2>1, <2>2
  <1> QED BY <1>3, <1>4

(* Taking c's endpoint away and releasing who waits for it preserves IPCInv. *)
LEMMA ClearInv ==
    ASSUME IPCInv, TypeOK', NEW c \in Proc, ClearStep(c),
           callerq' = QueuesCleared(c), UNCHANGED <<gen, getfrom, sendto>>
    PROVE  IPCInv'
  <1>0. TypeOK /\ FlagsSound /\ QueueSound BY DEF IPCInv
  <1>1. /\ \A q \in Proc : Alive(q)' <=> (Alive(q) /\ q # c)
        /\ \A q \in Proc : q # c => (isemptyp(q)' <=> isemptyp(q))
        /\ \A q \in Proc : Endpoint(q)' = Endpoint(q)
    BY <1>0 DEF ClearStep, Alive, isemptyp, Endpoint, FlagsSound
  <1>2. ASSUME NEW x \in Endpoints, isokendpt(x), x # Endpoint(c), Alive(x[2])
        PROVE  isokendpt(x)' /\ Alive(x[2])'
    <2>1. x[2] \in Proc /\ x[2] # c
      BY <1>2, EndpointsParts DEF isokendpt
    <2> QED BY <1>1, <1>2, <2>1 DEF isokendpt
  <1>3. FlagsSound'
    BY <1>0 DEF FlagsSound, ClearStep
  <1>4. BlockedOnLive'
    <2>1. ASSUME NEW q \in Proc, "SENDING" \in rts'[q]
          PROVE  isokendpt(sendto[q])' /\ Alive(sendto[q][2])'
      <3>1. sendto[q] \in Endpoints
        BY <1>0 DEF TypeOK
      <3>2. "SENDING" \in rts[q] /\ sendto[q] # Endpoint(c)
        BY <2>1 DEF ClearStep
      <3>3. isokendpt(sendto[q]) /\ Alive(sendto[q][2])
        BY <3>2 DEF BlockedOnLive, IPCInv
      <3> QED BY <1>2, <3>1, <3>2, <3>3
    <2>2. ASSUME NEW q \in Proc, "RECEIVING" \in rts'[q], getfrom[q] # ANY
          PROVE  isokendpt(getfrom[q])' /\ Alive(getfrom[q][2])'
      <3>1. getfrom[q] \in Endpoints
        BY <1>0, <2>2 DEF TypeOK
      <3>2. "RECEIVING" \in rts[q] /\ getfrom[q] # Endpoint(c)
        BY <2>2 DEF ClearStep
      <3>3. isokendpt(getfrom[q]) /\ Alive(getfrom[q][2])
        BY <2>2, <3>2 DEF BlockedOnLive, IPCInv
      <3> QED BY <1>2, <3>1, <3>2, <3>3
    <2> QED BY <2>1, <2>2 DEF BlockedOnLive
  <1>5. OneMessage'
    BY DEF OneMessage, IPCInv, ClearStep
  <1>6. QueueSound'
    <2>1. ASSUME NEW d \in Proc, Alive(d), d # c
          PROVE  /\ Distinct(callerq'[d])
                 /\ \A q \in Proc : Member(q, callerq'[d])
                        <=> ("SENDING" \in rts'[q] /\ sendto'[q] = Endpoint(d))
      <3>1. \A q \in Proc : Member(q, callerq[d])
                               <=> ("SENDING" \in rts[q] /\ sendto[q] = Endpoint(d))
        BY <1>0, <2>1, QueueSoundIs
      <3>2. /\ Distinct(callerq'[d])
            /\ \A q : Member(q, callerq'[d]) <=> (Member(q, callerq[d]) /\ q # c)
        BY <2>1, QueuesClearedIs
      <3>3. Endpoint(d) # Endpoint(c)
        BY <2>1 DEF Endpoint
      <3> QED BY <3>1, <3>2, <3>3 DEF ClearStep
    <2> QED BY <1>1, <2>1 DEF QueueSound, Distinct, Member
  <1>7. NoMissedRendezvous'
    <2>1. SUFFICES ASSUME NEW q \in Proc, "RECEIVING" \in rts'[q], "SENDING" \notin rts'[q]
                   PROVE  /\ \A j \in DOMAIN callerq'[q] :
                                getfrom'[q] # ANY /\ getfrom'[q] # Endpoint(callerq'[q][j])
                          /\ getfrom'[q] = ANY => s_notify_pending'[priv(q)] = {}
      BY RendezvousNext
    <2>2. q # c /\ "RECEIVING" \in rts[q] /\ getfrom[q] # Endpoint(c)
      BY <2>1 DEF ClearStep
    <2>3. "SENDING" \notin rts[q]
      BY <1>0, <2>1, <2>2 DEF ClearStep, FlagsSound
    <2>4. Alive(q)
      BY <1>0, <2>2 DEF Alive, FlagsSound
    <2>5. /\ \A j \in DOMAIN callerq[q] :
                getfrom[q] # ANY /\ getfrom[q] # Endpoint(callerq[q][j])
          /\ getfrom[q] = ANY => s_notify_pending[priv(q)] = {}
      BY <2>2, <2>3 DEF IPCInv, NoMissedRendezvous
    <2>6. ASSUME NEW j \in DOMAIN callerq'[q]
          PROVE  \E k \in DOMAIN callerq[q] : callerq'[q][j] = callerq[q][k]
      <3>1. Member(callerq'[q][j], callerq'[q])
        BY DEF Member
      <3>2. Member(callerq'[q][j], callerq[q])
        BY <2>2, <2>4, <3>1, QueuesClearedIs
      <3> QED BY <3>2 DEF Member
    <2> QED BY <2>1, <2>2, <2>5, <2>6 DEF ClearStep
  <1> QED BY <1>3, <1>4, <1>5, <1>6, <1>7 DEF IPCInv

(* clear_endpoint only takes notifications away. *)
LEMMA NotifiesClearedIs ==
    ASSUME TypeOK, NEW c \in Proc
    PROVE  \A q \in Proc : NotifiesCleared(c)[priv(q)] \subseteq s_notify_pending[priv(q)]
  BY Basics DEF NotifiesCleared, TypeOK

(* clear_endpoint ends c's call and the calls of those that wait for c. *)
LEMMA FlagsClearedIs ==
    ASSUME IPCInv, NEW c \in Proc
    PROVE  /\ FlagsCleared(c)[c] = (rts[c] \cup {"NO_ENDPOINT"}) \ {"SENDING", "RECEIVING"}
           /\ \A q \in Proc \ {c} :
                /\ "SENDING" \in FlagsCleared(c)[q]
                      <=> ("SENDING" \in rts[q] /\ sendto[q] # Endpoint(c))
                /\ "RECEIVING" \in FlagsCleared(c)[q]
                      <=> ("RECEIVING" \in rts[q] /\ getfrom[q] # Endpoint(c))
                /\ \A f \in {"SLOT_FREE", "NO_ENDPOINT"} :
                      f \in FlagsCleared(c)[q] <=> f \in rts[q]
                /\ "SLOT_FREE" \in rts[q] => FlagsCleared(c)[q] = rts[q]
  <1>1. \A q \in Proc \ {c} : FlagsCleared(c)[q] =
           {f \in rts[q] : ~(f \in {"SENDING", "RECEIVING"} /\ Abandons(q, c, f))}
    BY DEF FlagsCleared
  <1>2. \A q \in Proc \ {c} :
           /\ Abandons(q, c, "SENDING") <=> ("SENDING" \in rts[q] /\ sendto[q] = Endpoint(c))
           /\ Abandons(q, c, "RECEIVING") <=> ("RECEIVING" \in rts[q] /\ getfrom[q] = Endpoint(c))
    BY DEF Abandons
  <1>3. \A q \in Proc : "SLOT_FREE" \in rts[q] => rts[q] = {"SLOT_FREE"}
    BY DEF IPCInv, FlagsSound
  <1>4. FlagsCleared(c)[c] = (rts[c] \cup {"NO_ENDPOINT"}) \ {"SENDING", "RECEIVING"}
    BY DEF FlagsCleared
  <1>5. ASSUME NEW q \in Proc \ {c}
        PROVE  /\ "SENDING" \in FlagsCleared(c)[q]
                      <=> ("SENDING" \in rts[q] /\ sendto[q] # Endpoint(c))
               /\ "RECEIVING" \in FlagsCleared(c)[q]
                      <=> ("RECEIVING" \in rts[q] /\ getfrom[q] # Endpoint(c))
               /\ \A f \in {"SLOT_FREE", "NO_ENDPOINT"} :
                      f \in FlagsCleared(c)[q] <=> f \in rts[q]
               /\ "SLOT_FREE" \in rts[q] => FlagsCleared(c)[q] = rts[q]
    BY <1>1, <1>2, <1>3
  <1> QED BY <1>4, <1>5

(* do_exit preserves IPCInv. *)
LEMMA ExitInv ==
    ASSUME IPCInv, NEW c \in Proc, DoExit(c) \/ DoExitSelf(c)
    PROVE  IPCInv'
  <1>0. TypeOK BY DEF IPCInv
  <1>1. TypeOK' BY <1>0, ExitType
  <1>2. PICK p \in Proc : clear_proc(c) /\ rts[p] = {} /\ misc' = KernelCall(p, misc)
    BY Basics DEF DoExit, DoExitSelf, Running
  <1>3. \A q \in Proc : /\ "DELIVERMSG" \in misc'[q] => "DELIVERMSG" \in misc[q]
                        /\ "RECEIVING" \in rts[q] => misc'[q] = misc[q]
    BY <1>0, <1>2 DEF KernelCall, TypeOK
  <1>4. /\ rts'[c] = {"SLOT_FREE"}
        /\ \A q \in Proc : q # c => rts'[q] = FlagsCleared(c)[q]
        /\ s_notify_pending' = NotifiesCleared(c) /\ callerq' = QueuesCleared(c)
        /\ UNCHANGED <<gen, getfrom, sendto>>
    BY <1>0, <1>2, ClearType DEF clear_proc
  <1>5. ~Alive(c)'
    BY <1>4 DEF Alive
  <1>6. ClearStep(c)
    BY <1>0, <1>3, <1>4, <1>5, FlagsClearedIs, NotifiesClearedIs DEF ClearStep
  <1> QED BY <1>1, <1>4, <1>6, ClearInv

(* do_kill with SIGKILL, which also clears the endpoint, preserves IPCInv. *)
LEMMA DoKillKillInv ==
    ASSUME IPCInv, NEW p \in Proc, NEW t \in Proc, DoKill(p, t, "SIGKILL")
    PROVE  IPCInv'
  <1> DEFINE m == KernelCall(p, misc)
  <1>0. TypeOK BY DEF IPCInv
  <1>1. TypeOK' BY <1>0, DoKillType
  <1>2. /\ cause_sig(t, "SIGKILL", FlagsCleared(t), m, inmsg, NotifiesCleared(t))
        /\ callerq' = QueuesCleared(t) /\ UNCHANGED <<gen, getfrom, sendto>>
        /\ rts[p] = {} /\ ~isemptyp(t)
    BY DEF DoKill, Running
  <1>3. "SLOT_FREE" \notin rts[t]
    BY <1>2 DEF isemptyp, IPCInv, FlagsSound
  <1>4. /\ "SLOT_FREE" \notin FlagsCleared(t)[t]
        /\ \A q \in Proc : "SLOT_FREE" \in FlagsCleared(t)[q] => FlagsCleared(t)[q] = {"SLOT_FREE"}
    <2>1. \A q \in Proc : "SLOT_FREE" \in rts[q] => rts[q] = {"SLOT_FREE"}
      BY DEF IPCInv, FlagsSound
    <2> QED BY <1>3, <2>1, FlagsClearedIs
  <1>5. m \in [Proc -> SUBSET MiscFlags]
    BY <1>0, KernelCallType DEF TypeOK
  <1>6. Woken(FlagsCleared(t), m, NotifiesCleared(t))
    <2> HIDE DEF m
    <2> QED BY <1>0, <1>2, <1>4, <1>5, ClearType, CauseSigWakes
  <1>7. \A q \in Proc : /\ "DELIVERMSG" \in m[q] => "DELIVERMSG" \in misc[q]
                        /\ "RECEIVING" \in rts[q] => m[q] = misc[q]
    BY <1>0, <1>2 DEF KernelCall, TypeOK
  <1>8. ClearStep(t)
    <2> HIDE DEF m
    <2>1. "NO_ENDPOINT" \in rts'[t] /\ "SENDING" \notin rts'[t] /\ "RECEIVING" \notin rts'[t]
          /\ "SLOT_FREE" \notin rts'[t]
      BY <1>4, <1>6, FlagsClearedIs DEF Woken
    <2>2. ASSUME NEW q \in Proc \ {t}, "RECEIVING" \in rts'[q], getfrom[q] = ANY
          PROVE  /\ "REPLY_PEND" \in misc'[q] => "REPLY_PEND" \in misc[q]
                 /\ s_notify_pending'[priv(q)] \subseteq s_notify_pending[priv(q)]
      <3>1. "RECEIVING" \in rts[q]
        BY <1>6, <2>2, FlagsClearedIs DEF Woken
      <3>2. q \in SysProc /\ "REPLY_PEND" \notin misc[q] /\ "SENDING" \notin rts[q]
        BY <2>2, <3>1, ReceivingAny
      <3>3. "REPLY_PEND" \notin m[q] /\ "SENDING" \notin FlagsCleared(t)[q]
        BY <1>7, <3>1, <3>2, FlagsClearedIs
      <3> QED BY <1>0, <1>6, <2>2, <3>2, <3>3, NotifiesClearedIs DEF Woken
    <2>3. \A q \in Proc \ {t} :
            /\ "SENDING" \in rts'[q] <=> ("SENDING" \in rts[q] /\ sendto[q] # Endpoint(t))
            /\ "RECEIVING" \in rts'[q] => ("RECEIVING" \in rts[q] /\ getfrom[q] # Endpoint(t))
            /\ "SLOT_FREE" \in rts'[q] <=> "SLOT_FREE" \in rts[q]
            /\ "SLOT_FREE" \in rts[q] => rts'[q] = rts[q]
            /\ "NO_ENDPOINT" \in rts'[q] <=> "NO_ENDPOINT" \in rts[q]
            /\ "DELIVERMSG" \in misc'[q] => \/ "DELIVERMSG" \in misc[q]
                                           \/ /\ "RECEIVING" \notin rts'[q]
                                              /\ "SENDING" \notin rts'[q]
      BY <1>6, <1>7, FlagsClearedIs DEF Woken
    <2> QED BY <2>1, <2>2, <2>3 DEF ClearStep, Alive
  <1> QED BY <1>1, <1>2, <1>8, ClearInv

-----------------------------------------------------------------------------
(* The sixth kind: do_fork fills a free slot with a copy. *)

(* do_fork of a process at which nobody is queued preserves IPCInv. *)
LEMMA DoForkInv ==
    ASSUME IPCInv, NEW f \in Proc, NEW c \in Proc, DoFork(f, c), ~QueueForked
    PROVE  IPCInv'
  <1>0. TypeOK /\ FlagsSound /\ QueueSound BY DEF IPCInv
  <1>1. TypeOK' BY <1>0, DoForkType
  <1>2. /\ isemptyp(c) /\ rts[PM] = {} /\ PM \in Proc
        /\ "RECEIVING" \in rts[f] /\ "SENDING" \notin rts[f] /\ getfrom[f] = Endpoint(PM)
        /\ UNCHANGED s_notify_pending
    BY Basics DEF DoFork, Running
  <1>3. f # c /\ Alive(f) /\ ~Alive(c) /\ PM # c
    BY <1>0, <1>2 DEF isemptyp, Alive, FlagsSound
  <1>4. DOMAIN callerq[f] = {}
    <2>1. callerq[f] = <<>> BY DEF QueueForked
    <2> QED BY <2>1
  <1>5. ASSUME NEW q \in Proc
        PROVE  /\ "SENDING" \in rts[q] => sendto[q][2] # c
               /\ ("RECEIVING" \in rts[q] /\ getfrom[q] # ANY) => getfrom[q][2] # c
    BY <1>3 DEF IPCInv, BlockedOnLive
  <1>6. /\ \A q \in Proc : q # c => gen'[q] = gen[q]
        /\ \A q \in Proc : q # c => rts'[q] = rts[q]
        /\ \A q \in Proc : q # c => getfrom'[q] = getfrom[q]
        /\ \A q \in Proc : q # c => sendto'[q] = sendto[q]
        /\ \A q \in Proc : q # c => callerq'[q] = callerq[q]
        /\ \A q \in Proc : (q # c /\ "DELIVERMSG" \in misc'[q]) => "DELIVERMSG" \in misc[q]
        /\ \A q \in Proc : (q # c /\ "RECEIVING" \in rts[q]) => misc'[q] = misc[q]
        /\ getfrom'[c] = getfrom[f] /\ callerq'[c] = callerq[f]
        /\ "DELIVERMSG" \in misc'[c] => "DELIVERMSG" \in misc[f]
    BY <1>0, <1>2, <1>3 DEF DoFork, KernelCall, TypeOK
  <1>7. rts'[c] = (rts[f] \ {"SIGNALED", "SIG_PENDING"})
                  \cup (IF f \in SysProc THEN {"NO_PRIV"} ELSE {})
    BY <1>0 DEF DoFork, TypeOK
  <1>8. /\ "RECEIVING" \in rts'[c] /\ "SENDING" \notin rts'[c]
        /\ "SLOT_FREE" \notin rts'[c] /\ "NO_ENDPOINT" \notin rts'[c]
    BY <1>2, <1>3, <1>7 DEF Alive
  <1>9. getfrom'[c] # ANY /\ getfrom'[c] = Endpoint(PM)
    BY <1>0, <1>2, <1>6, EndpointType, AnyNoEndpoint
  <1>10. FlagsSound'
    BY <1>0, <1>6, <1>8, <1>9 DEF FlagsSound
  <1>11. /\ \A q \in Proc : q # c => (Alive(q)' <=> Alive(q))
         /\ \A q \in Proc : q # c => (isemptyp(q)' <=> isemptyp(q))
         /\ \A q \in Proc : q # c => Endpoint(q)' = Endpoint(q)
    BY <1>6 DEF Alive, isemptyp, Endpoint
  <1>12. \A x \in Endpoints : x[2] # c => (isokendpt(x)' <=> isokendpt(x))
    BY <1>11, EndpointsParts DEF isokendpt
  <1>13. BlockedOnLive'
    <2>1. ASSUME NEW q \in Proc, "SENDING" \in rts'[q]
          PROVE  isokendpt(sendto[q])' /\ Alive(sendto[q][2])'
      <3>1. q # c /\ sendto'[q] = sendto[q] /\ sendto[q] \in Endpoints /\ sendto[q][2] \in Proc
        BY <1>0, <1>6, <1>8, <2>1, EndpointsParts DEF TypeOK
      <3>2. isokendpt(sendto[q]) /\ Alive(sendto[q][2]) /\ sendto[q][2] # c
        BY <1>5, <1>6, <2>1, <3>1 DEF BlockedOnLive, IPCInv
      <3> QED BY <1>11, <1>12, <3>1, <3>2
    <2>2. ASSUME NEW q \in Proc, "RECEIVING" \in rts'[q], getfrom'[q] # ANY
          PROVE  isokendpt(getfrom[q])' /\ Alive(getfrom[q][2])'
      <3>1. \E y \in Proc : "RECEIVING" \in rts[y] /\ getfrom'[q] = getfrom[y]
        BY <1>2, <1>6, <2>2
      <3>2. /\ isokendpt(getfrom'[q]) /\ Alive(getfrom'[q][2]) /\ getfrom'[q][2] # c
        BY <1>5, <2>2, <3>1 DEF BlockedOnLive, IPCInv
      <3>3. getfrom'[q] \in Endpoints /\ getfrom'[q][2] \in Proc
        BY <1>1, <2>2, EndpointsParts DEF TypeOK
      <3> QED BY <1>11, <1>12, <3>2, <3>3
    <2> QED BY <2>1, <2>2 DEF BlockedOnLive
  <1>14. OneMessage'
    BY <1>2, <1>6, <1>8 DEF OneMessage, IPCInv
  <1>15. QueueSound'
    <2>1. ASSUME NEW d \in Proc, d # c, Alive(d)
          PROVE  /\ Distinct(callerq'[d])
                 /\ \A q \in Proc : Member(q, callerq'[d])
                        <=> ("SENDING" \in rts'[q] /\ sendto'[q] = Endpoint(d))
      <3>1. /\ Distinct(callerq[d])
            /\ \A q \in Proc : Member(q, callerq[d])
                                 <=> ("SENDING" \in rts[q] /\ sendto[q] = Endpoint(d))
        BY <1>0, <2>1, QueueSoundIs
      <3>2. "SENDING" \notin rts[c]
        BY <1>2 DEF isemptyp
      <3> QED BY <1>6, <1>8, <2>1, <3>1, <3>2
    <2>2. /\ Distinct(callerq'[c])
          /\ \A q \in Proc : Member(q, callerq'[c])
                        <=> ("SENDING" \in rts'[q] /\ sendto'[q] = Endpoint(c)')
      <3>1. Distinct(callerq'[c]) /\ \A q \in Proc : ~Member(q, callerq'[c])
        BY <1>4, <1>6 DEF Distinct, Member
      <3>2. ASSUME NEW q \in Proc, "SENDING" \in rts'[q] PROVE sendto'[q] # Endpoint(c)'
        <4>1. Endpoint(c)'[2] = c BY DEF Endpoint
        <4>2. q # c BY <1>8, <3>2
        <4> QED BY <1>5, <1>6, <3>2, <4>1, <4>2
      <3> QED BY <3>1, <3>2
    <2> QED BY <1>11, <2>1, <2>2 DEF QueueSound, Distinct, Member
  <1>16. NoMissedRendezvous'
    <2>1. ASSUME NEW q \in Proc, q # c, "RECEIVING" \in rts'[q], "SENDING" \notin rts'[q]
          PROVE  /\ \A j \in DOMAIN callerq'[q] :
                       getfrom'[q] # ANY /\ getfrom'[q] # Endpoint(callerq[q][j])'
                 /\ getfrom'[q] = ANY => s_notify_pending'[priv(q)] = {}
      <3>1. /\ \A j \in DOMAIN callerq[q] :
                  getfrom[q] # ANY /\ getfrom[q] # Endpoint(callerq[q][j])
            /\ getfrom[q] = ANY => s_notify_pending[priv(q)] = {}
        BY <1>6, <2>1 DEF IPCInv, NoMissedRendezvous
      <3>2. ASSUME NEW j \in DOMAIN callerq[q]
            PROVE  callerq[q][j] \in Proc /\ callerq[q][j] # c
        <4>1. Alive(q)
          BY <1>0, <1>6, <2>1 DEF Alive, FlagsSound
        <4>2. callerq[q][j] \in Proc /\ Member(callerq[q][j], callerq[q])
          BY <1>0, CallersAreProcs
        <4>3. "SENDING" \in rts[callerq[q][j]]
          BY <1>0, <4>1, <4>2, QueueSoundIs
        <4> QED BY <1>2, <4>2, <4>3 DEF isemptyp
      <3> QED BY <1>2, <1>6, <2>1, <3>1, <3>2 DEF Endpoint
    <2> QED BY <1>4, <1>6, <1>9, <2>1 DEF NoMissedRendezvous
  <1> QED BY <1>1, <1>10, <1>13, <1>14, <1>15, <1>16 DEF IPCInv

-----------------------------------------------------------------------------
(* The boot state satisfies IPCInv. *)
LEMMA InitInv == Init => IPCInv
  <1> SUFFICES ASSUME Init PROVE IPCInv OBVIOUS
  <1>1. TypeOK BY InitType
  <1>2. \A p \in Proc : rts[p] = {} \/ rts[p] = {"SLOT_FREE"}
    BY DEF Init
  <1>3. /\ \A p \in Proc : misc[p] = {}
        /\ \A p \in Proc : DOMAIN callerq[p] = {}
    BY DEF Init
  <1> QED BY <1>1, <1>2, <1>3 DEF IPCInv, FlagsSound, QueueSound, BlockedOnLive,
                                  NoMissedRendezvous, OneMessage

(* Every step that copies no queue preserves IPCInv. *)
LEMMA NextInv ==
    ASSUME IPCInv, [Next]_vars, [~QueueForked]_vars
    PROVE  IPCInv'
  <1>1. CASE UNCHANGED vars
    <2>1. TypeOK'
      BY <1>1, NextType DEF IPCInv
    <2>2. UNCHANGED <<rts, misc, s_notify_pending>> /\ UNCHANGED ipcvars
      BY <1>1 DEF vars
    <2>3. FlagStep({})
      BY <2>2 DEF FlagStep
    <2> QED BY <2>1, <2>2, <2>3, FlagStepInv
  <1>2. ASSUME NEW p \in Proc, NEW e \in Endpoints, SendRec(p, e) PROVE IPCInv'
    BY <1>2, SendRecBlocksInv, SendRecDeliversInv DEF SendRec
  <1>3. ASSUME NEW p \in Proc, Trap(p) PROVE IPCInv'
    BY <1>2, <1>3, SendInv, SendNBInv, NotifyInv, PeerDiedInv, SendAInv, ReceiveInv, PeersEndpoints,
       Zenon DEF Trap
  <1>4. ASSUME NEW p \in Proc, DeliverMsg(p) \/ External(p) PROVE IPCInv'
    BY <1>4, DeliverMsgInv, ExternalInv, Zenon
  <1>5. ASSUME NEW p \in Proc, Signal(p) PROVE IPCInv'
    <2>1. KillTargets \subseteq Proc BY ProgramAssumption
    <2> QED BY <1>5, <2>1, ExceptionInv, DoKillTermInv, DoKillKillInv DEF Signal
  <1>6. ASSUME NEW p \in Proc, Lifecycle(p), ~QueueForked PROVE IPCInv'
    BY <1>6, ExitInv, SmallCallsInv, DoForkInv, Zenon DEF Lifecycle
  <1>7. ASSUME NEW p \in Proc, Stop(p) PROVE IPCInv'
    BY <1>7, SmallCallsInv, Zenon DEF Stop
  <1>8. CASE DoGetKsig \/ DoEndKsig
    BY <1>8, Basics, SmallCallsInv, Zenon
  <1> QED BY <1>1, <1>3, <1>4, <1>5, <1>6, <1>7, <1>8, Zenon DEF Next

(* The invariant that carries the safety of message passing, as long as    *)
(* do_fork copies no queue with processes in it (do_fork.c:63).            *)
THEOREM IPCInvariant == Spec /\ [][~QueueForked]_vars => []IPCInv
  <1>1. Init => IPCInv
    BY InitInv
  <1>2. IPCInv /\ [Next]_vars /\ [~QueueForked]_vars => IPCInv'
    BY NextInv
  <1> QED BY <1>1, <1>2, PTL DEF Spec

(* Queues and flags never disagree: the queue of a living process holds    *)
(* exactly the processes blocked on sending to it, each once.  do_fork.c:63 *)
(* is the only statement that can part them, when it copies a queue.        *)
THEOREM QueuesAlwaysSound == Spec /\ [][~QueueForked]_vars => []QueueSound
  <1>1. IPCInv => QueueSound
    BY DEF IPCInv
  <1> QED BY <1>1, IPCInvariant, PTL

(* Nobody is ever blocked on a process that is dead or has lost its        *)
(* endpoint, so okendpt() in deadlock() and clear_endpoint() never panics, *)
(* unless do_fork has copied a queue.                                      *)
THEOREM NobodyWaitsForTheDead == Spec /\ [][~QueueForked]_vars => []BlockedOnLive
  <1>1. IPCInv => BlockedOnLive
    BY DEF IPCInv
  <1> QED BY <1>1, IPCInvariant, PTL

(* Nobody sleeps in RECEIVE while a sender it would accept is queued, nor  *)
(* in receive(ANY) while a notification is pending, unless do_fork has     *)
(* copied a queue.                                                         *)
THEOREM NoRendezvousMissed == Spec /\ [][~QueueForked]_vars => []NoMissedRendezvous
  <1>1. IPCInv => NoMissedRendezvous
    BY DEF IPCInv
  <1> QED BY <1>1, IPCInvariant, PTL

(* QueueMess overwrites no message that is not copied out, unless do_fork  *)
(* has copied a queue.                                                     *)
THEOREM OneMessageAtATime == Spec /\ [][~QueueForked]_vars => []OneMessage
  <1>1. IPCInv => OneMessage
    BY DEF IPCInv
  <1> QED BY <1>1, IPCInvariant, PTL

-----------------------------------------------------------------------------
(* deadlock() does its work: no set of processes ever waits for itself.    *)
(* A step adds at most one edge to the graph of who waits for whom, from a *)
(* process that had none; a set that would then wait for itself, less what *)
(* deadlock() has seen not to lead back to the caller, waited for itself   *)
(* before the step.                                                        *)


CycleInv == IPCInv /\ NoWaitCycle

(* Every process waits for whom it waited for before, if for anyone. *)
NoNewEdge == \A p, q \in Proc : WaitsFor(p, q)' => WaitsFor(p, q)

(* A step that adds no edge adds no cycle. *)
LEMMA NoNewEdgeInv ==
    ASSUME NoWaitCycle, NoNewEdge
    PROVE  NoWaitCycle'
  BY DEF NoWaitCycle, NoNewEdge

(* p, which waited for no one, now waits for d and for no one else. *)
NewEdge(p, d) ==
    /\ \A q \in Proc : ~WaitsFor(p, q)
    /\ \A q \in Proc : WaitsFor(p, q)' => q = d
    /\ \A x, y \in Proc : x # p => (WaitsFor(x, y)' => WaitsFor(x, y))

(* One new edge adds no cycle if its end waits for no one or leads elsewhere. *)
LEMMA NewEdgeInv ==
    ASSUME NoWaitCycle, NEW p \in Proc, NEW d \in Proc, NewEdge(p, d), p \notin Blocked,
           \/ \A q \in Proc : ~WaitsFor(d, q)'
           \/ ~ChainReaches(d, p)
    PROVE  NoWaitCycle'
  <1> SUFFICES ASSUME NEW S \in SUBSET Proc, S # {},
                      \A x \in S : \E y \in S : WaitsFor(x, y)'
               PROVE  FALSE
    BY DEF NoWaitCycle
  <1>1. p \in S
    BY DEF NoWaitCycle, NewEdge
  <1>2. d \in S
    BY <1>1 DEF NewEdge
  <1>3. ~ChainReaches(d, p)
    BY <1>2
  <1>4. PICK T \in SUBSET Blocked :
           /\ d \in T
           /\ \A x \in T, y \in Blocked : WaitsFor(x, y) => y \in T
           /\ \A x \in T : ~WaitsFor(x, p)
    BY <1>3 DEF ChainReaches
  <1>5. \A x \in S : x # p => x \in Blocked
    BY DEF NewEdge, WaitsFor, Blocked
  <1> DEFINE U == S \cap T
  <1>6. U # {} /\ U \in SUBSET Proc /\ p \notin U
    BY <1>2, <1>4
  <1>7. \A x \in U : \E y \in U : WaitsFor(x, y)
    <2> SUFFICES ASSUME NEW x \in U PROVE \E y \in U : WaitsFor(x, y)
      OBVIOUS
    <2>1. PICK y \in S : WaitsFor(x, y)'
      OBVIOUS
    <2>2. x # p /\ WaitsFor(x, y)
      BY <1>6, <2>1 DEF NewEdge
    <2>3. y # p
      BY <1>4, <2>2
    <2>4. y \in T
      BY <1>4, <1>5, <2>2, <2>3
    <2> QED BY <2>2, <2>4
  <1> QED BY <1>6, <1>7 DEF NoWaitCycle

-----------------------------------------------------------------------------
(* The steps after which nobody is newly blocked. *)

(* Flags r1 block no process in a call that r does not block. *)
Relaxed(r, r1) ==
    \A p \in Proc : \A f \in {"SENDING", "RECEIVING"} : f \in r1[p] => f \in r[p]

(* A step that blocks nobody newly adds no cycle. *)
LEMMA RelaxedInv ==
    ASSUME CycleInv, Relaxed(rts, rts'), UNCHANGED <<getfrom, sendto>>
    PROVE  NoWaitCycle'
  <1>1. \A p \in Proc : ("SENDING" \in rts[p] /\ "RECEIVING" \in rts[p])
                          => getfrom[p] = sendto[p] /\ getfrom[p] # ANY
    BY AnyNoEndpoint DEF CycleInv, IPCInv, FlagsSound, TypeOK
  <1>2. NoNewEdge
    BY <1>1 DEF NoNewEdge, WaitsFor, Relaxed
  <1> QED BY <1>2, NoNewEdgeInv DEF CycleInv

(* mini_notify blocks nobody in a call. *)
LEMMA NotifyRelaxes ==
    ASSUME NEW source, NEW target \in Proc, NEW ints, NEW sigs,
           NEW r \in [Proc -> SUBSET RtsFlags], NEW m, NEW i, NEW np,
           mini_notify(source, target, ints, sigs, r, m, i, np)
    PROVE  Relaxed(r, rts')
  <1>1. rts' = r \/ rts' = [r EXCEPT ![target] = @ \ {"RECEIVING"}]
    BY DEF mini_notify
  <1> QED BY <1>1 DEF Relaxed

(* cause_sig blocks nobody in a call. *)
LEMMA CauseSigRelaxes ==
    ASSUME NEW target \in Proc, NEW sig, NEW r \in [Proc -> SUBSET RtsFlags],
           NEW m, NEW i, NEW np, cause_sig(target, sig, r, m, i, np)
    PROVE  Relaxed(r, rts')
  <1> DEFINE sp == [s_sig_pending EXCEPT ![PM] = @ \cup {"SIGKSIG"}]
             r1 == [r EXCEPT ![target] = @ \cup {"SIGNALED", "SIG_PENDING"}]
  <1>1. \/ mini_notify(SYSTEM, PM, s_int_pending, sp, r1, m, i, np)
        \/ rts' = r
    BY DEF cause_sig
  <1>2. r1 \in [Proc -> SUBSET RtsFlags] /\ Relaxed(r, r1)
    BY DEF RtsFlags, Relaxed
  <1> HIDE DEF sp, r1
  <1>3. CASE mini_notify(SYSTEM, PM, s_int_pending, sp, r1, m, i, np)
    <2>1. Relaxed(r1, rts')
      BY <1>2, <1>3, Basics, NotifyRelaxes
    <2> QED BY <1>2, <2>1 DEF Relaxed
  <1>4. CASE rts' = r
    BY <1>4 DEF Relaxed
  <1> QED BY <1>1, <1>3, <1>4

(* Notifications, interrupts, alarms and exceptions add no cycle. *)
LEMMA NotifyingCycle ==
    ASSUME CycleInv, NEW p \in Proc,
           \/ External(p) \/ Exception(p)
           \/ \E e \in Endpoints : Notify(p, e)
    PROVE  NoWaitCycle'
  <1>0. rts \in [Proc -> SUBSET RtsFlags] BY DEF CycleInv, IPCInv, TypeOK
  <1>1. UNCHANGED ipcvars
    BY DEF External, Alarm, Interrupt, Exception, Notify
  <1>2. UNCHANGED <<getfrom, sendto>> BY <1>1 DEF ipcvars
  <1>3. CASE Exception(p)
    <2>1. cause_sig(p, "SIGSEGV", rts, misc, inmsg, s_notify_pending)
      BY <1>3 DEF Exception
    <2> QED BY <1>0, <1>2, <2>1, CauseSigRelaxes, RelaxedInv
  <1>4. CASE External(p) \/ \E e \in Endpoints : Notify(p, e)
    <2>1. \E source, target, ints, sigs :
            /\ target \in Proc
            /\ mini_notify(source, target, ints, sigs, rts, misc, inmsg, s_notify_pending)
      BY <1>4, EndpointsParts DEF External, Alarm, Interrupt, Notify
    <2>2. Relaxed(rts, rts')
      BY <1>0, <2>1, NotifyRelaxes
    <2> QED BY <1>2, <2>2, RelaxedInv
  <1> QED BY <1>3, <1>4

(* do_kill adds no cycle. *)
LEMMA DoKillCycle ==
    ASSUME CycleInv, NEW p \in Proc, NEW t \in Proc, NEW sig \in {"SIGKILL", "SIGTERM"},
           DoKill(p, t, sig)
    PROVE  NoWaitCycle'
  <1>0. TypeOK /\ rts \in [Proc -> SUBSET RtsFlags] BY DEF CycleInv, IPCInv, TypeOK
  <1>1. UNCHANGED <<getfrom, sendto>> BY DEF DoKill
  <1>2. Relaxed(rts, FlagsCleared(t)) /\ FlagsCleared(t) \in [Proc -> SUBSET RtsFlags]
    <2>1. Relaxed(rts, FlagsCleared(t))
      BY <1>0 DEF FlagsCleared, Relaxed
    <2> QED BY <1>0, <2>1, ClearType
  <1>3. \/ cause_sig(t, sig, FlagsCleared(t), KernelCall(p, misc), inmsg, NotifiesCleared(t))
        \/ cause_sig(t, sig, rts, KernelCall(p, misc), inmsg, s_notify_pending)
    BY DEF DoKill
  <1>4. Relaxed(FlagsCleared(t), rts') \/ Relaxed(rts, rts')
    BY <1>0, <1>2, <1>3, CauseSigRelaxes
  <1>5. Relaxed(rts, rts')
    BY <1>2, <1>4 DEF Relaxed
  <1> QED BY <1>1, <1>5, RelaxedInv

(* do_exit adds no cycle. *)
LEMMA ExitCycle ==
    ASSUME CycleInv, NEW c \in Proc, DoExit(c) \/ DoExitSelf(c)
    PROVE  NoWaitCycle'
  <1>0. TypeOK /\ rts \in [Proc -> SUBSET RtsFlags] BY DEF CycleInv, IPCInv, TypeOK
  <1>1. clear_proc(c) BY DEF DoExit, DoExitSelf
  <1>2. Relaxed(rts, FlagsCleared(c)) /\ FlagsCleared(c) \in [Proc -> SUBSET RtsFlags]
    <2>1. Relaxed(rts, FlagsCleared(c))
      BY <1>0 DEF FlagsCleared, Relaxed
    <2> QED BY <1>0, <2>1, ClearType
  <1>3. Relaxed(FlagsCleared(c), rts')
    BY <1>1, <1>2 DEF clear_proc, Relaxed
  <1>4. Relaxed(rts, rts') /\ UNCHANGED <<getfrom, sendto>>
    BY <1>1, <1>2, <1>3 DEF Relaxed, clear_proc
  <1> QED BY <1>4, RelaxedInv

(* The steps that only set or clear other flags, or hand a message over. *)
LEMMA QuietCycle ==
    ASSUME CycleInv, NEW p \in Proc,
           \/ DeliverMsg(p) \/ DoPrivctl(p) \/ DoResume(p) \/ DoGetKsig \/ DoEndKsig
           \/ \E delay \in BOOLEAN : DoStop(p, delay)
           \/ \E e \in Endpoints : SendNB(p, e)
           \/ \E e \in Endpoints : \E call \in {"RECEIVE", "SENDREC"} : PeerDied(p, call, e)
    PROVE  NoWaitCycle'
  <1>0. rts \in [Proc -> SUBSET RtsFlags] BY DEF CycleInv, IPCInv, TypeOK
  <1>1. UNCHANGED ipcvars
    BY DEF DeliverMsg, DoPrivctl, DoResume, DoGetKsig, DoEndKsig, DoStop, SendNB, PeerDied
  <1>2. UNCHANGED <<getfrom, sendto>> BY <1>1 DEF ipcvars
  <1>3. \/ UNCHANGED rts
        \/ \E q : \E f \in {"NO_PRIV", "PROC_STOP", "SIGNALED", "SIG_PENDING", "RECEIVING"} :
              rts' = [rts EXCEPT ![q] = @ \ {f}]
        \/ rts' = [rts EXCEPT ![p] = @ \cup {"PROC_STOP"}]
    <2>1. CASE DeliverMsg(p) \/ \E e \in Endpoints : \E call \in {"RECEIVE", "SENDREC"} :
                                    PeerDied(p, call, e)
      BY <2>1 DEF DeliverMsg, PeerDied
    <2>2. CASE DoPrivctl(p) \/ DoResume(p)
      BY <2>2 DEF DoPrivctl, DoResume
    <2>3. CASE \E delay \in BOOLEAN : DoStop(p, delay)
      BY <2>3 DEF DoStop
    <2>4. CASE DoGetKsig
      BY <2>4 DEF DoGetKsig
    <2>5. CASE DoEndKsig
      <3>1. \/ UNCHANGED rts
            \/ rts' = [rts EXCEPT ![ksig_e[2]] = IF "SIGNALED" \in @ THEN @
                                                ELSE @ \ {"SIG_PENDING"}]
        BY <2>5 DEF DoEndKsig
      <3>2. rts' = rts \/ rts' = [rts EXCEPT ![ksig_e[2]] = @ \ {"SIG_PENDING"}]
        BY <1>0, <3>1
      <3> QED BY <3>2
    <2>6. CASE \E e \in Endpoints : SendNB(p, e)
      BY <2>6 DEF SendNB, QueueMess
    <2> QED BY <2>1, <2>2, <2>3, <2>4, <2>5, <2>6
  <1>4. Relaxed(rts, rts')
    BY <1>0, <1>3 DEF Relaxed
  <1> QED BY <1>2, <1>4, RelaxedInv

(* mini_senda adds no cycle. *)
LEMMA SendACycle ==
    ASSUME CycleInv, NEW p \in Proc, NEW e \in Endpoints, NEW noreply \in BOOLEAN,
           NEW k \in 0 .. ASYN_NR, SendA(p, e, noreply, k)
    PROVE  NoWaitCycle'
  <1> DEFINE table   == AsynTable(p, e, noreply, k)
             Served  == {q \in Proc : \E i \in DOMAIN table :
                                    table[i].dst[2] = q /\ Given(p, table, i)}
  <1>1. /\ rts' = [q \in Proc |-> IF q \in Served THEN rts[q] \ {"RECEIVING"}
                                                 ELSE rts[q]]
        /\ UNCHANGED ipcvars
    BY DEF SendA
  <1> HIDE DEF Served
  <1>2. Relaxed(rts, rts')
    BY <1>1 DEF Relaxed
  <1> QED BY <1>1, <1>2, RelaxedInv DEF ipcvars

(* A receive that finds a notification or asynchronous message adds no cycle. *)
LEMMA ReceiveAtOnceCycle ==
    ASSUME CycleInv, NEW p \in Proc, NEW src, NEW m,
           ReceiveNotification(p, src, m) \/ ReceiveAsync(p, src, m)
    PROVE  NoWaitCycle'
  <1>1. UNCHANGED rts /\ UNCHANGED ipcvars
    BY DEF ReceiveNotification, ReceiveAsync
  <1> QED BY <1>1, RelaxedInv DEF Relaxed, ipcvars

(* A receive that takes a sender off the queue adds no cycle. *)
LEMMA ReceiveQueuedCycle ==
    ASSUME CycleInv, NEW p \in Proc, NEW src, NEW m, ReceiveQueued(p, src, m)
    PROVE  NoWaitCycle'
  <1>0. TypeOK /\ rts \in [Proc -> SUBSET RtsFlags] BY DEF CycleInv, IPCInv, TypeOK
  <1>1. PICK j \in InQueue(p, src) :
          LET x  == callerq[p][j]
              r  == [rts EXCEPT ![x] = @ \ {"SENDING"}]
              m1 == [m EXCEPT ![p] = @ \cup {"DELIVERMSG"}]
              i1 == [inmsg EXCEPT ![p] = Message(x, "msg", {})]
          IN  /\ \/ cause_sig(x, "SIGNDELAY", r, [m1 EXCEPT ![x] = @ \ {"SIG_DELAY"}],
                              i1, s_notify_pending)
                 \/ rts' = r
              /\ UNCHANGED <<getfrom, sendto>>
    BY DEF ReceiveQueued
  <1> DEFINE x  == callerq[p][j]
             r  == [rts EXCEPT ![x] = @ \ {"SENDING"}]
             m1 == [m EXCEPT ![p] = @ \cup {"DELIVERMSG"}]
             m2 == [m1 EXCEPT ![x] = @ \ {"SIG_DELAY"}]
             i1 == [inmsg EXCEPT ![p] = Message(x, "msg", {})]
  <1>2. \/ cause_sig(x, "SIGNDELAY", r, m2, i1, s_notify_pending)
        \/ rts' = r
    BY <1>1
  <1>3. x \in Proc
    BY <1>0, CallersAreProcs DEF InQueue
  <1>4. r \in [Proc -> SUBSET RtsFlags] /\ Relaxed(rts, r)
    BY <1>0 DEF Relaxed
  <1>5. UNCHANGED <<getfrom, sendto>> BY <1>1
  <1> HIDE DEF x, r, m1, m2, i1
  <1>6. Relaxed(r, rts')
    <2>1. CASE cause_sig(x, "SIGNDELAY", r, m2, i1, s_notify_pending)
      BY <1>3, <1>4, <2>1, CauseSigRelaxes
    <2>2. CASE rts' = r
      BY <2>2 DEF Relaxed
    <2> QED BY <1>2, <2>1, <2>2
  <1>7. Relaxed(rts, rts')
    BY <1>4, <1>6 DEF Relaxed
  <1> QED BY <1>5, <1>7, RelaxedInv

-----------------------------------------------------------------------------
(* The steps that block a process: sys_call asked deadlock() first. *)

(* A running process p blocks on d; nobody else is newly blocked. *)
BlocksOn(p, d) ==
    /\ rts[p] = {}
    /\ \A q \in Proc : WaitsFor(p, q)' => q = d
    /\ \A x \in Proc \ {p} :
          /\ getfrom'[x] = getfrom[x] /\ sendto'[x] = sendto[x]
          /\ "SENDING" \in rts'[x] <=> "SENDING" \in rts[x]
          /\ "RECEIVING" \in rts'[x] => "RECEIVING" \in rts[x]

(* A process that blocks on d adds no cycle if d runs on or leads elsewhere. *)
LEMMA BlocksOnInv ==
    ASSUME CycleInv, NEW p \in Proc, NEW d \in Proc, p # d, BlocksOn(p, d),
           \/ "RECEIVING" \notin rts'[d] /\ "SENDING" \notin rts'[d]
           \/ ~ChainReaches(d, p)
    PROVE  NoWaitCycle'
  <1>1. \A q \in Proc : ("SENDING" \in rts[q] /\ "RECEIVING" \in rts[q])
                          => getfrom[q] = sendto[q] /\ getfrom[q] # ANY
    BY AnyNoEndpoint DEF CycleInv, IPCInv, FlagsSound, TypeOK
  <1>2. NewEdge(p, d)
    BY <1>1 DEF NewEdge, BlocksOn, WaitsFor
  <1>3. p \notin Blocked
    BY DEF BlocksOn, Blocked
  <1>4. ("RECEIVING" \notin rts'[d] /\ "SENDING" \notin rts'[d])
           => \A q \in Proc : ~WaitsFor(d, q)'
    BY DEF WaitsFor
  <1> QED BY <1>2, <1>3, <1>4, NewEdgeInv DEF CycleInv

(* deadlock() found nothing, and d does not already have p in a group of two. *)
LEMMA NotDeadlocked ==
    ASSUME CycleInv, NEW p \in Proc, NEW d \in Proc, p # d, NEW call, BlocksOn(p, d),
           ~deadlock(call, p, d),
           WaitsFor(d, p) => ("SENDING" \in rts[d]) = (call \in {"SEND", "SENDREC"})
    PROVE  NoWaitCycle'
  <1>1. d \notin Blocked \/ ~ChainReaches(d, p)
    BY DEF deadlock
  <1>2. d \notin Blocked => "RECEIVING" \notin rts'[d] /\ "SENDING" \notin rts'[d]
    BY DEF Blocked, BlocksOn
  <1> QED BY <1>1, <1>2, BlocksOnInv

(* Whoever waits for a living process waits for its present endpoint. *)
LEMMA WaitsForEndpoint ==
    ASSUME IPCInv, NEW p \in Proc, NEW d \in Proc, WaitsFor(d, p)
    PROVE  /\ "SENDING" \in rts[d] => sendto[d] = Endpoint(p)
           /\ "SENDING" \notin rts[d] => "RECEIVING" \in rts[d] /\ getfrom[d] = Endpoint(p)
  <1>1. "SENDING" \in rts[d] => sendto[d] = Endpoint(sendto[d][2])
    BY DEF IPCInv, BlockedOnLive, isokendpt
  <1>2. ("RECEIVING" \in rts[d] /\ getfrom[d] # ANY) => getfrom[d] = Endpoint(getfrom[d][2])
    BY DEF IPCInv, BlockedOnLive, isokendpt
  <1>3. ("SENDING" \in rts[d] /\ "RECEIVING" \in rts[d]) => getfrom[d] = sendto[d]
    BY DEF IPCInv, FlagsSound
  <1> QED BY <1>1, <1>2, <1>3 DEF WaitsFor

(* A send that blocks: d is not waiting for p to send. *)
LEMMA EnqueueCycle ==
    ASSUME CycleInv, NEW p \in Proc, NEW e \in Endpoints, NEW call \in {"SEND", "SENDREC"},
           sys_call(p, call, e), ~WILLRECEIVE(rts, e[2], p), BlocksOn(p, e[2])
    PROVE  NoWaitCycle'
  <1>1. e[2] \in Proc /\ e # ANY BY EndpointsParts, AnyNoEndpoint
  <1>2. <<p, e[2]>> \in MaySend /\ ~deadlock(call, p, e[2])
    BY <1>1 DEF sys_call, Allowed
  <1>3. p # e[2]
    BY <1>2, PrivAssumption
  <1>4. WaitsFor(e[2], p) => "SENDING" \in rts[e[2]]
    BY <1>1, WaitsForEndpoint DEF WILLRECEIVE, CycleInv
  <1> QED BY <1>1, <1>2, <1>3, <1>4, NotDeadlocked

(* SEND adds no cycle. *)
LEMMA SendCycle ==
    ASSUME CycleInv, NEW p \in Proc, NEW e \in Endpoints, Send(p, e)
    PROVE  NoWaitCycle'
  <1>0. rts \in [Proc -> SUBSET RtsFlags] /\ sendto \in [Proc -> Endpoints]
    BY DEF CycleInv, IPCInv, TypeOK
  <1>1. /\ sys_call(p, "SEND", e) /\ UNCHANGED getfrom /\ rts[p] = {}
    BY DEF Send, sys_call, Running
  <1>2. CASE WILLRECEIVE(rts, e[2], p)
    <2>1. rts' = [rts EXCEPT ![e[2]] = @ \ {"RECEIVING"}] /\ UNCHANGED sendto
      BY <1>2 DEF Send, QueueMess
    <2>2. Relaxed(rts, rts')
      BY <1>0, <2>1 DEF Relaxed
    <2> QED BY <1>1, <2>1, <2>2, RelaxedInv
  <1>3. CASE ~WILLRECEIVE(rts, e[2], p)
    <2>1. /\ rts' = [rts EXCEPT ![p] = @ \cup {"SENDING"}]
          /\ sendto' = [sendto EXCEPT ![p] = e]
      BY <1>3 DEF Send, Enqueue
    <2>2. rts'[p] = {"SENDING"} /\ sendto'[p] = e
      BY <1>0, <1>1, <2>1
    <2>3. \A x \in Proc \ {p} : rts'[x] = rts[x] /\ sendto'[x] = sendto[x]
      BY <1>0, <2>1
    <2>4. \A q \in Proc : WaitsFor(p, q)' => q = e[2]
      BY <2>2 DEF WaitsFor
    <2>5. BlocksOn(p, e[2])
      BY <1>1, <2>3, <2>4 DEF BlocksOn
    <2> QED BY <1>1, <1>3, <2>5, EnqueueCycle
  <1> QED BY <1>2, <1>3

(* A SENDREC whose first half blocks adds no cycle. *)
LEMMA SendRecBlocksCycle ==
    ASSUME CycleInv, NEW p \in Proc, NEW e \in Endpoints, SendRec(p, e), SendRecBlocks(p, e)
    PROVE  NoWaitCycle'
  <1>0. /\ rts \in [Proc -> SUBSET RtsFlags] /\ sendto \in [Proc -> Endpoints]
        /\ getfrom \in [Proc -> Endpoints \cup {ANY}]
    BY DEF CycleInv, IPCInv, TypeOK
  <1>1. sys_call(p, "SENDREC", e) /\ rts[p] = {}
    BY DEF SendRec, sys_call, Running
  <1>2. /\ rts' = [rts EXCEPT ![p] = @ \cup {"SENDING", "RECEIVING"}]
        /\ sendto' = [sendto EXCEPT ![p] = e] /\ getfrom' = [getfrom EXCEPT ![p] = e]
        /\ ~WILLRECEIVE(rts, e[2], p)
    BY DEF SendRecBlocks, Enqueue
  <1>3. rts'[p] = {"SENDING", "RECEIVING"} /\ sendto'[p] = e /\ getfrom'[p] = e
    BY <1>0, <1>1, <1>2
  <1>4. \A x \in Proc \ {p} : /\ rts'[x] = rts[x] /\ sendto'[x] = sendto[x]
                              /\ getfrom'[x] = getfrom[x]
    BY <1>0, <1>2
  <1>5. \A q \in Proc : WaitsFor(p, q)' => q = e[2]
    BY <1>3 DEF WaitsFor
  <1>6. BlocksOn(p, e[2])
    BY <1>1, <1>4, <1>5 DEF BlocksOn
  <1> QED BY <1>1, <1>2, <1>6, EnqueueCycle

(* The destination takes the message, so it waits for nobody. *)
LEMMA SendRecDeliversCycle ==
    ASSUME CycleInv, NEW p \in Proc, NEW e \in Endpoints, SendRec(p, e), SendRecDelivers(p, e)
    PROVE  NoWaitCycle'
  <1> DEFINE d == e[2]
             r == [rts EXCEPT ![d] = @ \ {"RECEIVING"}]
  <1>0. /\ rts \in [Proc -> SUBSET RtsFlags] /\ sendto \in [Proc -> Endpoints]
        /\ getfrom \in [Proc -> Endpoints \cup {ANY}] /\ d \in Proc
    BY EndpointsParts DEF CycleInv, IPCInv, TypeOK
  <1>1. rts[p] = {}
    BY DEF SendRec, sys_call, Running
  <1>2. /\ "RECEIVING" \in rts[d] /\ "SENDING" \notin rts[d]
        /\ UNCHANGED sendto
        /\ \/ rts' = r /\ UNCHANGED getfrom
           \/ Block(p, e, r)
    BY DEF SendRecDelivers, WILLRECEIVE
  <1>3. p # d BY <1>1, <1>2
  <1>4. CASE rts' = r /\ UNCHANGED getfrom
    BY <1>0, <1>2, <1>4, RelaxedInv DEF Relaxed
  <1>5. CASE Block(p, e, r)
    <2>1. /\ rts' = [r EXCEPT ![p] = @ \cup {"RECEIVING"}]
          /\ getfrom' = [getfrom EXCEPT ![p] = e]
      BY <1>5 DEF Block
    <2>2. rts'[p] = {"RECEIVING"} /\ getfrom'[p] = e /\ rts'[d] = rts[d] \ {"RECEIVING"}
      BY <1>0, <1>1, <1>3, <2>1
    <2>3. \A x \in Proc \ {p} :
             /\ getfrom'[x] = getfrom[x]
             /\ "SENDING" \in rts'[x] <=> "SENDING" \in rts[x]
             /\ "RECEIVING" \in rts'[x] => "RECEIVING" \in rts[x]
      BY <1>0, <2>1
    <2>4. \A q \in Proc : WaitsFor(p, q)' => q = d
      BY <2>2 DEF WaitsFor
    <2> HIDE DEF d, r
    <2>5. BlocksOn(p, d)
      BY <1>1, <1>2, <2>3, <2>4 DEF BlocksOn
    <2> QED BY <1>0, <1>2, <1>3, <2>2, <2>5, BlocksOnInv
  <1> QED BY <1>2, <1>4, <1>5

(* A receive that blocks: p's queue does not hold whom it waits for. *)
LEMMA ReceiveBlocksCycle ==
    ASSUME CycleInv, NEW p \in Proc, NEW src \in Endpoints \cup {ANY}, NEW m,
           sys_call(p, "RECEIVE", src), InQueue(p, src) = {}, ReceiveBlocks(p, src, m)
    PROVE  NoWaitCycle'
  <1>0. /\ TypeOK /\ QueueSound /\ rts \in [Proc -> SUBSET RtsFlags]
        /\ getfrom \in [Proc -> Endpoints \cup {ANY}]
    BY DEF CycleInv, IPCInv, TypeOK
  <1>1. /\ rts[p] = {} /\ UNCHANGED sendto
        /\ rts' = [rts EXCEPT ![p] = @ \cup {"RECEIVING"}]
        /\ getfrom' = [getfrom EXCEPT ![p] = src]
    BY DEF sys_call, Running, ReceiveBlocks, Block
  <1>2. rts'[p] = {"RECEIVING"} /\ getfrom'[p] = src
    BY <1>0, <1>1
  <1>3. \A x \in Proc \ {p} : rts'[x] = rts[x] /\ getfrom'[x] = getfrom[x]
    BY <1>0, <1>1
  <1>4. CASE src = ANY
    <2>1. NoNewEdge
      BY <1>1, <1>2, <1>3, <1>4 DEF NoNewEdge, WaitsFor
    <2> QED BY <2>1, NoNewEdgeInv DEF CycleInv
  <1>5. CASE src # ANY
    <2>1. src \in Endpoints /\ src[2] \in Proc
      BY <1>5, EndpointsParts
    <2>2. ~deadlock("RECEIVE", p, src[2]) /\ <<p, "RECEIVE", src[2]>> \in Programs
      BY <1>5 DEF sys_call, Allowed
    <2>3. p # src[2]
      BY <2>2, DisciplineAssumption
    <2>4. WaitsFor(src[2], p) => "SENDING" \notin rts[src[2]]
      <3>1. Alive(p) BY <1>1 DEF Alive
      <3>2. ~Member(src[2], callerq[p])
        BY DEF Member, InQueue
      <3>3. ~("SENDING" \in rts[src[2]] /\ sendto[src[2]] = Endpoint(p))
        BY <1>0, <2>1, <3>1, <3>2, QueueSoundIs
      <3> QED BY <2>1, <3>3, WaitsForEndpoint DEF CycleInv
    <2>5. \A q \in Proc : WaitsFor(p, q)' => q = src[2]
      BY <1>2 DEF WaitsFor
    <2>6. BlocksOn(p, src[2])
      BY <1>1, <1>3, <2>5 DEF BlocksOn
    <2> QED BY <2>1, <2>2, <2>3, <2>4, <2>6, NotDeadlocked
  <1> QED BY <1>4, <1>5

(* RECEIVE adds no cycle. *)
LEMMA ReceiveCycle ==
    ASSUME CycleInv, NEW p \in Proc, NEW src \in Endpoints \cup {ANY}, Receive(p, src)
    PROVE  NoWaitCycle'
  <1> DEFINE m == [misc EXCEPT ![p] = @ \ {"REPLY_PEND"}]
  <1>1. \/ ReceiveNotification(p, src, m)
        \/ ReceiveQueued(p, src, m)
        \/ ReceiveAsync(p, src, m)
        \/ sys_call(p, "RECEIVE", src) /\ InQueue(p, src) = {} /\ ReceiveBlocks(p, src, m)
    BY DEF Receive
  <1> QED BY <1>1, ReceiveAtOnceCycle, ReceiveQueuedCycle, ReceiveBlocksCycle

(* The child of a fork waits for PM, which runs. *)
LEMMA DoForkCycle ==
    ASSUME CycleInv, NEW f \in Proc, NEW c \in Proc, DoFork(f, c)
    PROVE  NoWaitCycle'
  <1>0. /\ rts \in [Proc -> SUBSET RtsFlags] /\ sendto \in [Proc -> Endpoints]
        /\ getfrom \in [Proc -> Endpoints \cup {ANY}] /\ PM \in Proc
    BY Basics DEF CycleInv, IPCInv, TypeOK
  <1>1. /\ rts[PM] = {} /\ rts[c] = {"SLOT_FREE"}
        /\ "RECEIVING" \in rts[f] /\ "SENDING" \notin rts[f] /\ getfrom[f] = Endpoint(PM)
    BY DEF DoFork, Running, isemptyp
  <1>2. /\ rts' = [rts EXCEPT ![c] = (rts[f] \ {"SIGNALED", "SIG_PENDING"})
                                     \cup (IF f \in SysProc THEN {"NO_PRIV"} ELSE {})]
        /\ getfrom' = [getfrom EXCEPT ![c] = getfrom[f]]
        /\ sendto' = [sendto EXCEPT ![c] = sendto[f]]
    BY DEF DoFork
  <1>3. /\ "RECEIVING" \in rts'[c] /\ getfrom'[c] = Endpoint(PM)
        /\ \A x \in Proc \ {c} : /\ rts'[x] = rts[x] /\ getfrom'[x] = getfrom[x]
                                 /\ sendto'[x] = sendto[x]
    BY <1>0, <1>1, <1>2
  <1>4. Endpoint(PM)[2] = PM BY DEF Endpoint
  <1>5. NewEdge(c, PM)
    BY <1>1, <1>3, <1>4 DEF NewEdge, WaitsFor
  <1>6. c # PM /\ rts'[PM] = {}
    BY <1>0, <1>1, <1>3
  <1>7. \A q \in Proc : ~WaitsFor(PM, q)'
    BY <1>6 DEF WaitsFor
  <1>8. c \notin Blocked
    BY <1>1 DEF Blocked
  <1> QED BY <1>0, <1>5, <1>7, <1>8, NewEdgeInv DEF CycleInv

-----------------------------------------------------------------------------
(* Such a step adds no cycle either. *)
LEMMA NextCycle ==
    ASSUME CycleInv, [Next]_vars, [~QueueForked]_vars
    PROVE  CycleInv'
  <1> SUFFICES NoWaitCycle'
    BY NextInv DEF CycleInv
  <1>1. CASE UNCHANGED vars
    <2>1. UNCHANGED rts /\ UNCHANGED <<getfrom, sendto>>
      BY <1>1 DEF vars, ipcvars
    <2>2. Relaxed(rts, rts')
      BY <2>1 DEF Relaxed
    <2> QED BY <2>1, <2>2, RelaxedInv
  <1>2. ASSUME NEW p \in Proc, NEW e \in Endpoints, SendRec(p, e) PROVE NoWaitCycle'
    BY <1>2, SendRecBlocksCycle, SendRecDeliversCycle DEF SendRec
  <1>3. ASSUME NEW p \in Proc, Trap(p) PROVE NoWaitCycle'
    BY <1>2, <1>3, SendCycle, QuietCycle, NotifyingCycle, SendACycle, ReceiveCycle, PeersEndpoints,
       Zenon DEF Trap
  <1>4. ASSUME NEW p \in Proc, DeliverMsg(p) \/ External(p) PROVE NoWaitCycle'
    BY <1>4, QuietCycle, NotifyingCycle, Zenon
  <1>5. ASSUME NEW p \in Proc, Signal(p) PROVE NoWaitCycle'
    <2>1. KillTargets \subseteq Proc BY ProgramAssumption
    <2> QED BY <1>5, <2>1, NotifyingCycle, DoKillCycle DEF Signal
  <1>6. ASSUME NEW p \in Proc, Lifecycle(p) PROVE NoWaitCycle'
    BY <1>6, ExitCycle, QuietCycle, DoForkCycle, Zenon DEF Lifecycle
  <1>7. ASSUME NEW p \in Proc, Stop(p) PROVE NoWaitCycle'
    BY <1>7, QuietCycle, Zenon DEF Stop
  <1>8. CASE DoGetKsig \/ DoEndKsig
    BY <1>8, Basics, QuietCycle, Zenon
  <1> QED BY <1>1, <1>3, <1>4, <1>5, <1>6, <1>7, <1>8, Zenon DEF Next

(* deadlock() keeps every group of processes from waiting for itself, if   *)
(* nobody receives from itself and do_fork copies no queue.                *)
THEOREM NoDeadlockCycle == Spec /\ [][~QueueForked]_vars => []NoWaitCycle
  <1>1. Init => CycleInv
    <2>1. Init => NoWaitCycle
      BY DEF Init, NoWaitCycle, WaitsFor
    <2> QED BY <2>1, InitInv DEF CycleInv
  <1>2. CycleInv /\ [Next]_vars /\ [~QueueForked]_vars => CycleInv'
    BY NextCycle
  <1>3. CycleInv => NoWaitCycle
    BY DEF CycleInv
  <1> QED BY <1>1, <1>2, <1>3, PTL DEF Spec

-----------------------------------------------------------------------------
(***************************************************************************)
(* Signals and notifications are not lost, and nobody wakes up without a   *)
(* cause.  The invariants here rest on IPCInv.                             *)
(***************************************************************************)

(* What keeps PM told of a signal: nothing but PM's own calls takes the    *)
(* notification back or overwrites the message that announces it.          *)
ToldKept ==
    /\ SYSTEM \in s_notify_pending[PM] => SYSTEM \in s_notify_pending'[PM]
    /\ "SIGKSIG" \in s_sig_pending[PM] => "SIGKSIG" \in s_sig_pending'[PM]
    /\ "DELIVERMSG" \in misc[PM] => "DELIVERMSG" \in misc'[PM] /\ inmsg'[PM] = inmsg[PM]
    /\ UNCHANGED ksig

LEMMA ToldKeptTells == ASSUME ToldKept, PMTold PROVE PMTold'
  BY DEF ToldKept, PMTold

(* A step that leaves the signals of all processes alone. *)
SignalsAlone ==
    /\ \A p \in Proc :
          /\ "SIGNALED" \in rts'[p] <=> "SIGNALED" \in rts[p]
          /\ "SIG_PENDING" \in rts'[p] <=> "SIG_PENDING" \in rts[p]
          /\ "SLOT_FREE" \in rts'[p] <=> "SLOT_FREE" \in rts[p]
          /\ "NO_ENDPOINT" \in rts'[p] /\ p \in Kernel => "NO_ENDPOINT" \in rts[p]
          /\ "SIG_DELAY" \in misc'[p] /\ p \in Kernel => "SIG_DELAY" \in misc[p]
    /\ PMTold => PMTold'
    /\ UNCHANGED <<gen, p_pending, ksig, ksig_e>>

(* Such a step preserves SignalInv. *)
LEMMA SignalsAloneInv ==
    ASSUME IPCInv, IPCInv', SignalInv, SignalsAlone
    PROVE  SignalInv'
  <1>1. /\ \A p \in Proc : isemptyp(p) <=> "SLOT_FREE" \in rts[p]
        /\ \A p \in Proc : isemptyp(p)' <=> "SLOT_FREE" \in rts'[p]
    BY DEF IPCInv, FlagsSound, isemptyp
  <1>2. \A p \in Proc : isemptyp(p)' <=> isemptyp(p)
    BY <1>1 DEF SignalsAlone
  <1>3. TasksSafe'
    BY Basics DEF SignalsAlone, SignalInv, TasksSafe, Alive
  <1>4. SignalNotLost'
    BY <1>2 DEF SignalsAlone, SignalInv, SignalNotLost
  <1>5. EndksigSucceeds'
    <2>1. SUFFICES ASSUME ksig = "handle"
                   PROVE  isokendpt(ksig_e)' /\ "SIG_PENDING" \in rts'[ksig_e[2]]
      BY DEF SignalsAlone, EndksigSucceeds
    <2>2. isokendpt(ksig_e) /\ "SIG_PENDING" \in rts[ksig_e[2]]
      BY <2>1 DEF SignalInv, EndksigSucceeds
    <2> QED BY <1>2, <2>2 DEF SignalsAlone, isokendpt, Endpoint
  <1> QED BY <1>3, <1>4, <1>5 DEF SignalInv

(* A step that sets and clears nothing but the flags of a call in progress, *)
(* and hands a message only to a process that has none.                     *)
CallStep ==
    /\ \A q \in Proc :
          /\ \A f \in RtsFlags \ {"SENDING", "RECEIVING"} : f \in rts'[q] <=> f \in rts[q]
          /\ "SIG_DELAY" \in misc'[q] <=> "SIG_DELAY" \in misc[q]
          /\ "DELIVERMSG" \in misc[q] => "DELIVERMSG" \in misc'[q] /\ inmsg'[q] = inmsg[q]
    /\ UNCHANGED <<gen, p_pending, ksig, ksig_e>>

LEMMA CallStepAlone ==
    ASSUME CallStep, PMTold => PMTold'
    PROVE  SignalsAlone
  BY DEF CallStep, SignalsAlone, RtsFlags

(* A call that leaves notifications alone also leaves PM told. *)
LEMMA CallStepTold ==
    ASSUME CallStep, UNCHANGED <<s_notify_pending, s_sig_pending>>
    PROVE  SignalsAlone
  <1>1. ToldKept
    BY Basics DEF CallStep, ToldKept
  <1> QED BY <1>1, ToldKeptTells, CallStepAlone

(* QueueMess and Enqueue, by what they do to flags and messages. *)
LEMMA SendStep ==
    ASSUME IPCInv, NEW p \in Proc, NEW e \in Endpoints, Send(p, e) \/ SendNB(p, e)
    PROVE  CallStep /\ UNCHANGED <<s_notify_pending, s_sig_pending, s_int_pending>>
  <1>1. UNCHANGED <<gen, p_pending, ksig, ksig_e, s_notify_pending, s_sig_pending, s_int_pending>>
    BY DEF Send, SendNB, ipcvars, sigvars, pmvars
  <1>2. e[2] \in Proc /\ TypeOK /\ OneMessage
    BY EndpointsParts DEF IPCInv
  <1>3. \/ WILLRECEIVE(rts, e[2], p) /\ QueueMess(p, e[2], rts, misc)
        \/ rts' = [rts EXCEPT ![p] = @ \cup {"SENDING"}] /\ UNCHANGED <<misc, inmsg>>
    BY DEF Send, SendNB, Enqueue
  <1>4. CASE WILLRECEIVE(rts, e[2], p) /\ QueueMess(p, e[2], rts, misc)
    BY <1>1, <1>2, <1>4 DEF QueueMess, WILLRECEIVE, TypeOK, OneMessage, CallStep
  <1>5. CASE rts' = [rts EXCEPT ![p] = @ \cup {"SENDING"}] /\ UNCHANGED <<misc, inmsg>>
    BY <1>1, <1>2, <1>5 DEF TypeOK, CallStep
  <1> QED BY <1>1, <1>3, <1>4, <1>5

(* SENDREC and a call that fails for want of an endpoint. *)
LEMMA SendRecStep ==
    ASSUME IPCInv, NEW p \in Proc, NEW e \in Endpoints,
           \/ SendRec(p, e)
           \/ \E call \in {"RECEIVE", "SENDREC"} : PeerDied(p, call, e)
    PROVE  CallStep /\ UNCHANGED <<s_notify_pending, s_sig_pending, s_int_pending>>
  <1>1. UNCHANGED <<gen, p_pending, ksig, ksig_e, s_notify_pending, s_sig_pending, s_int_pending>>
    BY DEF SendRec, PeerDied, ipcvars, sigvars, pmvars
  <1>2. e[2] \in Proc /\ TypeOK /\ OneMessage
    BY EndpointsParts DEF IPCInv
  <1>3. rts[p] = {} /\ "DELIVERMSG" \notin misc[p]
    BY DEF SendRec, PeerDied, sys_call, Running
  <1>4. CASE SendRec(p, e) /\ SendRecDelivers(p, e)
    <2>1. "RECEIVING" \in rts[e[2]] /\ "DELIVERMSG" \notin misc[e[2]] /\ e[2] # p
      BY <1>2, <1>3, <1>4 DEF SendRecDelivers, WILLRECEIVE, OneMessage
    <2>2. \A q \in Proc : q # p /\ q # e[2] => rts'[q] = rts[q] /\ misc'[q] = misc[q] /\ inmsg'[q] = inmsg[q]
      BY <1>2, <1>4 DEF SendRecDelivers, TypeOK, Block, NoAsync
    <2>3. \A q \in {p, e[2]} : 
          /\ \A f \in RtsFlags \ {"SENDING", "RECEIVING"} : f \in rts'[q] <=> f \in rts[q]
          /\ "SIG_DELAY" \in misc'[q] <=> "SIG_DELAY" \in misc[q]
      BY <1>2, <1>4, <2>1 DEF SendRecDelivers, TypeOK, Block, NoAsync
    <2> QED BY <1>1, <1>3, <2>1, <2>2, <2>3 DEF CallStep
  <1>5. CASE SendRec(p, e) /\ SendRecBlocks(p, e)
    BY <1>1, <1>2, <1>3, <1>5 DEF SendRecBlocks, Enqueue, TypeOK, CallStep
  <1>6. CASE \E call \in {"RECEIVE", "SENDREC"} : PeerDied(p, call, e)
    BY <1>1, <1>2, <1>3, <1>6 DEF PeerDied, TypeOK, CallStep
  <1> QED BY <1>1, <1>4, <1>5, <1>6 DEF SendRec

(* SENDA hands messages over and flags those that must look for one. *)
LEMMA SendAStep ==
    ASSUME IPCInv, NEW p \in Proc, NEW e \in Endpoints, NEW noreply \in BOOLEAN,
           NEW k \in 0 .. ASYN_NR, SendA(p, e, noreply, k)
    PROVE  CallStep /\ UNCHANGED <<s_notify_pending, s_sig_pending, s_int_pending>>
  <1> DEFINE table   == AsynTable(p, e, noreply, k)
             Served  == {q \in Proc : \E i \in DOMAIN table :
                                    table[i].dst[2] = q /\ Given(p, table, i)}
             Flagged == {q \in Proc : \E i \in DOMAIN table :
                                    table[i].dst[2] = q /\ Kept(p, table, i)}
  <1>1. UNCHANGED <<gen, p_pending, ksig, ksig_e, s_notify_pending, s_sig_pending, s_int_pending>>
    BY DEF SendA, ipcvars, sigvars, pmvars
  <1>2. /\ rts' = [q \in Proc |-> IF q \in Served THEN rts[q] \ {"RECEIVING"} ELSE rts[q]]
        /\ misc' = [q \in Proc |->
                       misc[q] \cup {f \in {"DELIVERMSG", "ASYNMSG"} :
                                       \/ f = "DELIVERMSG" /\ q \in Served
                                       \/ f = "ASYNMSG" /\ q \in Flagged}]
        /\ inmsg' = [q \in Proc |-> IF q \in Served THEN Message(p, "msg", {}) ELSE inmsg[q]]
    BY DEF SendA
  <1>3. \A q \in Served : "RECEIVING" \in rts[q] /\ "DELIVERMSG" \notin misc[q]
    BY DEF Given, Fits, WILLRECEIVE, IPCInv, OneMessage
  <1> HIDE DEF Served, Flagged
  <1>4. \A q \in Proc :
          /\ \A f \in RtsFlags \ {"SENDING", "RECEIVING"} : f \in rts'[q] <=> f \in rts[q]
          /\ "SIG_DELAY" \in misc'[q] <=> "SIG_DELAY" \in misc[q]
          /\ "DELIVERMSG" \in misc[q] => "DELIVERMSG" \in misc'[q] /\ inmsg'[q] = inmsg[q]
    BY <1>2, <1>3
  <1> QED BY <1>1, <1>4 DEF CallStep

(* A notification of another source than SYSTEM. *)
LEMMA NotifyStep ==
    ASSUME IPCInv, NEW source \in SysProc, source # SYSTEM, NEW target \in Proc, NEW ints,
           mini_notify(source, target, ints, s_sig_pending, rts, misc, inmsg, s_notify_pending),
           UNCHANGED <<gen, p_pending, ksig, ksig_e>>
    PROVE  CallStep /\ SignalsAlone
  <1>0. TypeOK /\ OneMessage BY DEF IPCInv
  <1>1. s_sig_pending' = s_sig_pending
    BY DEF mini_notify
  <1>2. CASE WILLRECEIVE(rts, target, source) /\ "REPLY_PEND" \notin misc[target]
    <2>1. "RECEIVING" \in rts[target] /\ "DELIVERMSG" \notin misc[target]
      BY <1>0, <1>2 DEF WILLRECEIVE, OneMessage
    <2>2. /\ rts' = [rts EXCEPT ![target] = @ \ {"RECEIVING"}]
          /\ misc' = [misc EXCEPT ![target] = @ \cup {"DELIVERMSG"}]
          /\ \A q \in Proc : q # target => inmsg'[q] = inmsg[q]
          /\ s_notify_pending' = s_notify_pending
      BY <1>0, <1>2 DEF mini_notify, TypeOK
    <2>3. CallStep
      BY <1>0, <2>1, <2>2 DEF CallStep, TypeOK
    <2> QED BY <1>1, <2>2, <2>3, CallStepTold
  <1>3. CASE ~(WILLRECEIVE(rts, target, source) /\ "REPLY_PEND" \notin misc[target])
    <2>1. /\ UNCHANGED <<rts, misc, inmsg>>
          /\ s_notify_pending' = [s_notify_pending EXCEPT ![priv(target)] = @ \cup {source}]
      BY <1>3 DEF mini_notify
    <2>2. CallStep
      BY <2>1 DEF CallStep
    <2>3. ToldKept
      BY <1>0, <1>1, <2>1, Basics DEF ToldKept, TypeOK
    <2> QED BY <2>2, <2>3, ToldKeptTells, CallStepAlone
  <1> QED BY <1>2, <1>3

(* NOTIFY, interrupts and alarms. *)
LEMMA NotifiesStep ==
    ASSUME IPCInv, NEW p \in Proc,
           External(p) \/ \E e \in Endpoints : Notify(p, e)
    PROVE  CallStep /\ SignalsAlone
  <1>1. UNCHANGED <<gen, p_pending, ksig, ksig_e>>
    BY DEF External, Alarm, Interrupt, Notify, ipcvars, pmvars
  <1>2. CASE External(p)
    <2>1. \E source \in {HARDWARE, CLOCK} : \E ints :
            mini_notify(source, p, ints, s_sig_pending, rts, misc, inmsg, s_notify_pending)
      BY <1>2 DEF External, Alarm, Interrupt
    <2>2. \A source \in {HARDWARE, CLOCK} : source \in SysProc /\ source # SYSTEM
      BY Basics DEF HARDWARE, CLOCK, SYSTEM
    <2> QED BY <1>1, <2>1, <2>2, NotifyStep
  <1>3. CASE \E e \in Endpoints : Notify(p, e)
    <2>1. PICK e \in Endpoints : Notify(p, e)
      BY <1>3
    <2>2. p # SYSTEM /\ e[2] \in Proc
      BY <2>1, EndpointsParts DEF Notify, sys_call, Running, Kernel
    <2>3. p \in SysProc
      <3>1. "NOTIFY" \in s_trap_mask[priv(p)]
        BY <2>1 DEF Notify, sys_call, Allowed
      <3> QED BY <3>1, PrivAssumption DEF priv
    <2>4. mini_notify(p, e[2], s_int_pending, s_sig_pending, rts, misc, inmsg, s_notify_pending)
      BY <2>1 DEF Notify
    <2> QED BY <1>1, <2>2, <2>3, <2>4, NotifyStep
  <1> QED BY <1>2, <1>3

(* RECEIVE that finds a notification or an asynchronous message, or blocks. *)
LEMMA ReceiveStep ==
    ASSUME IPCInv, NEW p \in Proc, NEW src, rts[p] = {}, "DELIVERMSG" \notin misc[p],
           UNCHANGED pmvars,
           LET m == [misc EXCEPT ![p] = @ \ {"REPLY_PEND"}]
           IN  \/ ReceiveNotification(p, src, m) \/ ReceiveAsync(p, src, m)
               \/ ReceiveBlocks(p, src, m)
    PROVE  CallStep /\ SignalsAlone
  <1> DEFINE m == [misc EXCEPT ![p] = @ \ {"REPLY_PEND"}]
  <1>0. TypeOK BY DEF IPCInv
  <1>1. UNCHANGED <<gen, p_pending, ksig, ksig_e>>
    BY DEF ReceiveNotification, ReceiveAsync, ReceiveBlocks, ipcvars, sigvars, pmvars
  <1>2. CASE ReceiveNotification(p, src, m)
    <2>1. PICK s \in Acceptable(p, src) :
        /\ misc' = [m EXCEPT ![p] = @ \cup {"DELIVERMSG"}]
        /\ inmsg' = [inmsg EXCEPT ![p] =
                        BuildNotifyMessage(s, priv(p), s_int_pending, s_sig_pending)]
        /\ s_notify_pending' = [s_notify_pending EXCEPT ![priv(p)] = @ \ {s}]
        /\ s_sig_pending' = IF s = SYSTEM
                            THEN [s_sig_pending EXCEPT ![priv(p)] = {}] ELSE s_sig_pending
        /\ UNCHANGED rts
      BY <1>2 DEF ReceiveNotification
    <2>2. CallStep
      BY <1>0, <1>1, <2>1 DEF CallStep, TypeOK
    <2>3. CASE p = PM /\ s = SYSTEM
      <3>1. "DELIVERMSG" \in misc'[PM] /\ inmsg'[PM].src[2] = SYSTEM
            /\ inmsg'[PM].arg = s_sig_pending[PM]
        BY <1>0, <2>1, <2>3, Basics DEF TypeOK, BuildNotifyMessage, Message, Endpoint, HARDWARE, SYSTEM
      <3>2. PMTold => PMTold'
        BY <1>1, <2>3, <3>1 DEF PMTold
      <3> QED BY <2>2, <3>2, CallStepAlone
    <2>4. CASE ~(p = PM /\ s = SYSTEM)
      <3>1. p # PM => priv(p) # PM
        BY ProcAssumption DEF priv
      <3>2. ToldKept
        BY <1>0, <1>1, <2>1, <2>2, <2>4, <3>1, Basics DEF ToldKept, TypeOK, CallStep
      <3> QED BY <2>2, <3>2, ToldKeptTells, CallStepAlone
    <2> QED BY <2>3, <2>4
  <1>3. CASE ReceiveAsync(p, src, m)
    <2>1. /\ misc' = [m EXCEPT ![p] = @ \cup {"DELIVERMSG"}]
          /\ \A q \in Proc : q # p => inmsg'[q] = inmsg[q]
          /\ UNCHANGED <<rts, s_notify_pending, s_sig_pending>>
      BY <1>0, <1>3 DEF ReceiveAsync, TakeAsync, TypeOK, sigvars
    <2>2. CallStep
      BY <1>0, <1>1, <2>1 DEF CallStep, TypeOK
    <2> QED BY <2>1, <2>2, CallStepTold
  <1>4. CASE ReceiveBlocks(p, src, m)
    <2>1. /\ misc' = m \/ misc' = [m EXCEPT ![p] = @ \ {"ASYNMSG"}]
          /\ rts' = [rts EXCEPT ![p] = @ \cup {"RECEIVING"}]
          /\ UNCHANGED <<inmsg, s_notify_pending, s_sig_pending>>
      BY <1>4 DEF ReceiveBlocks, NoAsync, Block, sigvars
    <2>2. CallStep
      BY <1>0, <1>1, <2>1 DEF CallStep, TypeOK
    <2> QED BY <2>1, <2>2, CallStepTold
  <1> QED BY <1>2, <1>3, <1>4

-----------------------------------------------------------------------------
(* What cause_sig finds: flags r, m, messages i and maps np that differ from *)
(* those of the state in nothing that signals depend on.                     *)
SignalsAsBefore(r, m, i, np) ==
    /\ r \in [Proc -> SUBSET RtsFlags] /\ m \in [Proc -> SUBSET MiscFlags]
    /\ np \in [Priv -> SUBSET SysProc] /\ i \in [Proc -> Messages]
    /\ \A q \in Proc :
          /\ \A f \in {"SIGNALED", "SIG_PENDING", "SLOT_FREE"} : f \in r[q] <=> f \in rts[q]
          /\ "NO_ENDPOINT" \in r[q] /\ q \in Kernel => "NO_ENDPOINT" \in rts[q]
          /\ "SIG_DELAY" \in m[q] => "SIG_DELAY" \in misc[q]
          /\ "DELIVERMSG" \in misc[q] => "DELIVERMSG" \in m[q] /\ i[q] = inmsg[q]
          /\ "DELIVERMSG" \in m[q] => "RECEIVING" \notin r[q]
    /\ SYSTEM \in s_notify_pending[PM] => SYSTEM \in np[PM]

(* cause_sig tells PM, or PM is told already. *)
LEMMA CauseSigTells ==
    ASSUME TypeOK, NEW x \in Proc, NEW sig, NEW r, NEW m, NEW i, NEW np,
           SignalsAsBefore(r, m, i, np), cause_sig(x, sig, r, m, i, np), UNCHANGED ksig
    PROVE  /\ PMTold => PMTold'
           /\ \A q \in Proc : \A f \in {"SLOT_FREE", "NO_ENDPOINT"} : f \in rts'[q] <=> f \in r[q]
           /\ \A q \in Proc : "SIG_DELAY" \in misc'[q] <=> "SIG_DELAY" \in m[q]
           /\ \/ /\ PMTold'
                 /\ \A q \in Proc : \A f \in {"SIGNALED", "SIG_PENDING"} :
                       f \in rts'[q] <=> (q = x \/ f \in r[q])
              \/ /\ sig \in p_pending[x] \/ "SIGNALED" \in r[x]
                 /\ \A q \in Proc : \A f \in {"SIGNALED", "SIG_PENDING"} :
                       f \in rts'[q] <=> f \in r[q]
  <1> DEFINE sp == [s_sig_pending EXCEPT ![PM] = @ \cup {"SIGKSIG"}]
             r1 == [r EXCEPT ![x] = @ \cup {"SIGNALED", "SIG_PENDING"}]
  <1>0. /\ r \in [Proc -> SUBSET RtsFlags] /\ m \in [Proc -> SUBSET MiscFlags]
        /\ np \in [Priv -> SUBSET SysProc] /\ i \in [Proc -> Messages]
        /\ s_sig_pending \in [Priv -> SUBSET Signals]
        /\ PM \in Priv /\ PM \in Proc /\ priv(PM) = PM
    BY Basics, ProcAssumption DEF SignalsAsBefore, TypeOK
  <1>1. CASE sig \notin p_pending[x] /\ "SIGNALED" \notin r[x]
    <2>1. mini_notify(SYSTEM, PM, s_int_pending, sp, r1, m, i, np)
      BY <1>1 DEF cause_sig
    <2>2. "SIGKSIG" \in sp[PM]
      BY <1>0
    <2>3. CASE WILLRECEIVE(r1, PM, SYSTEM) /\ "REPLY_PEND" \notin m[PM]
      <3>1. /\ rts' = [r1 EXCEPT ![PM] = @ \ {"RECEIVING"}]
            /\ misc' = [m EXCEPT ![PM] = @ \cup {"DELIVERMSG"}]
            /\ inmsg' = [i EXCEPT ![PM] = BuildNotifyMessage(SYSTEM, PM, s_int_pending, sp)]
        BY <1>0, <2>1, <2>3 DEF mini_notify
      <3>2. inmsg'[PM].src[2] = SYSTEM /\ inmsg'[PM].arg = sp[PM]
        BY <1>0, <3>1 DEF BuildNotifyMessage, Message, Endpoint, HARDWARE, SYSTEM
      <3>3. PMTold'
        BY <1>0, <2>2, <3>1, <3>2 DEF PMTold
      <3> QED BY <1>0, <3>1, <3>3
    <2>4. CASE ~(WILLRECEIVE(r1, PM, SYSTEM) /\ "REPLY_PEND" \notin m[PM])
      <3>1. /\ rts' = r1 /\ misc' = m /\ s_sig_pending' = sp
            /\ s_notify_pending' = [np EXCEPT ![PM] = @ \cup {SYSTEM}]
        BY <1>0, <2>1, <2>4 DEF mini_notify
      <3>2. PMTold'
        BY <1>0, <2>2, <3>1 DEF PMTold
      <3> QED BY <1>0, <3>1, <3>2
    <2> QED BY <2>3, <2>4
  <1>2. CASE ~(sig \notin p_pending[x] /\ "SIGNALED" \notin r[x])
    <2>1. /\ rts' = r /\ misc' = m /\ inmsg' = i /\ s_notify_pending' = np
          /\ s_sig_pending' = s_sig_pending
      BY <1>2 DEF cause_sig
    <2>2. ToldKept
      BY <1>0, <2>1 DEF ToldKept, SignalsAsBefore
    <2> QED BY <1>2, <2>1, <2>2, ToldKeptTells
  <1> QED BY <1>1, <1>2

(* A step whose effect on signals is that of cause_sig preserves SignalInv. *)
LEMMA CauseSigInv ==
    ASSUME IPCInv, IPCInv', SignalInv, NEW x \in Proc \ Kernel, NEW sig \in Signals,
           NEW r, NEW m, NEW i, NEW np,
           SignalsAsBefore(r, m, i, np), cause_sig(x, sig, r, m, i, np),
           "SLOT_FREE" \notin rts[x], UNCHANGED <<gen, ksig, ksig_e>>
    PROVE  SignalInv'
  <1>0. TypeOK BY DEF IPCInv
  <1>1. /\ PMTold => PMTold'
        /\ \A q \in Proc : \A f \in {"SLOT_FREE", "NO_ENDPOINT"} : f \in rts'[q] <=> f \in r[q]
        /\ \A q \in Proc : "SIG_DELAY" \in misc'[q] <=> "SIG_DELAY" \in m[q]
        /\ \/ /\ PMTold'
              /\ \A q \in Proc : \A f \in {"SIGNALED", "SIG_PENDING"} :
                    f \in rts'[q] <=> (q = x \/ f \in r[q])
           \/ /\ sig \in p_pending[x] \/ "SIGNALED" \in r[x]
              /\ \A q \in Proc : \A f \in {"SIGNALED", "SIG_PENDING"} :
                    f \in rts'[q] <=> f \in r[q]
    BY <1>0, CauseSigTells
  <1>2. \A q \in Proc : /\ \A f \in {"SIGNALED", "SIG_PENDING", "SLOT_FREE"} : f \in r[q] <=> f \in rts[q]
                        /\ "NO_ENDPOINT" \in r[q] /\ q \in Kernel => "NO_ENDPOINT" \in rts[q]
                        /\ "SIG_DELAY" \in m[q] => "SIG_DELAY" \in misc[q]
    BY DEF SignalsAsBefore
  <1>3. /\ \A p \in Proc : isemptyp(p) <=> "SLOT_FREE" \in rts[p]
        /\ \A p \in Proc : isemptyp(p)' <=> "SLOT_FREE" \in rts'[p]
    BY DEF IPCInv, FlagsSound, isemptyp
  <1>4. \A p \in Proc : isemptyp(p)' <=> isemptyp(p)
    BY <1>1, <1>2, <1>3
  <1>5. TasksSafe'
    BY <1>1, <1>2, Basics DEF SignalInv, TasksSafe, Alive
  <1>6. \A q \in Proc : p_pending'[q] = IF q = x THEN p_pending[x] \cup {sig} ELSE p_pending[q]
    BY <1>0 DEF cause_sig, TypeOK
  <1>7. "SIGNALED" \in rts'[x] /\ "SIG_PENDING" \in rts'[x]
    BY <1>1, <1>2, <1>3 DEF SignalInv, SignalNotLost
  <1>8. SignalNotLost'
    <2>1. ASSUME NEW q \in Proc PROVE "SIGNALED" \in rts'[q] => PMTold' /\ "SIG_PENDING" \in rts'[q]
      BY <1>1, <1>2, <1>7 DEF SignalInv, SignalNotLost
    <2>2. ASSUME NEW q \in Proc, ~isemptyp(q)'
          PROVE  p_pending'[q] # {} <=> "SIGNALED" \in rts'[q]
      <3>1. CASE q = x BY <1>6, <1>7, <3>1
      <3>2. CASE q # x
        <4>1. p_pending'[q] = p_pending[q] /\ ("SIGNALED" \in rts'[q] <=> "SIGNALED" \in rts[q])
          BY <1>1, <1>2, <1>6, <3>2
        <4> QED BY <1>4, <2>2, <4>1 DEF SignalInv, SignalNotLost
      <3> QED BY <3>1, <3>2
    <2> QED BY <2>1, <2>2 DEF SignalNotLost
  <1>9. EndksigSucceeds'
    <2>1. SUFFICES ASSUME ksig = "handle"
                   PROVE  isokendpt(ksig_e)' /\ "SIG_PENDING" \in rts'[ksig_e[2]]
      BY DEF EndksigSucceeds
    <2>2. isokendpt(ksig_e) /\ "SIG_PENDING" \in rts[ksig_e[2]] /\ ksig_e[2] \in Proc
      BY <2>1 DEF SignalInv, EndksigSucceeds, isokendpt
    <2>3. "SIG_PENDING" \in rts'[ksig_e[2]]
      BY <1>1, <1>2, <2>2
    <2> QED BY <1>4, <2>2, <2>3 DEF isokendpt, Endpoint
  <1> QED BY <1>5, <1>8, <1>9 DEF SignalInv

(* The flags as they are, and with those of the caller of a kernel call. *)
LEMMA KernelCallAsBefore ==
    ASSUME IPCInv, NEW p \in Proc, rts[p] = {}
    PROVE  /\ SignalsAsBefore(rts, misc, inmsg, s_notify_pending)
           /\ SignalsAsBefore(rts, KernelCall(p, misc), inmsg, s_notify_pending)
  <1>0. TypeOK /\ OneMessage BY DEF IPCInv
  <1>1. KernelCall(p, misc) \in [Proc -> SUBSET MiscFlags]
    BY <1>0, KernelCallType DEF TypeOK
  <1>2. \A q \in Proc : \A f \in {"SIG_DELAY", "DELIVERMSG"} :
           f \in KernelCall(p, misc)[q] <=> f \in misc[q]
    BY <1>0 DEF KernelCall, TypeOK
  <1> QED BY <1>0, <1>1, <1>2 DEF SignalsAsBefore, TypeOK, OneMessage

(* An exception and a signal that does not kill preserve SignalInv. *)
LEMMA TermSignals ==
    ASSUME IPCInv, IPCInv', SignalInv, NEW p \in Proc, NEW t \in Proc,
           Exception(p) \/ DoKill(p, t, "SIGTERM")
    PROVE  SignalInv'
  <1>1. UNCHANGED <<gen, ksig, ksig_e>> /\ rts[p] = {}
    BY DEF Exception, DoKill, Running, ipcvars, pmvars
  <1>2. CASE Exception(p)
    <2>1. p \in Proc \ Kernel /\ "SIGSEGV" \in Signals /\ "SLOT_FREE" \notin rts[p]
          /\ cause_sig(p, "SIGSEGV", rts, misc, inmsg, s_notify_pending)
      BY <1>1, <1>2, ProgramAssumption DEF Exception, Signals
    <2> QED BY <1>1, <2>1, KernelCallAsBefore, CauseSigInv
  <1>3. CASE DoKill(p, t, "SIGTERM")
    <2>1. t \in Proc \ Kernel /\ "SIGTERM" \in Signals
          /\ cause_sig(t, "SIGTERM", rts, KernelCall(p, misc), inmsg, s_notify_pending)
      BY <1>3, ProgramAssumption DEF DoKill, Signals
    <2>2. "SLOT_FREE" \notin rts[t]
      BY <1>3 DEF DoKill, isemptyp, IPCInv, FlagsSound
    <2> QED BY <1>1, <2>1, <2>2, KernelCallAsBefore, CauseSigInv
  <1> QED BY <1>2, <1>3

(* What clear_endpoint leaves of flags and notifications of signals. *)
LEMMA ClearAsBefore ==
    ASSUME IPCInv, NEW p \in Proc, rts[p] = {}, NEW t \in Proc \ Kernel
    PROVE  SignalsAsBefore(FlagsCleared(t), KernelCall(p, misc), inmsg, NotifiesCleared(t))
  <1>0. TypeOK BY DEF IPCInv
  <1>1. FlagsCleared(t) \in [Proc -> SUBSET RtsFlags]
        /\ NotifiesCleared(t) \in [Priv -> SUBSET SysProc]
    BY <1>0, ClearType
  <1>2. \A q \in Proc : /\ \A f \in RtsFlags \ {"SENDING", "RECEIVING", "NO_ENDPOINT"} :
                              f \in FlagsCleared(t)[q] <=> f \in rts[q]
                        /\ "NO_ENDPOINT" \in FlagsCleared(t)[q] /\ q # t => "NO_ENDPOINT" \in rts[q]
                        /\ "RECEIVING" \in FlagsCleared(t)[q] => "RECEIVING" \in rts[q]
    BY DEF FlagsCleared
  <1>3. SYSTEM \in s_notify_pending[PM] => SYSTEM \in NotifiesCleared(t)[PM]
    <2>1. priv(t) # SYSTEM
      BY ProcAssumption DEF priv, Kernel
    <2> QED BY <2>1, Basics DEF NotifiesCleared
  <1>4. SignalsAsBefore(rts, KernelCall(p, misc), inmsg, s_notify_pending)
    BY KernelCallAsBefore
  <1> QED BY <1>1, <1>2, <1>3, <1>4 DEF SignalsAsBefore, RtsFlags

(* SIGKILL, which takes the endpoint away, preserves SignalInv. *)
LEMMA KillSignals ==
    ASSUME IPCInv, IPCInv', SignalInv, NEW p \in Proc, NEW t \in Proc, DoKill(p, t, "SIGKILL")
    PROVE  SignalInv'
  <1>1. UNCHANGED <<gen, ksig, ksig_e>> /\ rts[p] = {}
    BY DEF DoKill, Running, pmvars
  <1>2. t \in Proc \ Kernel /\ "SIGKILL" \in Signals
        /\ cause_sig(t, "SIGKILL", FlagsCleared(t), KernelCall(p, misc), inmsg, NotifiesCleared(t))
    BY ProgramAssumption DEF DoKill, Signals
  <1>3. "SLOT_FREE" \notin rts[t]
    BY DEF DoKill, isemptyp, IPCInv, FlagsSound
  <1> QED BY <1>1, <1>2, <1>3, ClearAsBefore, CauseSigInv

(* RECEIVE that takes a sender off the queue, whose delayed stop is then    *)
(* reported, preserves SignalInv.                                           *)
LEMMA ReceiveQueuedSignals ==
    ASSUME IPCInv, IPCInv', SignalInv, NEW p \in Proc, NEW src, rts[p] = {},
           "DELIVERMSG" \notin misc[p], UNCHANGED pmvars,
           ReceiveQueued(p, src, [misc EXCEPT ![p] = @ \ {"REPLY_PEND"}])
    PROVE  SignalInv'
  <1> DEFINE m     == [misc EXCEPT ![p] = @ \ {"REPLY_PEND"}]
             x(i)  == callerq[p][i]
             r(i)  == [rts EXCEPT ![x(i)] = @ \ {"SENDING"}]
             m1    == [m EXCEPT ![p] = @ \cup {"DELIVERMSG"}]
             m2(i) == [m1 EXCEPT ![x(i)] = @ \ {"SIG_DELAY"}]
             i1(i) == [inmsg EXCEPT ![p] = Message(x(i), "msg", {})]
  <1>0. TypeOK /\ OneMessage BY DEF IPCInv
  <1>1. PICK i \in InQueue(p, src) :
         /\ IF "SIG_DELAY" \in misc[x(i)]
            THEN cause_sig(x(i), "SIGNDELAY", r(i), m2(i), i1(i), s_notify_pending)
            ELSE /\ rts' = r(i) /\ misc' = m1 /\ inmsg' = i1(i)
                 /\ UNCHANGED <<s_notify_pending, s_int_pending, sigvars>>
         /\ UNCHANGED gen
    BY DEF ReceiveQueued
  <1>2. i \in DOMAIN callerq[p] BY DEF InQueue
  <1>3. x(i) \in Proc /\ Member(x(i), callerq[p])
    BY <1>0, <1>2, CallersAreProcs
  <1>4. "SENDING" \in rts[x(i)] /\ "SLOT_FREE" \notin rts[x(i)]
    <2>1. Alive(p) BY DEF Alive
    <2>2. "SENDING" \in rts[x(i)]
      BY <1>3, <2>1, QueueSoundIs DEF IPCInv
    <2> QED BY <1>3, <2>2 DEF IPCInv, FlagsSound
  <1>5. x(i) # p BY <1>4
  <1>6. /\ r(i) \in [Proc -> SUBSET RtsFlags] /\ m1 \in [Proc -> SUBSET MiscFlags]
        /\ m2(i) \in [Proc -> SUBSET MiscFlags] /\ i1(i) \in [Proc -> Messages]
    <2>1. Message(x(i), "msg", {}) \in Messages
      BY <1>0, <1>3, MessageType
    <2> QED BY <1>0, <1>3, <2>1 DEF TypeOK, MiscFlags
  <1>7. ASSUME NEW q \in Proc
        PROVE  /\ \A f \in RtsFlags \ {"SENDING"} : f \in r(i)[q] <=> f \in rts[q]
               /\ "SIG_DELAY" \in m2(i)[q] => "SIG_DELAY" \in misc[q]
               /\ "SIG_DELAY" \in m1[q] <=> "SIG_DELAY" \in misc[q]
               /\ "DELIVERMSG" \in m2(i)[q] <=> "DELIVERMSG" \in m1[q]
               /\ "DELIVERMSG" \in misc[q] => "DELIVERMSG" \in m1[q] /\ i1(i)[q] = inmsg[q]
               /\ "DELIVERMSG" \in m1[q] => "RECEIVING" \notin r(i)[q]
    BY <1>0, <1>3, <1>5 DEF TypeOK, OneMessage
  <1>8. UNCHANGED <<gen, ksig, ksig_e>>
    BY <1>1 DEF pmvars
  <1> HIDE DEF r, m1, m2, i1
  <1>9. CASE "SIG_DELAY" \in misc[x(i)]
    <2>1. SignalsAsBefore(r(i), m2(i), i1(i), s_notify_pending)
      BY <1>0, <1>6, <1>7 DEF SignalsAsBefore, TypeOK, RtsFlags
    <2>2. x(i) \in Proc \ Kernel /\ "SIGNDELAY" \in Signals
      BY <1>3, <1>9 DEF SignalInv, TasksSafe, Signals
    <2>3. cause_sig(x(i), "SIGNDELAY", r(i), m2(i), i1(i), s_notify_pending)
      BY <1>1, <1>9
    <2> HIDE DEF x
    <2> QED BY <1>4, <1>8, <2>1, <2>2, <2>3, CauseSigInv
  <1>10. CASE "SIG_DELAY" \notin misc[x(i)]
    <2>1. /\ rts' = r(i) /\ misc' = m1 /\ inmsg' = i1(i)
          /\ UNCHANGED <<s_notify_pending, s_sig_pending, p_pending>>
      BY <1>1, <1>10 DEF sigvars
    <2>2. CallStep
      BY <1>7, <1>8, <2>1 DEF CallStep
    <2> QED BY <2>1, <2>2, CallStepTold, SignalsAloneInv
  <1> QED BY <1>9, <1>10

-----------------------------------------------------------------------------
(* delivermsg, by which PM learns of signals, preserves SignalInv. *)
LEMMA DeliverMsgSignals ==
    ASSUME IPCInv, IPCInv', SignalInv, NEW p \in Proc, DeliverMsg(p)
    PROVE  SignalInv'
  <1>0. TypeOK BY DEF IPCInv
  <1>1. /\ UNCHANGED <<rts, gen, p_pending, ksig_e, s_notify_pending, s_sig_pending>>
        /\ misc' = [misc EXCEPT ![p] = @ \ {"DELIVERMSG"}]
        /\ inmsg' = [inmsg EXCEPT ![p] = NoMessage]
        /\ ksig' = IF p = PM /\ inmsg[p].src[2] = SYSTEM /\ "SIGKSIG" \in inmsg[p].arg
                   THEN "get" ELSE ksig
    BY DEF DeliverMsg, ipcvars, sigvars
  <1>2. PMTold => PMTold'
    <2>1. CASE p = PM
      BY <1>0, <1>1, <2>1, Basics DEF PMTold, TypeOK
    <2>2. CASE p # PM
      BY <1>0, <1>1, <2>2, Basics DEF PMTold, TypeOK
    <2> QED BY <2>1, <2>2
  <1>3. TasksSafe'
    BY <1>0, <1>1, Basics DEF SignalInv, TasksSafe, Alive, TypeOK
  <1>4. SignalNotLost'
    BY <1>1, <1>2 DEF SignalInv, SignalNotLost, isemptyp
  <1>5. EndksigSucceeds'
    BY <1>1 DEF SignalInv, EndksigSucceeds, isokendpt, isemptyp, Endpoint
  <1> QED BY <1>3, <1>4, <1>5 DEF SignalInv

(* The exit of a process, which PM does not report while it handles a       *)
(* signal of that process, preserves SignalInv.                             *)
LEMMA ExitSignals ==
    ASSUME IPCInv, IPCInv', SignalInv, NEW c \in Proc, DoExit(c) \/ DoExitSelf(c)
    PROVE  SignalInv'
  <1>0. TypeOK BY DEF IPCInv
  <1>1. PICK p \in Proc : clear_proc(c) /\ rts[p] = {} /\ misc' = KernelCall(p, misc)
    BY Basics DEF DoExit, DoExitSelf, Running
  <1>2. c \in Proc \ Kernel /\ (ksig = "handle" => rts[c] = {})
    BY ProgramAssumption DEF DoExit, DoExitSelf, Running
  <1>3. /\ rts'[c] = {"SLOT_FREE"}
        /\ \A q \in Proc : q # c => rts'[q] = FlagsCleared(c)[q]
        /\ s_notify_pending' = NotifiesCleared(c)
        /\ UNCHANGED <<gen, inmsg, s_sig_pending, p_pending, ksig, ksig_e>>
    BY <1>0, <1>1, ClearType DEF clear_proc, sigvars, pmvars
  <1>4. SignalsAsBefore(FlagsCleared(c), misc', inmsg, s_notify_pending')
    BY <1>1, <1>2, <1>3, ClearAsBefore
  <1>5. PMTold => PMTold'
    BY <1>3, <1>4, Basics, ToldKeptTells DEF SignalsAsBefore, ToldKept
  <1>6. ASSUME NEW q \in Proc, q # c
        PROVE  /\ \A f \in {"SIGNALED", "SIG_PENDING", "SLOT_FREE"} : f \in rts'[q] <=> f \in rts[q]
               /\ isemptyp(q)' <=> isemptyp(q)
    BY <1>3, <1>4, <1>6 DEF SignalsAsBefore, isemptyp, IPCInv, FlagsSound
  <1>7. TasksSafe'
    BY <1>2, <1>3, <1>4, Basics DEF SignalInv, TasksSafe, Alive, SignalsAsBefore
  <1>8. SignalNotLost'
    <2>1. isemptyp(c)' /\ "SIGNALED" \notin rts'[c]
      BY <1>3 DEF isemptyp
    <2> QED BY <1>3, <1>5, <1>6, <2>1 DEF SignalInv, SignalNotLost
  <1>9. EndksigSucceeds'
    <2>1. SUFFICES ASSUME ksig = "handle"
                   PROVE  isokendpt(ksig_e)' /\ "SIG_PENDING" \in rts'[ksig_e[2]]
      BY <1>3 DEF EndksigSucceeds
    <2>2. isokendpt(ksig_e) /\ "SIG_PENDING" \in rts[ksig_e[2]] /\ ksig_e[2] \in Proc
      BY <2>1 DEF SignalInv, EndksigSucceeds, isokendpt
    <2>3. ksig_e[2] # c
      BY <1>2, <2>1, <2>2
    <2> QED BY <1>3, <1>6, <2>2, <2>3 DEF isokendpt, Endpoint
  <1> QED BY <1>7, <1>8, <1>9 DEF SignalInv

(* do_fork, whose child has no signals, preserves SignalInv. *)
LEMMA ForkSignals ==
    ASSUME IPCInv, IPCInv', SignalInv, NEW f \in Proc, NEW c \in Proc \ SysProc, DoFork(f, c)
    PROVE  SignalInv'
  <1>0. TypeOK BY DEF IPCInv
  <1>1. /\ isemptyp(c) /\ ksig = "idle" /\ PM # c /\ c \notin Kernel /\ rts[PM] = {}
        /\ UNCHANGED <<s_notify_pending, s_sig_pending, ksig, ksig_e>>
    BY Basics, ProcAssumption DEF DoFork, Running, pmvars
  <1>2. /\ \A q \in Proc : q # c => rts'[q] = rts[q]
        /\ \A q \in Proc : q # c => inmsg'[q] = inmsg[q]
        /\ \A q \in Proc : q # c => p_pending'[q] = p_pending[q]
        /\ \A q \in Proc : q # c => \A x \in {"DELIVERMSG", "SIG_DELAY"} :
                                      x \in misc'[q] <=> x \in misc[q]
        /\ "SIGNALED" \notin rts'[c] /\ p_pending'[c] = {}
    BY <1>0, <1>1, Basics DEF DoFork, KernelCall, TypeOK
  <1>3. ToldKept
    BY <1>1, <1>2, Basics DEF ToldKept
  <1>4. PMTold => PMTold'
    BY <1>3, ToldKeptTells
  <1>5. TasksSafe'
    BY <1>1, <1>2, Basics DEF SignalInv, TasksSafe, Alive
  <1>6. \A q \in Proc : q # c => (isemptyp(q)' <=> isemptyp(q))
    BY <1>2 DEF isemptyp
  <1>7. SignalNotLost'
    BY <1>2, <1>4, <1>6 DEF SignalInv, SignalNotLost
  <1>8. EndksigSucceeds'
    BY <1>1 DEF EndksigSucceeds
  <1> QED BY <1>5, <1>7, <1>8 DEF SignalInv

(* sys_privctl and sys_runctl leave signals alone. *)
LEMMA RunctlSignals ==
    ASSUME IPCInv, IPCInv', SignalInv, NEW t \in Proc,
           DoPrivctl(t) \/ DoResume(t) \/ \E delay \in BOOLEAN : DoStop(t, delay)
    PROVE  SignalInv'
  <1>0. TypeOK BY DEF IPCInv
  <1>1. UNCHANGED <<gen, inmsg, s_notify_pending, s_sig_pending, p_pending, ksig, ksig_e>>
    BY DEF DoPrivctl, DoResume, DoStop, ipcvars, sigvars, pmvars
  <1>2. \A q \in Proc : \A f \in RtsFlags \ {"NO_PRIV", "PROC_STOP"} : f \in rts'[q] <=> f \in rts[q]
    <2>1. \/ UNCHANGED rts
          \/ rts' = [rts EXCEPT ![t] = @ \ {"NO_PRIV"}]
          \/ rts' = [rts EXCEPT ![t] = @ \ {"PROC_STOP"}]
          \/ rts' = [rts EXCEPT ![t] = @ \cup {"PROC_STOP"}]
      BY DEF DoPrivctl, DoResume, DoStop
    <2>2. rts \in [Proc -> SUBSET RtsFlags] BY <1>0 DEF TypeOK
    <2>3. CASE rts' = [rts EXCEPT ![t] = @ \ {"NO_PRIV"}] BY <2>2, <2>3
    <2>4. CASE rts' = [rts EXCEPT ![t] = @ \ {"PROC_STOP"}] BY <2>2, <2>4
    <2>5. CASE rts' = [rts EXCEPT ![t] = @ \cup {"PROC_STOP"}] BY <2>2, <2>5
    <2> QED BY <2>1, <2>3, <2>4, <2>5
  <1>3. \A q \in Proc : /\ "DELIVERMSG" \in misc'[q] <=> "DELIVERMSG" \in misc[q]
                        /\ "SIG_DELAY" \in misc'[q] /\ q \in Kernel => "SIG_DELAY" \in misc[q]
    <2>1. \E k \in Proc : \/ misc' = KernelCall(k, misc)
                          \/ /\ misc' = KernelCall(k, [misc EXCEPT ![t] = @ \cup {"SIG_DELAY"}])
                             /\ t \notin Kernel
      BY Basics, ProgramAssumption DEF DoPrivctl, DoResume, DoStop
    <2>2. misc \in [Proc -> SUBSET MiscFlags] BY <1>0 DEF TypeOK
    <2>3. ASSUME NEW k \in Proc, misc' = KernelCall(k, misc)
          PROVE  \A q \in Proc : \A f \in {"DELIVERMSG", "SIG_DELAY"} : f \in misc'[q] <=> f \in misc[q]
      BY <2>2, <2>3 DEF KernelCall
    <2>4. ASSUME NEW k \in Proc, t \notin Kernel,
                 misc' = KernelCall(k, [misc EXCEPT ![t] = @ \cup {"SIG_DELAY"}])
          PROVE  /\ \A q \in Proc : "DELIVERMSG" \in misc'[q] <=> "DELIVERMSG" \in misc[q]
                 /\ \A q \in Proc : q # t => ("SIG_DELAY" \in misc'[q] <=> "SIG_DELAY" \in misc[q])
      BY <2>2, <2>4 DEF KernelCall
    <2> QED BY <2>1, <2>3, <2>4
  <1>4. ToldKept
    BY <1>1, <1>3, Basics DEF ToldKept
  <1>5. SignalsAlone
    BY <1>1, <1>2, <1>3, <1>4, ToldKeptTells DEF SignalsAlone, RtsFlags
  <1> QED BY <1>5, SignalsAloneInv

(* do_getksig, which ends PM's loop only when nobody is signalled. *)
LEMMA GetKsigSignals ==
    ASSUME IPCInv, IPCInv', SignalInv, DoGetKsig
    PROVE  SignalInv'
  <1> DEFINE Signaled == {p \in Proc \ Kernel : "SIGNALED" \in rts[p]}
  <1>0. TypeOK BY DEF IPCInv
  <1>1. /\ UNCHANGED <<gen, inmsg, s_notify_pending, s_sig_pending>>
        /\ misc' = KernelCall(PM, misc)
    BY DEF DoGetKsig, ipcvars
  <1>2. \A q \in Proc : "SIG_DELAY" \in misc'[q] <=> "SIG_DELAY" \in misc[q]
    BY <1>0, <1>1, Basics DEF KernelCall, TypeOK
  <1>3. CASE Signaled = {} /\ ksig' = "idle" /\ UNCHANGED <<rts, p_pending, ksig_e>>
    <2>1. \A q \in Proc : "SIGNALED" \notin rts[q]
      BY <1>3 DEF SignalInv, TasksSafe
    <2>2. TasksSafe'
      BY <1>2, <1>3, Basics DEF SignalInv, TasksSafe, Alive
    <2>3. SignalNotLost' /\ EndksigSucceeds'
      BY <1>3, <2>1 DEF SignalInv, SignalNotLost, EndksigSucceeds, isemptyp
    <2> QED BY <2>2, <2>3 DEF SignalInv
  <1>4. ASSUME NEW p \in Signaled, ksig' = "handle", ksig_e' = Endpoint(p),
               rts' = [rts EXCEPT ![p] = @ \ {"SIGNALED"}],
               p_pending' = [p_pending EXCEPT ![p] = {}]
        PROVE  SignalInv'
    <2>1. p \in Proc /\ "SIG_PENDING" \in rts[p] /\ "SLOT_FREE" \notin rts[p]
      BY DEF SignalInv, SignalNotLost, IPCInv, FlagsSound
    <2>2. /\ \A q \in Proc : \A f \in RtsFlags \ {"SIGNALED"} : f \in rts'[q] <=> f \in rts[q]
          /\ \A q \in Proc : "SIGNALED" \in rts'[q] <=> ("SIGNALED" \in rts[q] /\ q # p)
          /\ \A q \in Proc : p_pending'[q] = IF q = p THEN {} ELSE p_pending[q]
      BY <1>0, <1>4, <2>1 DEF TypeOK
    <2>3. \A q \in Proc : isemptyp(q)' => isemptyp(q)
      BY <2>2 DEF isemptyp, IPCInv, FlagsSound, RtsFlags
    <2>4. \A q \in Proc : isemptyp(q) => isemptyp(q)'
      BY <2>2 DEF isemptyp, IPCInv, FlagsSound, RtsFlags
    <2>5. TasksSafe'
      BY <1>2, <2>2, Basics DEF SignalInv, TasksSafe, Alive, RtsFlags
    <2>6. SignalNotLost'
      BY <1>4, <2>2, <2>3, <2>4 DEF SignalInv, SignalNotLost, PMTold, RtsFlags
    <2>7. EndksigSucceeds'
      <3>1. ksig_e'[2] = p /\ Endpoint(p)' = ksig_e' /\ ~isemptyp(p)'
        BY <1>1, <1>4, <2>1, <2>2, <2>3 DEF Endpoint, isemptyp
      <3>2. "SIG_PENDING" \in rts'[p]
        BY <2>1, <2>2 DEF RtsFlags
      <3> QED BY <2>1, <3>1, <3>2 DEF EndksigSucceeds, isokendpt
    <2> QED BY <2>5, <2>6, <2>7 DEF SignalInv
  <1> QED BY <1>3, <1>4 DEF DoGetKsig

(* do_endksig unblocks a process that has no new signal. *)
LEMMA EndKsigSignals ==
    ASSUME IPCInv, IPCInv', SignalInv, DoEndKsig
    PROVE  SignalInv'
  <1>0. TypeOK /\ ksig_e[2] \in Proc BY EndpointsParts DEF IPCInv, TypeOK
  <1>1. /\ UNCHANGED <<gen, inmsg, s_notify_pending, s_sig_pending, p_pending, ksig_e>>
        /\ misc' = KernelCall(PM, misc) \/ misc' = misc
        /\ ksig' = "get"
    BY DEF DoEndKsig, ipcvars, sigvars
  <1>2. \A q \in Proc : "SIG_DELAY" \in misc'[q] <=> "SIG_DELAY" \in misc[q]
    <2>1. \A q \in Proc : "SIG_DELAY" \in KernelCall(PM, misc)[q] <=> "SIG_DELAY" \in misc[q]
      BY <1>0, Basics DEF KernelCall, TypeOK
    <2> QED BY <1>1, <2>1
  <1>3. /\ \A q \in Proc : \A f \in RtsFlags \ {"SIG_PENDING"} : f \in rts'[q] <=> f \in rts[q]
        /\ \A q \in Proc : "SIGNALED" \in rts[q] => ("SIG_PENDING" \in rts'[q] <=> "SIG_PENDING" \in rts[q])
    <2>1. \/ UNCHANGED rts
          \/ /\ "SIGNALED" \notin rts[ksig_e[2]]
             /\ rts' = [rts EXCEPT ![ksig_e[2]] = @ \ {"SIG_PENDING"}]
          \/ rts' = [rts EXCEPT ![ksig_e[2]] = @]
      BY DEF DoEndKsig
    <2> QED BY <1>0, <2>1 DEF TypeOK
  <1>4. \A q \in Proc : isemptyp(q)' <=> isemptyp(q)
    <2>1. \A q \in Proc : "SLOT_FREE" \in rts'[q] <=> "SLOT_FREE" \in rts[q]
      BY <1>3 DEF RtsFlags
    <2> QED BY <2>1 DEF isemptyp, IPCInv, FlagsSound
  <1>5. TasksSafe'
    BY <1>2, <1>3, Basics DEF SignalInv, TasksSafe, Alive, RtsFlags
  <1>6. SignalNotLost'
    BY <1>1, <1>3, <1>4 DEF SignalInv, SignalNotLost, PMTold, RtsFlags
  <1>7. EndksigSucceeds'
    BY <1>1 DEF EndksigSucceeds
  <1> QED BY <1>5, <1>6, <1>7 DEF SignalInv

-----------------------------------------------------------------------------
(* RECEIVE preserves SignalInv. *)
LEMMA ReceiveSignals ==
    ASSUME IPCInv, IPCInv', SignalInv, NEW p \in Proc, NEW src, Receive(p, src)
    PROVE  SignalInv'
  <1> DEFINE m == [misc EXCEPT ![p] = @ \ {"REPLY_PEND"}]
  <1>1. rts[p] = {} /\ "DELIVERMSG" \notin misc[p] /\ UNCHANGED pmvars
    BY DEF Receive, sys_call, Running
  <1>2. \/ ReceiveNotification(p, src, m) \/ ReceiveAsync(p, src, m)
        \/ ReceiveBlocks(p, src, m) \/ ReceiveQueued(p, src, m)
    BY DEF Receive
  <1> QED BY <1>1, <1>2, ReceiveStep, ReceiveQueuedSignals, SignalsAloneInv

(* At boot nobody is signalled. *)
LEMMA InitSignals == Init => SignalInv
  <1> SUFFICES ASSUME Init PROVE SignalInv OBVIOUS
  <1>1. \A p \in Proc : rts[p] = IF p \in FreeAtBoot THEN {"SLOT_FREE"} ELSE {}
    BY DEF Init
  <1>2. TasksSafe
    BY <1>1, Basics, ProcAssumption DEF TasksSafe, Alive, Init
  <1>3. SignalNotLost
    BY <1>1 DEF Init, SignalNotLost
  <1>4. EndksigSucceeds
    BY DEF Init, EndksigSucceeds
  <1> QED BY <1>2, <1>3, <1>4 DEF SignalInv

(* Every step that copies no queue preserves SignalInv. *)
LEMMA NextSignals ==
    ASSUME IPCInv, SignalInv, [Next]_vars, [~QueueForked]_vars
    PROVE  SignalInv'
  <1>0. IPCInv' BY NextInv
  <1>1. CASE UNCHANGED vars
    <2>1. /\ UNCHANGED <<rts, misc, gen, inmsg, p_pending, ksig, ksig_e>>
          /\ UNCHANGED <<s_notify_pending, s_sig_pending>>
      BY <1>1 DEF vars, ipcvars, sigvars
    <2>2. CallStep
      BY <2>1 DEF CallStep
    <2> QED BY <1>0, <2>1, <2>2, CallStepTold, SignalsAloneInv
  <1>2. ASSUME NEW p \in Proc, Trap(p) PROVE SignalInv'
    <2>1. CASE \E src \in Peers[p] \cup {ANY} : Receive(p, src)
      BY <1>0, <2>1, ReceiveSignals
    <2>2. CASE \E e \in Peers[p] :
             \/ Send(p, e) \/ SendNB(p, e) \/ SendRec(p, e) \/ Notify(p, e)
             \/ \E call \in {"RECEIVE", "SENDREC"} : PeerDied(p, call, e)
             \/ \E noreply \in BOOLEAN, k \in 0 .. ASYN_NR : SendA(p, e, noreply, k)
      <3>1. PICK e \in Endpoints :
             \/ Send(p, e) \/ SendNB(p, e) \/ SendRec(p, e) \/ Notify(p, e)
             \/ \E call \in {"RECEIVE", "SENDREC"} : PeerDied(p, call, e)
             \/ \E noreply \in BOOLEAN, k \in 0 .. ASYN_NR : SendA(p, e, noreply, k)
        BY <2>2, PeersEndpoints
      <3>2. SignalsAlone
        BY <3>1, SendStep, SendRecStep, SendAStep, NotifiesStep, CallStepTold, Zenon
      <3> QED BY <1>0, <3>2, SignalsAloneInv
    <2> QED BY <1>2, <2>1, <2>2 DEF Trap
  <1>3. ASSUME NEW p \in Proc, External(p) PROVE SignalInv'
    BY <1>0, <1>3, NotifiesStep, SignalsAloneInv
  <1>4. ASSUME NEW p \in Proc, Signal(p) PROVE SignalInv'
    <2>1. KillTargets \subseteq Proc BY ProgramAssumption
    <2> QED BY <1>0, <1>4, <2>1, TermSignals, KillSignals DEF Signal
  <1>5. ASSUME NEW p \in Proc, Lifecycle(p) \/ Stop(p) PROVE SignalInv'
    BY <1>0, <1>5, ExitSignals, ForkSignals, RunctlSignals, Zenon DEF Lifecycle, Stop
  <1> QED BY <1>0, <1>1, <1>2, <1>3, <1>4, <1>5, DeliverMsgSignals, GetKsigSignals,
             EndKsigSignals, Zenon DEF Next

(* Signals are handled as cause_sig, do_getksig and do_endksig mean them. *)
LEMMA SignalInvariant == Spec /\ [][~QueueForked]_vars => []SignalInv
  <1>1. Init => SignalInv
    BY InitSignals
  <1>2. IPCInv /\ SignalInv /\ [Next]_vars /\ [~QueueForked]_vars => SignalInv'
    BY NextSignals
  <1> QED BY <1>1, <1>2, IPCInvariant, PTL DEF Spec

(* No signal is lost: as long as a process is SIGNALED it stays blocked and *)
(* PM is told, or in its loop, although cause_sig sends one notification    *)
(* for any number of signals, unless do_fork has copied a queue.            *)
THEOREM NoSignalLost == Spec /\ [][~QueueForked]_vars => []SignalNotLost
  <1>1. SignalInv => SignalNotLost
    BY DEF SignalInv
  <1> QED BY <1>1, SignalInvariant, PTL

(* The sys_endksig() of PM's loop never fails, whoever is killed or exits   *)
(* between sys_getksig() and it, unless do_fork has copied a queue.         *)
THEOREM EndksigNeverFails == Spec /\ [][~QueueForked]_vars => []EndksigSucceeds
  <1>1. SignalInv => EndksigSucceeds
    BY DEF SignalInv
  <1> QED BY <1>1, SignalInvariant, PTL

-----------------------------------------------------------------------------
(* Notifications.  NotifyMapInv, of flags r, notify maps np and interrupts. *)
Lives(r, p) == "SLOT_FREE" \notin r[p] /\ "NO_ENDPOINT" \notin r[p]

MapsHold(r, np, ints) ==
    /\ np[USER_PRIV] = {}
    /\ \A q \in Priv : ints[q] # {} => HARDWARE \in np[q]
    /\ \A p \in SysProc : Lives(r, p) => \A s \in np[p] : Lives(r, s)

LEMMA MapsHoldIs ==
    /\ NotifyMapInv <=> MapsHold(rts, s_notify_pending, s_int_pending)
    /\ NotifyMapInv' <=> MapsHold(rts', s_notify_pending', s_int_pending')
  <1>1. /\ SysProc \subseteq Proc /\ \A p \in SysProc : priv(p) = p
        /\ \A p \in Proc : p \notin SysProc => priv(p) = USER_PRIV
    BY Basics DEF priv
  <1> QED BY <1>1 DEF NotifyMapInv, NotificationsKept, InterruptNotLost, NoGhostNotification,
                      MapsHold, Lives, Alive

(* A step that leaves the maps alone, and the system processes alive. *)
LEMMA MapsAlone ==
    ASSUME NotifyMapInv, UNCHANGED <<s_notify_pending, s_int_pending>>, TypeOK,
           \A p \in SysProc : Lives(rts', p) <=> Lives(rts, p)
    PROVE  NotifyMapInv'
  BY MapsHoldIs, Basics DEF MapsHold, TypeOK

(* A notification of a living source, on top of maps that hold but for the *)
(* interrupt that is announced by it.                                      *)
LEMMA NotifyMaps ==
    ASSUME NEW source \in SysProc, NEW target \in SysProc, NEW ints \in [Priv -> SUBSET Interrupts],
           NEW sigs, NEW r \in [Proc -> SUBSET RtsFlags], NEW m, NEW i,
           NEW np \in [Priv -> SUBSET SysProc],
           mini_notify(source, target, ints, sigs, r, m, i, np),
           np[USER_PRIV] = {}, Lives(r, source),
           \A q \in Priv : ints[q] # {} =>
               HARDWARE \in np[q] \/ (source = HARDWARE /\ q = target),
           \A p \in SysProc : Lives(r, p) => \A s \in np[p] : Lives(r, s)
    PROVE  NotifyMapInv'
  <1>0. priv(target) = target /\ target \in Priv /\ target # USER_PRIV /\ SysProc \subseteq Proc
    BY Basics, ProcAssumption
  <1>1. CASE WILLRECEIVE(r, target, source) /\ "REPLY_PEND" \notin m[target]
    <2>1. /\ rts' = [r EXCEPT ![target] = @ \ {"RECEIVING"}]
          /\ s_notify_pending' = np
          /\ s_int_pending' = IF source = HARDWARE THEN [ints EXCEPT ![target] = {}] ELSE ints
      BY <1>0, <1>1 DEF mini_notify
    <2>2. \A p \in SysProc : Lives(rts', p) <=> Lives(r, p)
      BY <1>0, <2>1 DEF Lives
    <2>3. \A q \in Priv : s_int_pending'[q] # {} => HARDWARE \in np[q]
      BY <1>0, <2>1
    <2> QED BY <1>0, <2>1, <2>2, <2>3, MapsHoldIs, Basics DEF MapsHold
  <1>2. CASE ~(WILLRECEIVE(r, target, source) /\ "REPLY_PEND" \notin m[target])
    <2>1. /\ rts' = r /\ s_int_pending' = ints
          /\ s_notify_pending' = [np EXCEPT ![target] = @ \cup {source}]
      BY <1>0, <1>2 DEF mini_notify
    <2>2. /\ USER_PRIV \in Priv /\ SysProc \subseteq Priv
          /\ \A q \in Priv : s_notify_pending'[q] = IF q = target THEN np[q] \cup {source} ELSE np[q]
      BY <1>0, <2>1, Basics DEF Priv
    <2>3. \A p \in SysProc : Lives(r, p) => \A s \in s_notify_pending'[p] : Lives(r, s)
      BY <2>2
    <2>4. \A q \in Priv : ints[q] # {} => HARDWARE \in s_notify_pending'[q]
      BY <2>2
    <2>5. s_notify_pending'[USER_PRIV] = {}
      BY <1>0, <2>2
    <2>6. s_int_pending' = ints /\ \A p : Lives(rts', p) <=> Lives(r, p)
      BY <2>1 DEF Lives
    <2> QED BY <2>3, <2>4, <2>5, <2>6, MapsHoldIs DEF MapsHold
  <1> QED BY <1>1, <1>2

(* NOTIFY, interrupts and alarms keep the maps. *)
LEMMA NotifiesMaps ==
    ASSUME IPCInv, TasksSafe, NotifyMapInv, NEW p \in Proc,
           External(p) \/ \E e \in Endpoints : Notify(p, e)
    PROVE  NotifyMapInv'
  <1>0. TypeOK BY DEF IPCInv
  <1>1. MapsHold(rts, s_notify_pending, s_int_pending)
    BY MapsHoldIs
  <1>2. \A k \in Kernel : Lives(rts, k)
    BY DEF TasksSafe, Alive, Lives
  <1>3. CASE Alarm(p)
    <2>1. p \in SysProc /\ CLOCK \in SysProc /\ Lives(rts, CLOCK)
      BY <1>2, <1>3, ProgramAssumption, Basics DEF Alarm, Kernel
    <2> QED BY <1>0, <1>1, <1>3, <2>1, NotifyMaps DEF Alarm, TypeOK, MapsHold
  <1>4. ASSUME NEW irq \in Interrupts, Interrupt(p, irq) PROVE NotifyMapInv'
    <2> DEFINE ints == [s_int_pending EXCEPT ![p] = @ \cup {irq}]
    <2>1. p \in SysProc /\ HARDWARE \in SysProc /\ Lives(rts, HARDWARE)
      BY <1>2, <1>4, ProgramAssumption, Basics DEF Interrupt, Kernel
    <2>2. ints \in [Priv -> SUBSET Interrupts] /\ \A q \in Priv : q # p => ints[q] = s_int_pending[q]
      BY <1>0, <2>1, Basics DEF TypeOK
    <2>3. mini_notify(HARDWARE, p, ints, s_sig_pending, rts, misc, inmsg, s_notify_pending)
      BY <1>4 DEF Interrupt
    <2> HIDE DEF ints
    <2>4. \A q \in Priv : ints[q] # {} => HARDWARE \in s_notify_pending[q] \/ q = p
      BY <1>1, <2>2 DEF MapsHold
    <2>5. /\ s_notify_pending[USER_PRIV] = {}
          /\ \A q \in SysProc : Lives(rts, q) => \A s \in s_notify_pending[q] : Lives(rts, s)
      BY <1>1 DEF MapsHold
    <2>6. rts \in [Proc -> SUBSET RtsFlags] /\ s_notify_pending \in [Priv -> SUBSET SysProc]
      BY <1>0 DEF TypeOK
    <2> QED BY <2>1, <2>2, <2>3, <2>4, <2>5, <2>6, NotifyMaps
  <1>5. CASE \E e \in Endpoints : Notify(p, e)
    <2>1. PICK e \in Endpoints : Notify(p, e)
      BY <1>5
    <2>2. Lives(rts, p) /\ <<p, "NOTIFY", e[2]>> \in Programs
      <3>1. e # ANY BY AnyNoEndpoint
      <3> QED BY <2>1, <3>1 DEF Notify, sys_call, Running, Lives
    <2>3. e[2] \in SysProc
      BY <2>2, DisciplineAssumption
    <2>4. p \in SysProc
      <3>1. "NOTIFY" \in s_trap_mask[priv(p)]
        BY <2>1 DEF Notify, sys_call, Allowed
      <3> QED BY <3>1, PrivAssumption DEF priv
    <2>5. mini_notify(p, e[2], s_int_pending, s_sig_pending, rts, misc, inmsg, s_notify_pending)
      BY <2>1 DEF Notify
    <2> QED BY <1>0, <1>1, <2>2, <2>3, <2>4, <2>5, NotifyMaps DEF TypeOK, MapsHold
  <1> QED BY <1>3, <1>4, <1>5 DEF External

(* cause_sig keeps the maps, if they hold for what it finds. *)
LEMMA CauseSigMaps ==
    ASSUME TypeOK, NEW x \in Proc, NEW sig, NEW r \in [Proc -> SUBSET RtsFlags], NEW m, NEW i,
           NEW np \in [Priv -> SUBSET SysProc], cause_sig(x, sig, r, m, i, np),
           MapsHold(r, np, s_int_pending), Lives(r, SYSTEM)
    PROVE  NotifyMapInv'
  <1> DEFINE sp == [s_sig_pending EXCEPT ![PM] = @ \cup {"SIGKSIG"}]
             r1 == [r EXCEPT ![x] = @ \cup {"SIGNALED", "SIG_PENDING"}]
  <1>1. CASE sig \notin p_pending[x] /\ "SIGNALED" \notin r[x]
    <2>1. mini_notify(SYSTEM, PM, s_int_pending, sp, r1, m, i, np)
      BY <1>1 DEF cause_sig
    <2>2. r1 \in [Proc -> SUBSET RtsFlags] /\ \A p \in Proc : Lives(r1, p) <=> Lives(r, p)
      BY DEF RtsFlags, Lives
    <2>3. PM \in SysProc /\ SYSTEM \in SysProc /\ s_int_pending \in [Priv -> SUBSET Interrupts]
      BY Basics, ProcAssumption DEF TypeOK
    <2>4. \A p \in SysProc : Lives(r1, p) => \A s \in np[p] : Lives(r1, s)
      BY <2>2, Basics DEF MapsHold
    <2>5. /\ np[USER_PRIV] = {} /\ Lives(r1, SYSTEM)
          /\ \A q \in Priv : s_int_pending[q] # {} => HARDWARE \in np[q]
      BY <2>2, Basics DEF MapsHold
    <2> HIDE DEF sp, r1
    <2> QED BY <2>1, <2>2, <2>3, <2>4, <2>5, NotifyMaps
  <1>2. CASE ~(sig \notin p_pending[x] /\ "SIGNALED" \notin r[x])
    <2>1. /\ rts' = r /\ s_notify_pending' = np /\ s_int_pending' = s_int_pending
      BY <1>2 DEF cause_sig
    <2> QED BY <2>1, MapsHoldIs
  <1> QED BY <1>1, <1>2

(* A call that leaves the maps alone keeps them. *)
LEMMA CallStepMaps ==
    ASSUME IPCInv, NotifyMapInv, CallStep, UNCHANGED <<s_notify_pending, s_int_pending>>
    PROVE  NotifyMapInv'
  <1>1. \A p \in SysProc : Lives(rts', p) <=> Lives(rts, p)
    BY Basics DEF CallStep, Lives, RtsFlags
  <1> QED BY <1>1, MapsAlone DEF IPCInv

(* RECEIVE keeps the maps: it takes a bit together with what it announces. *)
LEMMA ReceiveMaps ==
    ASSUME IPCInv, TasksSafe, NotifyMapInv, NEW p \in Proc, NEW src, Receive(p, src)
    PROVE  NotifyMapInv'
  <1> DEFINE m == [misc EXCEPT ![p] = @ \ {"REPLY_PEND"}]
  <1>0. TypeOK BY DEF IPCInv
  <1>1. rts[p] = {} /\ "DELIVERMSG" \notin misc[p] /\ UNCHANGED pmvars
    BY DEF Receive, sys_call, Running
  <1>2. CASE ReceiveNotification(p, src, m)
    <2>1. PICK s \in Acceptable(p, src) :
        /\ s_notify_pending' = [s_notify_pending EXCEPT ![priv(p)] = @ \ {s}]
        /\ s_int_pending' = IF s = HARDWARE
                            THEN [s_int_pending EXCEPT ![priv(p)] = {}] ELSE s_int_pending
        /\ UNCHANGED rts
      BY <1>2 DEF ReceiveNotification
    <2>2. /\ \A q \in Priv : s_notify_pending'[q] \subseteq s_notify_pending[q]
          /\ \A q \in Priv : s_int_pending'[q] # {} /\ HARDWARE \in s_notify_pending[q]
                => s_int_pending[q] # {} /\ HARDWARE \in s_notify_pending'[q]
          /\ \A q \in Priv : s_int_pending'[q] # {} => s_int_pending[q] # {}
      BY <1>0, <2>1, Basics DEF TypeOK
    <2>3. USER_PRIV \in Priv /\ SysProc \subseteq Priv BY DEF Priv
    <2> QED BY <2>1, <2>2, <2>3, MapsHoldIs DEF MapsHold
  <1>3. CASE ReceiveAsync(p, src, m) \/ ReceiveBlocks(p, src, m)
    <2>1. CallStep
      BY <1>1, <1>3, ReceiveStep
    <2>2. UNCHANGED <<s_notify_pending, s_int_pending>>
      BY <1>3 DEF ReceiveAsync, ReceiveBlocks
    <2> QED BY <2>1, <2>2, CallStepMaps
  <1>4. ASSUME NEW i \in InQueue(p, src),
               LET x  == callerq[p][i]
                   r  == [rts EXCEPT ![x] = @ \ {"SENDING"}]
                   m1 == [m EXCEPT ![p] = @ \cup {"DELIVERMSG"}]
                   i1 == [inmsg EXCEPT ![p] = Message(x, "msg", {})]
               IN  IF "SIG_DELAY" \in misc[x]
                   THEN cause_sig(x, "SIGNDELAY", r, [m1 EXCEPT ![x] = @ \ {"SIG_DELAY"}],
                                  i1, s_notify_pending)
                   ELSE rts' = r /\ UNCHANGED <<s_notify_pending, s_int_pending>>
        PROVE  NotifyMapInv'
    <2> DEFINE x  == callerq[p][i]
               r  == [rts EXCEPT ![x] = @ \ {"SENDING"}]
               m1 == [m EXCEPT ![p] = @ \cup {"DELIVERMSG"}]
               m2 == [m1 EXCEPT ![x] = @ \ {"SIG_DELAY"}]
               i1 == [inmsg EXCEPT ![p] = Message(x, "msg", {})]
    <2>1. x \in Proc
      BY <1>0, CallersAreProcs DEF InQueue
    <2>2. r \in [Proc -> SUBSET RtsFlags] /\ \A q \in Proc : Lives(r, q) <=> Lives(rts, q)
      BY <1>0, <2>1 DEF TypeOK, Lives
    <2>3. Lives(r, SYSTEM)
      BY <2>2, Basics DEF TasksSafe, Alive, Lives, Kernel
    <2>4. MapsHold(r, s_notify_pending, s_int_pending)
      <3>1. /\ s_notify_pending[USER_PRIV] = {}
            /\ \A q \in Priv : s_int_pending[q] # {} => HARDWARE \in s_notify_pending[q]
            /\ \A q \in SysProc : Lives(rts, q) => \A s \in s_notify_pending[q] : Lives(rts, s)
        BY MapsHoldIs DEF MapsHold
      <3>2. \A q \in SysProc : q \in Proc /\ \A s \in s_notify_pending[q] : s \in Proc
        BY <1>0, Basics DEF TypeOK
      <3> HIDE DEF r
      <3> QED BY <2>2, <3>1, <3>2 DEF MapsHold
    <2>5. CASE "SIG_DELAY" \in misc[x]
      <3>1. cause_sig(x, "SIGNDELAY", r, m2, i1, s_notify_pending)
        BY <1>4, <2>5
      <3>2. s_notify_pending \in [Priv -> SUBSET SysProc]
        BY <1>0 DEF TypeOK
      <3> HIDE DEF x, r, m2, i1
      <3> QED BY <1>0, <2>1, <2>2, <2>3, <2>4, <3>1, <3>2, CauseSigMaps
    <2>6. CASE "SIG_DELAY" \notin misc[x]
      <3>1. rts' = r /\ UNCHANGED <<s_notify_pending, s_int_pending>>
        BY <1>4, <2>6
      <3>2. \A q \in SysProc : Lives(rts', q) <=> Lives(rts, q)
        BY <2>2, <3>1, Basics
      <3> QED BY <1>0, <3>1, <3>2, MapsAlone
    <2> QED BY <2>5, <2>6
  <1>5. CASE ReceiveQueued(p, src, m)
    BY <1>4, <1>5 DEF ReceiveQueued
  <1> QED BY <1>2, <1>3, <1>5 DEF Receive

(* clear_endpoint takes the bits of the dead process out of every map. *)
LEMMA ClearMaps ==
    ASSUME IPCInv, NotifyMapInv, NEW t \in Proc \ Kernel
    PROVE  MapsHold(FlagsCleared(t), NotifiesCleared(t), s_int_pending)
  <1>0. TypeOK /\ FlagsSound BY DEF IPCInv
  <1>1. /\ s_notify_pending[USER_PRIV] = {}
        /\ \A q \in Priv : s_int_pending[q] # {} => HARDWARE \in s_notify_pending[q]
        /\ \A q \in SysProc : Lives(rts, q) => \A s \in s_notify_pending[q] : Lives(rts, s)
    BY MapsHoldIs DEF MapsHold
  <1>2. \A q \in Proc : /\ q # t => (Lives(FlagsCleared(t), q) <=> Lives(rts, q))
                        /\ ~Lives(FlagsCleared(t), t)
    BY DEF FlagsCleared, Lives
  <1>3. /\ \A q \in Priv : NotifiesCleared(t)[q] \subseteq s_notify_pending[q]
        /\ \A q \in Priv : \A s \in s_notify_pending[q] : s # priv(t) => s \in NotifiesCleared(t)[q]
        /\ \A q \in SysProc : ~isemptyp(q) => priv(t) \notin NotifiesCleared(t)[q]
    BY Basics DEF NotifiesCleared
  <1>4. priv(t) # HARDWARE /\ USER_PRIV \in Priv /\ SysProc \subseteq Priv
    BY ProcAssumption DEF priv, Kernel, Priv
  <1>5. ASSUME NEW q \in SysProc, Lives(FlagsCleared(t), q), NEW s \in NotifiesCleared(t)[q]
        PROVE  Lives(FlagsCleared(t), s)
    <2>1. q \in Proc /\ q # t /\ Lives(rts, q) /\ ~isemptyp(q)
      BY <1>2, <1>5, Basics DEF Lives, isemptyp
    <2>2. s \in s_notify_pending[q] /\ s # priv(t) /\ s \in SysProc
      BY <1>0, <1>3, <1>4, <1>5, <2>1 DEF TypeOK
    <2>3. s # t /\ s \in Proc
      BY <2>2, Basics
    <2> QED BY <1>1, <1>2, <2>1, <2>2, <2>3
  <1>6. \A q \in Priv : s_int_pending[q] # {} => HARDWARE \in NotifiesCleared(t)[q]
    BY <1>1, <1>3, <1>4
  <1>7. NotifiesCleared(t)[USER_PRIV] = {}
    BY <1>1, <1>3, <1>4
  <1> QED BY <1>5, <1>6, <1>7 DEF MapsHold

(* Exceptions and sys_kill keep the maps. *)
LEMMA SignalMaps ==
    ASSUME IPCInv, TasksSafe, NotifyMapInv, NEW p \in Proc, Signal(p)
    PROVE  NotifyMapInv'
  <1>0. TypeOK /\ KillTargets \subseteq Proc \ Kernel BY ProgramAssumption DEF IPCInv
  <1>1. Lives(rts, SYSTEM) /\ SYSTEM \in Proc
    BY Basics DEF TasksSafe, Alive, Lives, Kernel
  <1>2. MapsHold(rts, s_notify_pending, s_int_pending)
    BY MapsHoldIs
  <1>3. rts \in [Proc -> SUBSET RtsFlags] /\ s_notify_pending \in [Priv -> SUBSET SysProc]
    BY <1>0 DEF TypeOK
  <1>4. CASE Exception(p)
    BY <1>0, <1>1, <1>2, <1>3, <1>4, CauseSigMaps DEF Exception
  <1>5. ASSUME NEW t \in KillTargets, DoKill(p, t, "SIGTERM") PROVE NotifyMapInv'
    <2>1. t \in Proc /\ cause_sig(t, "SIGTERM", rts, KernelCall(p, misc), inmsg, s_notify_pending)
      BY <1>0, <1>5 DEF DoKill
    <2> QED BY <1>0, <1>1, <1>2, <1>3, <2>1, CauseSigMaps
  <1>6. ASSUME NEW t \in KillTargets, DoKill(p, t, "SIGKILL") PROVE NotifyMapInv'
    <2>1. t \in Proc \ Kernel
          /\ cause_sig(t, "SIGKILL", FlagsCleared(t), KernelCall(p, misc), inmsg, NotifiesCleared(t))
      BY <1>0, <1>6 DEF DoKill
    <2>2. Lives(FlagsCleared(t), SYSTEM)
      BY <1>1, <2>1 DEF Lives, FlagsCleared, Kernel
    <2>3. FlagsCleared(t) \in [Proc -> SUBSET RtsFlags]
          /\ NotifiesCleared(t) \in [Priv -> SUBSET SysProc]
      BY <1>0, <2>1, ClearType
    <2>4. MapsHold(FlagsCleared(t), NotifiesCleared(t), s_int_pending)
      BY <2>1, ClearMaps
    <2> QED BY <1>0, <2>1, <2>2, <2>3, <2>4, CauseSigMaps
  <1> QED BY <1>4, <1>5, <1>6 DEF Signal

(* The exit of a process keeps the maps. *)
LEMMA ExitMaps ==
    ASSUME IPCInv, NotifyMapInv, NEW c \in Proc, DoExit(c) \/ DoExitSelf(c)
    PROVE  NotifyMapInv'
  <1>0. TypeOK BY DEF IPCInv
  <1>1. clear_proc(c) /\ c \in Proc \ Kernel
    BY ProgramAssumption DEF DoExit, DoExitSelf
  <1>2. /\ rts'[c] = {"SLOT_FREE"}
        /\ \A q \in Proc : q # c => rts'[q] = FlagsCleared(c)[q]
        /\ s_notify_pending' = NotifiesCleared(c)
        /\ UNCHANGED s_int_pending
    BY <1>0, <1>1, ClearType DEF clear_proc
  <1>3. /\ NotifiesCleared(c)[USER_PRIV] = {}
        /\ \A q \in Priv : s_int_pending[q] # {} => HARDWARE \in NotifiesCleared(c)[q]
        /\ \A q \in SysProc : Lives(FlagsCleared(c), q) =>
               \A s \in NotifiesCleared(c)[q] : Lives(FlagsCleared(c), s)
    BY <1>1, ClearMaps DEF MapsHold
  <1>4. \A q \in Proc : Lives(rts', q) <=> Lives(FlagsCleared(c), q)
    BY <1>2 DEF Lives, FlagsCleared
  <1>5. \A q \in SysProc : q \in Proc /\ \A s \in NotifiesCleared(c)[q] : s \in Proc
    <2>1. NotifiesCleared(c) \in [Priv -> SUBSET SysProc]
      BY <1>0, ClearType
    <2> QED BY <2>1, Basics
  <1> QED BY <1>2, <1>3, <1>4, <1>5, MapsHoldIs DEF MapsHold

(* Steps that leave notifications and the life of system processes alone. *)
LEMMA OtherMaps ==
    ASSUME IPCInv, NotifyMapInv, NEW p \in Proc,
           \/ DeliverMsg(p) \/ Stop(p) \/ DoPrivctl(p) \/ DoGetKsig \/ DoEndKsig
           \/ \E c \in Proc \ SysProc : DoFork(p, c)
    PROVE  NotifyMapInv'
  <1>0. TypeOK /\ rts \in [Proc -> SUBSET RtsFlags] BY DEF IPCInv, TypeOK
  <1>1. UNCHANGED <<s_notify_pending, s_int_pending>>
    BY DEF DeliverMsg, Stop, DoResume, DoStop, DoPrivctl, DoGetKsig, DoEndKsig, DoFork
  <1>2. \/ UNCHANGED rts
        \/ \E c \in Proc \ SysProc : \E F : rts' = [rts EXCEPT ![c] = F]
        \/ \E c \in Proc : \E f \in {"PROC_STOP", "NO_PRIV", "SIGNALED", "SIG_PENDING"} :
              \/ rts' = [rts EXCEPT ![c] = @ \ {f}]
              \/ rts' = [rts EXCEPT ![c] = @ \cup {f}]
    <2>1. CASE DeliverMsg(p) BY <2>1 DEF DeliverMsg
    <2>2. CASE DoResume(p) BY <2>2 DEF DoResume
    <2>3. CASE \E delay \in BOOLEAN : DoStop(p, delay)
      <3>1. UNCHANGED rts \/ rts' = [rts EXCEPT ![p] = @ \cup {"PROC_STOP"}]
        BY <2>3 DEF DoStop
      <3> QED BY <3>1
    <2>4. CASE DoPrivctl(p) BY <2>4 DEF DoPrivctl
    <2>5. CASE DoGetKsig BY <2>5 DEF DoGetKsig
    <2>6. CASE DoEndKsig
      <3>1. ksig_e[2] \in Proc BY EndpointsParts DEF IPCInv, TypeOK
      <3>2. \/ UNCHANGED rts
            \/ rts' = [rts EXCEPT ![ksig_e[2]] = @ \ {"SIG_PENDING"}]
        BY <1>0, <2>6 DEF DoEndKsig
      <3> QED BY <3>1, <3>2
    <2>7. CASE \E c \in Proc \ SysProc : DoFork(p, c)
      <3>1. PICK c \in Proc \ SysProc : DoFork(p, c) BY <2>7
      <3>2. rts' = [rts EXCEPT ![c] = (rts[p] \ {"SIGNALED", "SIG_PENDING"})
                                     \cup (IF p \in SysProc THEN {"NO_PRIV"} ELSE {})]
        BY <3>1 DEF DoFork
      <3> QED BY <3>2, Zenon
    <2> QED BY <2>1, <2>2, <2>3, <2>4, <2>5, <2>6, <2>7 DEF Stop
  <1>3. \A q \in SysProc : Lives(rts', q) <=> Lives(rts, q)
    <2>1. ASSUME NEW c \in Proc, NEW f \in {"PROC_STOP", "NO_PRIV", "SIGNALED", "SIG_PENDING"},
                 \/ rts' = [rts EXCEPT ![c] = @ \ {f}]
                 \/ rts' = [rts EXCEPT ![c] = @ \cup {f}]
          PROVE  \A q \in Proc : \A g \in {"SLOT_FREE", "NO_ENDPOINT"} : g \in rts'[q] <=> g \in rts[q]
      <3>1. CASE rts' = [rts EXCEPT ![c] = @ \ {f}] BY <1>0, <3>1
      <3>2. CASE rts' = [rts EXCEPT ![c] = @ \cup {f}] BY <1>0, <3>2
      <3> QED BY <2>1, <3>1, <3>2
    <2>2. ASSUME NEW c \in Proc \ SysProc, NEW F, rts' = [rts EXCEPT ![c] = F]
          PROVE  \A q \in SysProc : rts'[q] = rts[q]
      BY <1>0, <2>2, Basics
    <2>3. UNCHANGED rts => \A q \in SysProc : rts'[q] = rts[q]
      OBVIOUS
    <2> QED BY <1>2, <2>1, <2>2, <2>3, Basics DEF Lives
  <1> QED BY <1>0, <1>1, <1>3, MapsAlone

(* Every step preserves NotifyMapInv. *)
LEMMA NextMaps ==
    ASSUME IPCInv, TasksSafe, NotifyMapInv, [Next]_vars
    PROVE  NotifyMapInv'
  <1>1. CASE UNCHANGED vars
    <2>1. UNCHANGED <<rts, s_notify_pending, s_int_pending>>
      BY <1>1 DEF vars
    <2> QED BY <2>1, MapsAlone DEF Lives, IPCInv
  <1>2. ASSUME NEW p \in Proc, Trap(p) PROVE NotifyMapInv'
    <2>1. CASE \E src \in Peers[p] \cup {ANY} : Receive(p, src)
      BY <2>1, ReceiveMaps
    <2>2. CASE \E e \in Peers[p] :
             \/ Send(p, e) \/ SendNB(p, e) \/ SendRec(p, e) \/ Notify(p, e)
             \/ \E call \in {"RECEIVE", "SENDREC"} : PeerDied(p, call, e)
             \/ \E noreply \in BOOLEAN, k \in 0 .. ASYN_NR : SendA(p, e, noreply, k)
      <3>1. PICK e \in Endpoints :
             \/ Send(p, e) \/ SendNB(p, e) \/ SendRec(p, e) \/ Notify(p, e)
             \/ \E call \in {"RECEIVE", "SENDREC"} : PeerDied(p, call, e)
             \/ \E noreply \in BOOLEAN, k \in 0 .. ASYN_NR : SendA(p, e, noreply, k)
        BY <2>2, PeersEndpoints
      <3> QED BY <3>1, SendStep, SendRecStep, SendAStep, NotifiesMaps, CallStepMaps, Zenon
    <2> QED BY <1>2, <2>1, <2>2 DEF Trap
  <1>3. ASSUME NEW p \in Proc, Lifecycle(p) PROVE NotifyMapInv'
    BY <1>3, ExitMaps, OtherMaps, Zenon DEF Lifecycle
  <1> QED BY <1>1, <1>2, <1>3, SignalMaps, NotifiesMaps, OtherMaps, Basics, Zenon DEF Next

(* Notify maps say what happened: no interrupt is forgotten, and no bit of  *)
(* a process that is gone is left in the map of a living one, whatever      *)
(* notifications, deaths, forks and scans come in between, if nobody        *)
(* notifies a user process and do_fork copies no queue.                     *)
THEOREM NoNotificationLost == Spec /\ [][~QueueForked]_vars => []NotificationsKept
  <1>1. Init => NotifyMapInv
    <2>1. Init => MapsHold(rts, s_notify_pending, s_int_pending)
      BY Basics DEF Init, MapsHold, Priv
    <2> QED BY <2>1, MapsHoldIs
  <1>2. IPCInv /\ SignalInv /\ NotifyMapInv /\ [Next]_vars => NotifyMapInv'
    BY NextMaps DEF SignalInv
  <1>3. NotifyMapInv => NotificationsKept
    BY DEF NotifyMapInv
  <1> QED BY <1>1, <1>2, <1>3, IPCInvariant, SignalInvariant, PTL DEF Spec
-----------------------------------------------------------------------------
(* Nobody wakes up without a cause. *)

(* A step that ends no call of q. *)
StaysIn(q) == \A f \in {"SENDING", "RECEIVING"} : f \in rts[q] => f \in rts'[q]

LEMMA StaysInWakes == ASSUME NEW q, StaysIn(q) PROVE WakeUp(q)
  BY DEF StaysIn, WakeUp

(* What a notification does to processes with flags r, m and messages i: it *)
(* ends no SENDING, and a RECEIVING only with a message that was asked for  *)
(* where no reply is awaited; messages handed over before stay.             *)
NotifyWakes(r, m, i) ==
    \A q \in Proc :
        /\ "SENDING" \in r[q] => "SENDING" \in rts'[q]
        /\ "RECEIVING" \in r[q] /\ "RECEIVING" \notin rts'[q] =>
              /\ "DELIVERMSG" \in misc'[q]
              /\ getfrom[q] \in {ANY, inmsg'[q].src}
              /\ "REPLY_PEND" \notin m[q]
        /\ "DELIVERMSG" \in m[q] /\ "RECEIVING" \notin r[q] =>
              "DELIVERMSG" \in misc'[q] /\ inmsg'[q] = i[q]

LEMMA MiniNotifyWakesOne ==
    ASSUME NEW source, NEW target \in Proc, NEW ints, NEW sigs, NEW np,
           NEW r \in [Proc -> SUBSET RtsFlags], NEW m \in [Proc -> SUBSET MiscFlags],
           NEW i \in [Proc -> Messages],
           mini_notify(source, target, ints, sigs, r, m, i, np)
    PROVE  NotifyWakes(r, m, i)
  <1>1. CASE WILLRECEIVE(r, target, source) /\ "REPLY_PEND" \notin m[target]
    <2>1. /\ rts' = [r EXCEPT ![target] = @ \ {"RECEIVING"}]
          /\ misc' = [m EXCEPT ![target] = @ \cup {"DELIVERMSG"}]
          /\ inmsg' = [i EXCEPT ![target] =
                          BuildNotifyMessage(source, priv(target), ints, sigs)]
      BY <1>1 DEF mini_notify
    <2>2. inmsg'[target].src = Endpoint(source)
      BY <2>1 DEF BuildNotifyMessage, Message
    <2>3. "RECEIVING" \in r[target] /\ getfrom[target] \in {ANY, Endpoint(source)}
      BY <1>1 DEF WILLRECEIVE
    <2>4. \A q \in Proc : q # target => rts'[q] = r[q] /\ misc'[q] = m[q] /\ inmsg'[q] = i[q]
      BY <2>1
    <2>5. "SENDING" \in r[target] => "SENDING" \in rts'[target]
      BY <2>1
    <2>6. "DELIVERMSG" \in misc'[target]
      BY <2>1
    <2> QED BY <1>1, <2>2, <2>3, <2>4, <2>5, <2>6 DEF NotifyWakes
  <1>2. CASE ~(WILLRECEIVE(r, target, source) /\ "REPLY_PEND" \notin m[target])
    <2>1. rts' = r /\ misc' = m /\ inmsg' = i
      BY <1>2 DEF mini_notify
    <2> QED BY <2>1 DEF NotifyWakes
  <1> QED BY <1>1, <1>2

LEMMA CauseSigWakesOne ==
    ASSUME NEW x \in Proc, NEW sig, NEW np,
           NEW r \in [Proc -> SUBSET RtsFlags], NEW m \in [Proc -> SUBSET MiscFlags],
           NEW i \in [Proc -> Messages], cause_sig(x, sig, r, m, i, np)
    PROVE  NotifyWakes(r, m, i)
  <1> DEFINE r1 == [r EXCEPT ![x] = @ \cup {"SIGNALED", "SIG_PENDING"}]
  <1>1. CASE sig \notin p_pending[x] /\ "SIGNALED" \notin r[x]
    <2>1. mini_notify(SYSTEM, PM, s_int_pending,
               [s_sig_pending EXCEPT ![PM] = @ \cup {"SIGKSIG"}], r1, m, i, np)
      BY <1>1 DEF cause_sig
    <2>2. r1 \in [Proc -> SUBSET RtsFlags] /\ PM \in Proc
      BY Basics DEF RtsFlags
    <2>3. \A q \in Proc : \A f \in {"SENDING", "RECEIVING"} : f \in r1[q] <=> f \in r[q]
      OBVIOUS
    <2> HIDE DEF r1
    <2>4. NotifyWakes(r1, m, i)
      BY <2>1, <2>2, MiniNotifyWakesOne
    <2> QED BY <2>3, <2>4 DEF NotifyWakes
  <1>2. CASE ~(sig \notin p_pending[x] /\ "SIGNALED" \notin r[x])
    <2>1. rts' = r /\ misc' = m /\ inmsg' = i
      BY <1>2 DEF cause_sig
    <2> QED BY <2>1 DEF NotifyWakes
  <1> QED BY <1>1, <1>2

(* Where no call was ended before, a notification wakes with a cause. *)
LEMMA NotifyHasCause ==
    ASSUME TypeOK, NEW m, NotifyWakes(rts, m, inmsg),
           \A q \in Proc : "REPLY_PEND" \in misc[q] => "REPLY_PEND" \in m[q]
    PROVE  \A q \in Proc : WakeUp(q)
  BY DEF NotifyWakes, WakeUp

(* NOTIFY, interrupts, alarms, exceptions and signals that do not kill. *)
LEMMA NotifiesWake ==
    ASSUME TypeOK, NEW p \in Proc,
           \/ External(p) \/ \E e \in Endpoints : Notify(p, e)
           \/ Exception(p) \/ \E t \in KillTargets : DoKill(p, t, "SIGTERM")
    PROVE  \A q \in Proc : WakeUp(q)
  <1>0. /\ rts \in [Proc -> SUBSET RtsFlags] /\ misc \in [Proc -> SUBSET MiscFlags]
        /\ inmsg \in [Proc -> Messages] /\ KernelCall(p, misc) \in [Proc -> SUBSET MiscFlags]
    BY KernelCallType DEF TypeOK
  <1>1. CASE External(p) \/ \E e \in Endpoints : Notify(p, e)
    <2>1. ASSUME NEW source, NEW target \in Proc, NEW ints,
                 mini_notify(source, target, ints, s_sig_pending, rts, misc, inmsg, s_notify_pending)
          PROVE  \A q \in Proc : WakeUp(q)
      BY <1>0, <2>1, MiniNotifyWakesOne, NotifyHasCause
    <2>2. CASE Alarm(p) BY <2>1, <2>2 DEF Alarm
    <2>3. CASE \E irq \in Interrupts : Interrupt(p, irq)
      <3>1. PICK irq \in Interrupts : Interrupt(p, irq) BY <2>3
      <3>2. mini_notify(HARDWARE, p, [s_int_pending EXCEPT ![p] = @ \cup {irq}],
                   s_sig_pending, rts, misc, inmsg, s_notify_pending)
        BY <3>1 DEF Interrupt
      <3> QED BY <2>1, <3>2
    <2>4. CASE \E e \in Endpoints : Notify(p, e)
      <3>1. PICK e \in Endpoints : Notify(p, e) BY <2>4
      <3> QED BY <2>1, <3>1, EndpointsParts DEF Notify
    <2> QED BY <1>1, <2>2, <2>3, <2>4 DEF External
  <1>2. CASE Exception(p)
    <2>1. cause_sig(p, "SIGSEGV", rts, misc, inmsg, s_notify_pending)
      BY <1>2 DEF Exception
    <2> QED BY <1>0, <2>1, CauseSigWakesOne, NotifyHasCause
  <1>3. CASE \E t \in KillTargets : DoKill(p, t, "SIGTERM")
    <2>1. PICK t \in Proc : cause_sig(t, "SIGTERM", rts, KernelCall(p, misc), inmsg, s_notify_pending)
      BY <1>3, ProgramAssumption DEF DoKill
    <2>2. \A q \in Proc : "REPLY_PEND" \in misc[q] => "REPLY_PEND" \in KernelCall(p, misc)[q]
      BY <1>0 DEF KernelCall
    <2> QED BY <1>0, <2>1, <2>2, CauseSigWakesOne, NotifyHasCause
  <1> QED BY <1>1, <1>2, <1>3

(* SEND, SENDNB, SENDREC and SENDA wake whom they hand a message to. *)
LEMMA SendsWake ==
    ASSUME IPCInv, NEW p \in Proc, rts[p] = {}, NEW e \in Endpoints,
           \/ Send(p, e) \/ SendNB(p, e) \/ SendRec(p, e)
           \/ \E call \in {"RECEIVE", "SENDREC"} : PeerDied(p, call, e)
           \/ \E noreply \in BOOLEAN, k \in 0 .. ASYN_NR : SendA(p, e, noreply, k)
    PROVE  \A q \in Proc : WakeUp(q)
  <1>0. TypeOK /\ e[2] \in Proc BY EndpointsParts DEF IPCInv
  <1>1. ASSUME NEW d \in Proc, WILLRECEIVE(rts, d, p), "SENDING" \notin rts[d],
               "DELIVERMSG" \in misc'[d], inmsg'[d] = Message(p, "msg", {})
        PROVE  WakeUp(d)
    BY <1>1 DEF WakeUp, WILLRECEIVE, Message
  <1>2. CASE Send(p, e) \/ SendNB(p, e)
    <2>1. CASE WILLRECEIVE(rts, e[2], p) /\ QueueMess(p, e[2], rts, misc)
      <3>1. /\ "SENDING" \notin rts[e[2]] /\ "DELIVERMSG" \in misc'[e[2]]
            /\ inmsg'[e[2]] = Message(p, "msg", {})
        BY <1>0, <2>1 DEF QueueMess, WILLRECEIVE, TypeOK
      <3>2. WakeUp(e[2]) BY <1>0, <1>1, <2>1, <3>1
      <3>3. \A q \in Proc : q # e[2] => StaysIn(q)
        BY <1>0, <2>1 DEF QueueMess, StaysIn, TypeOK
      <3> QED BY <3>2, <3>3, StaysInWakes
    <2>2. CASE rts' = [rts EXCEPT ![p] = @ \cup {"SENDING"}]
      <3>1. \A q \in Proc : StaysIn(q) BY <1>0, <2>2 DEF StaysIn, TypeOK
      <3> QED BY <3>1, StaysInWakes
    <2> QED BY <1>2, <2>1, <2>2 DEF Send, SendNB, Enqueue
  <1>3. CASE SendRec(p, e) /\ SendRecDelivers(p, e)
    <2>1. WILLRECEIVE(rts, e[2], p) /\ e[2] # p /\ "SENDING" \notin rts[e[2]]
      BY <1>3 DEF SendRecDelivers, WILLRECEIVE
    <2>2. "DELIVERMSG" \in misc'[e[2]] /\ inmsg'[e[2]] = Message(p, "msg", {})
      BY <1>0, <1>3, <2>1 DEF SendRecDelivers, NoAsync, TypeOK
    <2>3. \A q \in Proc : q # e[2] => StaysIn(q)
      BY <1>0, <1>3, <2>1 DEF SendRecDelivers, Block, StaysIn, TypeOK
    <2>4. WakeUp(e[2]) BY <1>0, <1>1, <2>1, <2>2
    <2> QED BY <2>3, <2>4, StaysInWakes
  <1>4. CASE SendRec(p, e) /\ SendRecBlocks(p, e)
    <2>1. \A q \in Proc : StaysIn(q)
      BY <1>0, <1>4 DEF SendRecBlocks, Enqueue, StaysIn, TypeOK
    <2> QED BY <2>1, StaysInWakes
  <1>5. CASE \E call \in {"RECEIVE", "SENDREC"} : PeerDied(p, call, e)
    <2>1. \A q \in Proc : StaysIn(q) BY <1>5 DEF PeerDied, StaysIn
    <2> QED BY <2>1, StaysInWakes
  <1>6. ASSUME NEW noreply \in BOOLEAN, NEW k \in 0 .. ASYN_NR, SendA(p, e, noreply, k)
        PROVE  \A q \in Proc : WakeUp(q)
    <2> DEFINE table   == AsynTable(p, e, noreply, k)
               Served  == {q \in Proc : \E i \in DOMAIN table :
                                      table[i].dst[2] = q /\ Given(p, table, i)}
               Flagged == {q \in Proc : \E i \in DOMAIN table :
                                      table[i].dst[2] = q /\ Kept(p, table, i)}
    <2>1. /\ rts' = [q \in Proc |-> IF q \in Served THEN rts[q] \ {"RECEIVING"} ELSE rts[q]]
          /\ misc' = [q \in Proc |->
                         misc[q] \cup {f \in {"DELIVERMSG", "ASYNMSG"} :
                                         \/ f = "DELIVERMSG" /\ q \in Served
                                         \/ f = "ASYNMSG" /\ q \in Flagged}]
          /\ inmsg' = [q \in Proc |-> IF q \in Served THEN Message(p, "msg", {}) ELSE inmsg[q]]
      BY <1>6 DEF SendA
    <2>2. \A q \in Served : WILLRECEIVE(rts, q, p)
      BY DEF Given, Fits
    <2> HIDE DEF Served, Flagged
    <2>3. \A q \in Proc : q \notin Served => StaysIn(q)
      BY <2>1 DEF StaysIn
    <2>4. \A q \in Proc : q \in Served => "DELIVERMSG" \in misc'[q] /\ inmsg'[q] = Message(p, "msg", {})
      BY <2>1
    <2>5. \A q \in Proc : q \in Served => WakeUp(q)
      BY <1>1, <2>2, <2>4 DEF WILLRECEIVE
    <2> QED BY <2>3, <2>5, StaysInWakes
  <1> QED BY <1>2, <1>3, <1>4, <1>5, <1>6 DEF SendRec

(* RECEIVE ends no call but that of the sender it takes the message of. *)
LEMMA ReceiveWakes ==
    ASSUME IPCInv, NEW p \in Proc, NEW src, Receive(p, src)
    PROVE  \A q \in Proc : WakeUp(q)
  <1> DEFINE m == [misc EXCEPT ![p] = @ \ {"REPLY_PEND"}]
  <1>0. TypeOK /\ rts[p] = {}
    BY DEF IPCInv, Receive, sys_call, Running
  <1>1. CASE ReceiveNotification(p, src, m) \/ ReceiveAsync(p, src, m)
    <2>1. \A q \in Proc : StaysIn(q)
      BY <1>1 DEF ReceiveNotification, ReceiveAsync, StaysIn
    <2> QED BY <2>1, StaysInWakes
  <1>2. CASE ReceiveBlocks(p, src, m)
    <2>1. \A q \in Proc : StaysIn(q)
      BY <1>0, <1>2 DEF ReceiveBlocks, Block, StaysIn, TypeOK
    <2> QED BY <2>1, StaysInWakes
  <1>3. CASE ReceiveQueued(p, src, m)
    <2> DEFINE r(x)  == [rts EXCEPT ![x] = @ \ {"SENDING"}]
               m1    == [m EXCEPT ![p] = @ \cup {"DELIVERMSG"}]
               i1(x) == [inmsg EXCEPT ![p] = Message(x, "msg", {})]
               m2(x) == [m1 EXCEPT ![x] = @ \ {"SIG_DELAY"}]
    <2>1. PICK i \in DOMAIN callerq[p] :
             LET x == callerq[p][i]
             IN  \/ cause_sig(x, "SIGNDELAY", r(x), m2(x), i1(x), s_notify_pending)
                 \/ rts' = r(x) /\ misc' = m1 /\ inmsg' = i1(x)
      BY <1>3 DEF ReceiveQueued, InQueue
    <2> DEFINE x == callerq[p][i]
    <2>2. x \in Proc /\ "SENDING" \in rts[x] /\ sendto[x] = Endpoint(p) /\ x # p
      <3>1. x \in Proc BY <1>0, <2>1 DEF TypeOK
      <3>2. Alive(p) BY <1>0 DEF Alive
      <3> QED BY <1>0, <3>1, <3>2 DEF IPCInv, QueueSound
    <2> HIDE DEF x
    <2>3. sendto[x][2] = p BY <2>2 DEF Endpoint
    <2>4. /\ r(x) \in [Proc -> SUBSET RtsFlags] /\ m1 \in [Proc -> SUBSET MiscFlags]
          /\ m2(x) \in [Proc -> SUBSET MiscFlags] /\ i1(x) \in [Proc -> Messages]
      BY <1>0, <2>2, MessageType DEF TypeOK, MiscFlags
    <2>5. NotifyWakes(r(x), m2(x), i1(x)) \/ NotifyWakes(r(x), m1, i1(x))
      <3>1. CASE cause_sig(x, "SIGNDELAY", r(x), m2(x), i1(x), s_notify_pending)
        BY <2>2, <2>4, <3>1, CauseSigWakesOne
      <3>2. CASE rts' = r(x) /\ misc' = m1 /\ inmsg' = i1(x)
        BY <3>2 DEF NotifyWakes
      <3> QED BY <2>1, <3>1, <3>2 DEF x
    <2>6. /\ "DELIVERMSG" \in m1[p] /\ "DELIVERMSG" \in m2(x)[p]
          /\ i1(x)[p].src = Endpoint(x) /\ "RECEIVING" \notin r(x)[p]
          /\ \A q \in Proc : "RECEIVING" \in rts[q] <=> "RECEIVING" \in r(x)[q]
          /\ \A q \in Proc : q # x => ("SENDING" \in rts[q] <=> "SENDING" \in r(x)[q])
          /\ \A q \in Proc : q # p /\ "REPLY_PEND" \in misc[q] =>
                "REPLY_PEND" \in m1[q] /\ "REPLY_PEND" \in m2(x)[q]
      BY <1>0, <2>2 DEF TypeOK, Message
    <2> HIDE DEF r, m1, m2, i1
    <2>7. "DELIVERMSG" \in misc'[p] /\ inmsg'[p].src = Endpoint(x)
      BY <2>5, <2>6 DEF NotifyWakes
    <2>8. ASSUME NEW q \in Proc PROVE WakeUp(q)
      <3>1. ("SENDING" \in rts[q] /\ "SENDING" \notin rts'[q]) =>
              "DELIVERMSG" \in misc'[sendto[q][2]] /\ inmsg'[sendto[q][2]].src = Endpoint(q)
        BY <2>3, <2>5, <2>6, <2>7 DEF NotifyWakes
      <3>2. ("RECEIVING" \in rts[q] /\ "RECEIVING" \notin rts'[q]) =>
              /\ "DELIVERMSG" \in misc'[q] /\ getfrom[q] \in {ANY, inmsg'[q].src}
              /\ "REPLY_PEND" \notin misc[q]
        BY <1>0, <2>5, <2>6 DEF NotifyWakes
      <3> QED BY <3>1, <3>2 DEF WakeUp
    <2> QED BY <2>8
  <1> QED BY <1>1, <1>2, <1>3 DEF Receive
(* clear_endpoint releases whoever waits for the process with the error, and *)
(* the process is not alive any more.                                        *)
LEMMA ClearWakes ==
    ASSUME IPCInv, NEW c \in Proc, NEW q \in Proc, q # c, NEW f \in {"SENDING", "RECEIVING"},
           f \in rts[q], f \notin FlagsCleared(c)[q]
    PROVE  /\ ResultsCleared(c)[q] \in {"ESRCDIED", "EDSTDIED"}
           /\ f = "RECEIVING" => getfrom[q][2] = c
           /\ f = "SENDING" => sendto[q][2] = c /\ ResultsCleared(c)[q] = "EDSTDIED"
  <1>1. Abandons(q, c, f)
    BY DEF FlagsCleared
  <1> QED BY <1>1 DEF ResultsCleared, Abandons, Endpoint

(* sys_exit. *)
LEMMA ExitWakes ==
    ASSUME IPCInv, NEW c \in Proc, DoExit(c) \/ DoExitSelf(c)
    PROVE  \A q \in Proc : WakeUp(q)
  <1>0. TypeOK BY DEF IPCInv
  <1>1. /\ rts' = [FlagsCleared(c) EXCEPT ![c] = {"SLOT_FREE"}] /\ retreg' = ResultsCleared(c)
        /\ UNCHANGED <<getfrom, sendto>>
    BY DEF DoExit, DoExitSelf, clear_proc
  <1>2. /\ \A q \in Proc : q # c => rts'[q] = FlagsCleared(c)[q]
        /\ rts'[c] = {"SLOT_FREE"}
    BY <1>0, <1>1, ClearType
  <1>3. ~Alive(c)' BY <1>2 DEF Alive
  <1>4. ASSUME NEW q \in Proc PROVE WakeUp(q)
    <2>1. CASE q = c BY <1>3, <2>1 DEF WakeUp
    <2>2. CASE q # c
      <3>1. ("RECEIVING" \in rts[q] /\ "RECEIVING" \notin rts'[q]) =>
              retreg'[q] \in {"ESRCDIED", "EDSTDIED"} /\ getfrom[q][2] = c
        BY <1>1, <1>2, <2>2, ClearWakes
      <3>2. ("SENDING" \in rts[q] /\ "SENDING" \notin rts'[q]) =>
              retreg'[q] = "EDSTDIED" /\ sendto[q][2] = c
        BY <1>1, <1>2, <2>2, ClearWakes
      <3> QED BY <1>1, <1>3, <3>1, <3>2 DEF WakeUp, Alive
    <2> QED BY <2>1, <2>2
  <1> QED BY <1>4

(* SIGKILL takes the endpoint away and tells PM in the same step. *)
LEMMA KillWakes ==
    ASSUME IPCInv, NEW p \in Proc, NEW t \in KillTargets, DoKill(p, t, "SIGKILL")
    PROVE  \A q \in Proc : WakeUp(q)
  <1>0. TypeOK /\ t \in Proc BY ProgramAssumption DEF IPCInv
  <1>1. /\ cause_sig(t, "SIGKILL", FlagsCleared(t), KernelCall(p, misc), inmsg,
                     NotifiesCleared(t))
        /\ retreg' = ResultsCleared(t) /\ UNCHANGED <<getfrom, sendto>>
    BY DEF DoKill
  <1>2. NotifyWakes(FlagsCleared(t), KernelCall(p, misc), inmsg)
    <2>1. /\ FlagsCleared(t) \in [Proc -> SUBSET RtsFlags]
          /\ KernelCall(p, misc) \in [Proc -> SUBSET MiscFlags] /\ inmsg \in [Proc -> Messages]
      BY <1>0, ClearType, KernelCallType DEF TypeOK
    <2> QED BY <1>0, <1>1, <2>1, CauseSigWakesOne
  <1>3. ~Alive(t)'
    <2>1. "NO_ENDPOINT" \in FlagsCleared(t)[t] BY <1>0 DEF FlagsCleared
    <2>2. FlagsCleared(t) \in [Proc -> SUBSET RtsFlags] BY <1>0, ClearType
    <2>3. "NO_ENDPOINT" \in rts'[t]
      BY <1>0, <1>1, <2>1, <2>2, Basics DEF cause_sig, mini_notify
    <2> QED BY <2>3 DEF Alive
  <1>4. \A q \in Proc : "REPLY_PEND" \in misc[q] => "REPLY_PEND" \in KernelCall(p, misc)[q]
    BY <1>0 DEF KernelCall, TypeOK
  <1>5. ASSUME NEW q \in Proc PROVE WakeUp(q)
    <2>1. CASE q = t BY <1>3, <2>1 DEF WakeUp
    <2>2. CASE q # t
      <3>1. ("SENDING" \in rts[q] /\ "SENDING" \notin rts'[q]) =>
              retreg'[q] = "EDSTDIED" /\ sendto[q][2] = t
        <4>1. ("SENDING" \in rts[q] /\ "SENDING" \notin rts'[q]) =>
                "SENDING" \notin FlagsCleared(t)[q]
          BY <1>2 DEF NotifyWakes
        <4> QED BY <1>0, <1>1, <2>2, <4>1, ClearWakes
      <3>2. ("RECEIVING" \in rts[q] /\ "RECEIVING" \notin FlagsCleared(t)[q]) =>
              retreg'[q] \in {"ESRCDIED", "EDSTDIED"} /\ getfrom[q][2] = t
        BY <1>0, <1>1, <2>2, ClearWakes
      <3>3. ("RECEIVING" \in FlagsCleared(t)[q] /\ "RECEIVING" \notin rts'[q]) =>
              /\ "DELIVERMSG" \in misc'[q] /\ getfrom[q] \in {ANY, inmsg'[q].src}
              /\ "REPLY_PEND" \notin misc[q]
        BY <1>2, <1>4 DEF NotifyWakes
      <3> QED BY <1>1, <1>3, <3>1, <3>2, <3>3 DEF WakeUp, Alive
    <2> QED BY <2>1, <2>2
  <1> QED BY <1>5

(* Steps that end no call: a fork fills a slot that is in none. *)
LEMMA OtherWakes ==
    ASSUME IPCInv, NEW p \in Proc,
           \/ DeliverMsg(p) \/ Stop(p) \/ DoPrivctl(p) \/ DoGetKsig \/ DoEndKsig
           \/ \E c \in Proc \ SysProc : DoFork(p, c)
    PROVE  \A q \in Proc : WakeUp(q)
  <1>0. TypeOK BY DEF IPCInv
  <1>1. CASE DeliverMsg(p) BY <1>1, StaysInWakes DEF DeliverMsg, StaysIn
  <1>2. CASE DoResume(p)
    <2>1. \A q \in Proc : StaysIn(q) BY <1>0, <1>2 DEF DoResume, StaysIn, TypeOK
    <2> QED BY <2>1, StaysInWakes
  <1>3. CASE \E delay \in BOOLEAN : DoStop(p, delay)
    <2>1. UNCHANGED rts \/ rts' = [rts EXCEPT ![p] = @ \cup {"PROC_STOP"}]
      BY <1>3 DEF DoStop
    <2>2. \A q \in Proc : StaysIn(q) BY <1>0, <2>1 DEF StaysIn, TypeOK
    <2> QED BY <2>2, StaysInWakes
  <1>4. CASE DoPrivctl(p)
    <2>1. \A q \in Proc : StaysIn(q) BY <1>0, <1>4 DEF DoPrivctl, StaysIn, TypeOK
    <2> QED BY <2>1, StaysInWakes
  <1>5. CASE DoGetKsig
    <2>1. UNCHANGED rts \/ \E c \in Proc : rts' = [rts EXCEPT ![c] = @ \ {"SIGNALED"}]
      BY <1>5 DEF DoGetKsig
    <2>2. \A q \in Proc : StaysIn(q) BY <1>0, <2>1 DEF StaysIn, TypeOK
    <2> QED BY <2>2, StaysInWakes
  <1>6. CASE DoEndKsig
    <2>1. ksig_e[2] \in Proc BY <1>0, EndpointsParts DEF TypeOK
    <2>2. UNCHANGED rts \/ rts' = [rts EXCEPT ![ksig_e[2]] = @ \ {"SIG_PENDING"}]
      BY <1>0, <1>6 DEF DoEndKsig, TypeOK
    <2>3. ASSUME NEW c \in Proc, rts' = [rts EXCEPT ![c] = @ \ {"SIG_PENDING"}]
          PROVE  \A q \in Proc : StaysIn(q)
      BY <1>0, <2>3 DEF StaysIn, TypeOK
    <2>4. UNCHANGED rts => \A q \in Proc : StaysIn(q) BY DEF StaysIn
    <2> QED BY <2>1, <2>2, <2>3, <2>4, StaysInWakes
  <1>7. CASE \E c \in Proc \ SysProc : DoFork(p, c)
    <2>1. PICK c \in Proc \ SysProc : DoFork(p, c) BY <1>7
    <2>2. rts[c] = {"SLOT_FREE"} BY <2>1 DEF DoFork, isemptyp
    <2>3. \A q \in Proc : q # c => rts'[q] = rts[q] BY <1>0, <2>1 DEF DoFork, TypeOK
    <2>4. \A q \in Proc : StaysIn(q) BY <2>2, <2>3 DEF StaysIn
    <2> QED BY <2>4, StaysInWakes
  <1> QED BY <1>1, <1>2, <1>3, <1>4, <1>5, <1>6, <1>7 DEF Stop

(* Every step wakes up only with a cause. *)
LEMMA NextWakes ==
    ASSUME IPCInv, Next
    PROVE  \A q \in Proc : WakeUp(q)
  <1>0. TypeOK BY DEF IPCInv
  <1>1. ASSUME NEW p \in Proc, Trap(p) PROVE \A q \in Proc : WakeUp(q)
    <2>1. CASE \E src \in Peers[p] \cup {ANY} : Receive(p, src)
      BY <2>1, ReceiveWakes
    <2>2. CASE \E e \in Peers[p] :
             \/ Send(p, e) \/ SendNB(p, e) \/ SendRec(p, e) \/ Notify(p, e)
             \/ \E call \in {"RECEIVE", "SENDREC"} : PeerDied(p, call, e)
             \/ \E noreply \in BOOLEAN, k \in 0 .. ASYN_NR : SendA(p, e, noreply, k)
      <3>1. PICK e \in Endpoints :
             \/ Send(p, e) \/ SendNB(p, e) \/ SendRec(p, e) \/ Notify(p, e)
             \/ \E call \in {"RECEIVE", "SENDREC"} : PeerDied(p, call, e)
             \/ \E noreply \in BOOLEAN, k \in 0 .. ASYN_NR : SendA(p, e, noreply, k)
        BY <2>2, PeersEndpoints
      <3>2. rts[p] = {} BY <1>1 DEF Trap, Running
      <3> QED BY <1>0, <3>1, <3>2, SendsWake, NotifiesWake, Zenon
    <2> QED BY <1>1, <2>1, <2>2 DEF Trap
  <1>2. ASSUME NEW p \in Proc, Signal(p) PROVE \A q \in Proc : WakeUp(q)
    BY <1>0, <1>2, NotifiesWake, KillWakes DEF Signal
  <1>3. ASSUME NEW p \in Proc, Lifecycle(p) PROVE \A q \in Proc : WakeUp(q)
    BY <1>3, ExitWakes, OtherWakes, Zenon DEF Lifecycle
  <1> QED BY <1>0, <1>1, <1>2, <1>3, NotifiesWake, OtherWakes, Basics, Zenon DEF Next

(* A process blocked in a call only wakes up with the message it asked for, *)
(* never with a notification while it awaits a reply, or with the error     *)
(* that says its peer died: none of mini_send, mini_notify, mini_senda,     *)
(* mini_receive and clear_endpoint makes a process ready for nothing, as    *)
(* long as do_fork has copied no queue.                                     *)
THEOREM NoSpuriousWakeUp == Spec /\ [][~QueueForked]_vars => WakeHasCause
  <1>1. IPCInv /\ [Next]_vars => [\A p \in Proc : WakeUp(p)]_vars
    BY NextWakes
  <1> QED BY <1>1, IPCInvariant, PTL DEF Spec, WakeHasCause

-----------------------------------------------------------------------------
(***************************************************************************)
(* Asynchronous messages are not lost and no receiver misses one.          *)
(***************************************************************************)

(* Flags r, m as a step leaves them that makes nobody receive plainly, and  *)
(* takes the endpoints of the processes of D away.                          *)
LivesIn(r, q) == "SLOT_FREE" \notin r[q] /\ "NO_ENDPOINT" \notin r[q]

QuietTo(r, m, D) ==
    \A q \in Proc :
        /\ LivesIn(r, q) <=> Alive(q) /\ q \notin D
        /\ "ASYNMSG" \in misc[q] => "ASYNMSG" \in m[q]
        /\ "RECEIVING" \in r[q] /\ "REPLY_PEND" \notin m[q] =>
              /\ "RECEIVING" \in rts[q] /\ "REPLY_PEND" \notin misc[q]
              /\ "SENDING" \in r[q] => "SENDING" \in rts[q]

(* Entries of the tables are only finished. *)
EntriesFinish ==
    \A s \in SysProc :
        /\ DOMAIN asyn'[s] = DOMAIN asyn[s]
        /\ \A i \in DOMAIN asyn[s] : /\ asyn'[s][i].dst = asyn[s][i].dst
                                     /\ asyn[s][i].done => asyn'[s][i].done

(* Tables are dropped when they are finished or their process has died. *)
TablesKept(D) ==
    \A s \in SysProc :
        /\ asynsize'[s] => asynsize[s] /\ s \notin D
        /\ asynsize[s] /\ ~asynsize'[s] =>
              s \in D \/ \A i \in DOMAIN asyn[s] : asyn[s][i].done

(* A step that gives nobody an asynchronous message to look for. *)
AsyncQuiet(D) ==
    /\ QuietTo(rts', misc', D) /\ EntriesFinish /\ TablesKept(D) /\ gen' = gen
    /\ \A q \in Proc : "RECEIVING" \in rts'[q] /\ "REPLY_PEND" \notin misc'[q] =>
          getfrom'[q] = getfrom[q]

(* Who awaits no reply takes the first entry that is for it. *)
LEMMA PlainHasOne ==
    ASSUME TypeOK, NEW m, NEW s \in SysProc, NEW q \in Proc, "REPLY_PEND" \notin m[q],
           asynsize[s], <<s, q>> \in MaySend, NEW i \in DOMAIN asyn[s], PendingFor(s, q, i)
    PROVE  HasOne(s, q, m)
  <1> DEFINE I == {j \in DOMAIN asyn[s] : PendingFor(s, q, j)}
  <1>1. DOMAIN asyn[s] = 1 .. Len(asyn[s]) /\ Len(asyn[s]) \in Nat BY DEF TypeOK
  <1>2. PICK j \in I : \A y \in I : j <= y
    <2>1. I \subseteq Nat /\ I # {} BY <1>1
    <2> QED BY <2>1, LeastExists
  <1>3. \A k \in 1 .. j - 1 : ~PendingFor(s, q, k)
    BY <1>1, <1>2 DEF PendingFor
  <1>4. TryOne(s, q, m, j)
    BY <1>2, <1>3 DEF TryOne, Suits
  <1> QED BY <1>2, <1>4 DEF HasOne

(* What HasOne finds is there. *)
LEMMA HasOneNext ==
    ASSUME NEW s \in SysProc, NEW q \in Proc, HasOne(s, q, misc)'
    PROVE  asynsize'[s] /\ <<s, q>> \in MaySend /\ \E i \in DOMAIN asyn'[s] : PendingFor(s, q, i)'
  BY DEF HasOne, TryOne

(* A quiet step preserves AsyncInv. *)
LEMMA AsyncQuietInv ==
    ASSUME TypeOK, AsyncInv, NEW D, AsyncQuiet(D)
    PROVE  AsyncInv'
  <1>0. \A q \in Proc : Alive(q)' <=> Alive(q) /\ q \notin D
    BY DEF AsyncQuiet, QuietTo, LivesIn, Alive
  <1>1. \A s \in SysProc, d \in Proc : \A i \in DOMAIN asyn'[s] :
           PendingFor(s, d, i)' => i \in DOMAIN asyn[s] /\ PendingFor(s, d, i)
    BY DEF AsyncQuiet, EntriesFinish, PendingFor, Endpoint
  <1>2. AsyncNotLost'
    <2> SUFFICES ASSUME NEW s \in SysProc, NEW d \in Proc, NEW i \in DOMAIN asyn'[s],
                        Alive(s)', <<s, d>> \in MaySend, Alive(d)', PendingFor(s, d, i)'
                 PROVE  asynsize'[s] /\ "ASYNMSG" \in misc'[d]
      BY DEF AsyncNotLost
    <2>1. s \in Proc BY Basics
    <2>2. i \in DOMAIN asyn[s] /\ PendingFor(s, d, i) BY <1>1
    <2>3. asynsize[s] /\ "ASYNMSG" \in misc[d]
      BY <1>0, <2>1, <2>2 DEF AsyncInv, AsyncKept, AsyncNotLost
    <2>4. ~asyn[s][i].done BY <2>2 DEF PendingFor
    <2> QED BY <1>0, <2>1, <2>2, <2>3, <2>4 DEF AsyncQuiet, TablesKept, QuietTo
  <1>3. NoMissedAsync'
    <2> SUFFICES ASSUME NEW q \in Proc, "RECEIVING" \in rts'[q], "REPLY_PEND" \notin misc'[q],
                        NEW s \in SysProc, getfrom'[q] \in {ANY, Endpoint(s)'}, HasOne(s, q, misc)'
                 PROVE  FALSE
      BY DEF NoMissedAsync
    <2>1. "RECEIVING" \in rts[q] /\ "REPLY_PEND" \notin misc[q] /\ getfrom[q] \in {ANY, Endpoint(s)}
      BY DEF AsyncQuiet, QuietTo, Endpoint
    <2>2. asynsize[s] /\ <<s, q>> \in MaySend /\ \E i \in DOMAIN asyn[s] : PendingFor(s, q, i)
      BY <1>1, HasOneNext DEF AsyncQuiet, TablesKept
    <2>3. HasOne(s, q, misc) BY <2>1, <2>2, PlainHasOne
    <2> QED BY <2>1, <2>3 DEF AsyncInv, AsyncKept, NoMissedAsync
  <1>4. \A s \in SysProc : asynsize'[s] => Alive(s)'
    BY <1>0, Basics DEF AsyncInv, AsyncQuiet, TablesKept
  <1>5. \A p \in Proc : {"SENDING", "RECEIVING"} \subseteq rts'[p] => "REPLY_PEND" \in misc'[p]
    BY DEF AsyncInv, AsyncQuiet, QuietTo
  <1> QED BY <1>2, <1>3, <1>4, <1>5 DEF AsyncInv, AsyncKept

(* mini_notify and cause_sig are quiet. *)
LEMMA NotifyQuiet ==
    ASSUME NEW source, NEW target \in Proc, NEW ints, NEW sigs, NEW i, NEW np, NEW D,
           NEW r \in [Proc -> SUBSET RtsFlags], NEW m \in [Proc -> SUBSET MiscFlags],
           QuietTo(r, m, D), mini_notify(source, target, ints, sigs, r, m, i, np)
    PROVE  QuietTo(rts', misc', D)
  <1>1. \/ rts' = r /\ misc' = m
        \/ /\ rts' = [r EXCEPT ![target] = @ \ {"RECEIVING"}]
           /\ misc' = [m EXCEPT ![target] = @ \cup {"DELIVERMSG"}]
    BY DEF mini_notify
  <1>2. \A q \in Proc :
           /\ \A f \in {"SLOT_FREE", "NO_ENDPOINT", "SENDING"} : f \in rts'[q] <=> f \in r[q]
           /\ "RECEIVING" \in rts'[q] => "RECEIVING" \in r[q]
           /\ \A f \in {"ASYNMSG", "REPLY_PEND"} : f \in misc'[q] <=> f \in m[q]
    BY <1>1
  <1> QED BY <1>2 DEF QuietTo, LivesIn

LEMMA CauseSigQuiet ==
    ASSUME NEW x \in Proc, NEW sig, NEW i, NEW np, NEW D,
           NEW r \in [Proc -> SUBSET RtsFlags], NEW m \in [Proc -> SUBSET MiscFlags],
           QuietTo(r, m, D), cause_sig(x, sig, r, m, i, np)
    PROVE  QuietTo(rts', misc', D)
  <1> DEFINE r1 == [r EXCEPT ![x] = @ \cup {"SIGNALED", "SIG_PENDING"}]
  <1>1. CASE sig \notin p_pending[x] /\ "SIGNALED" \notin r[x]
    <2>1. mini_notify(SYSTEM, PM, s_int_pending,
               [s_sig_pending EXCEPT ![PM] = @ \cup {"SIGKSIG"}], r1, m, i, np)
      BY <1>1 DEF cause_sig
    <2>2. r1 \in [Proc -> SUBSET RtsFlags] /\ PM \in Proc BY Basics DEF RtsFlags
    <2>3. \A q \in Proc : \A f \in {"SLOT_FREE", "NO_ENDPOINT", "SENDING", "RECEIVING"} :
             f \in r1[q] <=> f \in r[q]
      OBVIOUS
    <2> HIDE DEF r1
    <2>4. QuietTo(r1, m, D) BY <2>3 DEF QuietTo, LivesIn
    <2> QED BY <2>1, <2>2, <2>4, NotifyQuiet
  <1>2. CASE ~(sig \notin p_pending[x] /\ "SIGNALED" \notin r[x])
    BY <1>2 DEF cause_sig
  <1> QED BY <1>1, <1>2

(* A quiet step that leaves the tables alone. *)
LEMMA QuietStepInv ==
    ASSUME TypeOK, AsyncInv, QuietTo(rts', misc', {}), UNCHANGED <<gen, asyn, asynsize>>,
           \A q \in Proc : "RECEIVING" \in rts'[q] /\ "REPLY_PEND" \notin misc'[q] =>
              getfrom'[q] = getfrom[q]
    PROVE  AsyncInv'
  <1>1. EntriesFinish /\ TablesKept({}) BY DEF EntriesFinish, TablesKept
  <1>2. AsyncQuiet({}) BY <1>1 DEF AsyncQuiet
  <1> QED BY <1>2, AsyncQuietInv

(* The flags as they are, and with the reply that the caller of a kernel    *)
(* call awaits.                                                             *)
LEMMA CallerQuiet ==
    ASSUME TypeOK, NEW p \in Proc
    PROVE  QuietTo(rts, misc, {}) /\ QuietTo(rts, KernelCall(p, misc), {})
  <1>1. QuietTo(rts, misc, {}) BY DEF QuietTo, LivesIn, Alive
  <1>2. \A q \in Proc : /\ "ASYNMSG" \in misc[q] => "ASYNMSG" \in KernelCall(p, misc)[q]
                        /\ "REPLY_PEND" \in misc[q] => "REPLY_PEND" \in KernelCall(p, misc)[q]
    BY DEF KernelCall, TypeOK
  <1> QED BY <1>1, <1>2 DEF QuietTo

(* NOTIFY, interrupts, alarms, exceptions and signals that do not kill. *)
LEMMA NotifiesAsync ==
    ASSUME TypeOK, AsyncInv, NEW p \in Proc,
           \/ External(p) \/ \E e \in Endpoints : Notify(p, e)
           \/ Exception(p) \/ \E t \in KillTargets : DoKill(p, t, "SIGTERM")
    PROVE  AsyncInv'
  <1>0. /\ rts \in [Proc -> SUBSET RtsFlags] /\ misc \in [Proc -> SUBSET MiscFlags]
        /\ KernelCall(p, misc) \in [Proc -> SUBSET MiscFlags]
    BY KernelCallType DEF TypeOK
  <1>1. UNCHANGED <<gen, getfrom, asyn, asynsize>>
    BY DEF External, Alarm, Interrupt, Notify, Exception, DoKill, ipcvars, asynvars
  <1>2. QuietTo(rts', misc', {})
    <2>1. CASE External(p)
      <3>1. \E source, ints : mini_notify(source, p, ints, s_sig_pending, rts, misc, inmsg, s_notify_pending)
        BY <2>1 DEF External, Alarm, Interrupt
      <3> QED BY <1>0, <3>1, CallerQuiet, NotifyQuiet
    <2>2. CASE \E e \in Endpoints : Notify(p, e)
      <3>1. \E target \in Proc : mini_notify(p, target, s_int_pending, s_sig_pending, rts, misc, inmsg, s_notify_pending)
        BY <2>2, EndpointsParts DEF Notify
      <3> QED BY <1>0, <3>1, CallerQuiet, NotifyQuiet
    <2>3. CASE Exception(p)
      <3>1. cause_sig(p, "SIGSEGV", rts, misc, inmsg, s_notify_pending) BY <2>3 DEF Exception
      <3> QED BY <1>0, <3>1, CallerQuiet, CauseSigQuiet
    <2>4. CASE \E t \in KillTargets : DoKill(p, t, "SIGTERM")
      <3>1. PICK t \in Proc : cause_sig(t, "SIGTERM", rts, KernelCall(p, misc), inmsg, s_notify_pending)
        BY <2>4, ProgramAssumption DEF DoKill
      <3> QED BY <1>0, <3>1, CallerQuiet, CauseSigQuiet
    <2> QED BY <2>1, <2>2, <2>3, <2>4
  <1> QED BY <1>1, <1>2, QuietStepInv

(* SEND, SENDNB, a SENDREC that has to wait, and a call to the dead. *)
LEMMA SendsAsync ==
    ASSUME TypeOK, AsyncInv, NEW p \in Proc, rts[p] = {}, NEW e \in Endpoints,
           \/ Send(p, e) \/ SendNB(p, e)
           \/ SendRec(p, e) /\ SendRecBlocks(p, e)
           \/ \E call \in {"RECEIVE", "SENDREC"} : PeerDied(p, call, e)
    PROVE  AsyncInv'
  <1>0. e[2] \in Proc BY EndpointsParts
  <1>1. UNCHANGED <<gen, asyn, asynsize>>
    BY DEF Send, SendNB, SendRec, SendRecBlocks, PeerDied, ipcvars, asynvars
  <1>2. CASE Send(p, e) \/ SendNB(p, e)
    <2>1. getfrom' = getfrom BY <1>2 DEF Send, SendNB, ipcvars
    <2>2. \/ QueueMess(p, e[2], rts, misc)
          \/ rts' = [rts EXCEPT ![p] = @ \cup {"SENDING"}] /\ misc' = misc
      BY <1>2 DEF Send, SendNB, Enqueue
    <2>3. \A q \in Proc :
             /\ \A f \in {"SLOT_FREE", "NO_ENDPOINT"} : f \in rts'[q] <=> f \in rts[q]
             /\ "RECEIVING" \in rts'[q] => rts'[q] = rts[q]
             /\ \A f \in {"ASYNMSG", "REPLY_PEND"} : f \in misc[q] => f \in misc'[q]
      <3>1. CASE QueueMess(p, e[2], rts, misc)
        <4>1. \A q \in Proc : rts'[q] = rts[q] \/ rts'[q] = rts[q] \ {"RECEIVING"}
          BY <1>0, <3>1 DEF QueueMess, TypeOK
        <4>2. \A q \in Proc : misc'[q] = misc[q] \/ misc'[q] = misc[q] \cup {"DELIVERMSG"}
          BY <1>0, <3>1 DEF QueueMess, TypeOK
        <4> SUFFICES ASSUME NEW q \in Proc
                     PROVE  /\ \A f \in {"SLOT_FREE", "NO_ENDPOINT"} : f \in rts'[q] <=> f \in rts[q]
                            /\ "RECEIVING" \in rts'[q] => rts'[q] = rts[q]
                            /\ \A f \in {"ASYNMSG", "REPLY_PEND"} : f \in misc[q] => f \in misc'[q]
          OBVIOUS
        <4>3. "RECEIVING" \in rts'[q] => rts'[q] = rts[q] BY <4>1
        <4>4. \A f \in {"SLOT_FREE", "NO_ENDPOINT"} : f \in rts'[q] <=> f \in rts[q] BY <4>1
        <4>5. \A f \in {"ASYNMSG", "REPLY_PEND"} : f \in misc[q] => f \in misc'[q] BY <4>2
        <4> QED BY <4>3, <4>4, <4>5
      <3>2. CASE rts' = [rts EXCEPT ![p] = @ \cup {"SENDING"}] /\ misc' = misc
        <4>1. \A q \in Proc : rts'[q] = rts[q] \/ (q = p /\ rts'[q] = {"SENDING"})
          BY <3>2 DEF TypeOK
        <4>2. ~("SLOT_FREE" \in rts[p]) /\ ~("NO_ENDPOINT" \in rts[p]) OBVIOUS
        <4> QED BY <3>2, <4>1, <4>2
      <3> QED BY <2>2, <3>1, <3>2
    <2>4. QuietTo(rts', misc', {})
      BY <2>3 DEF QuietTo, LivesIn, Alive
    <2> QED BY <1>1, <2>1, <2>4, QuietStepInv
  <1>3. CASE SendRec(p, e) /\ SendRecBlocks(p, e)
    <2>1. /\ \A q \in Proc : q # p => rts'[q] = rts[q] /\ misc'[q] = misc[q] /\ getfrom'[q] = getfrom[q]
          /\ rts'[p] = {"SENDING", "RECEIVING"} /\ misc'[p] = misc[p] \cup {"REPLY_PEND"}
      BY <1>3 DEF SendRecBlocks, Enqueue, TypeOK
    <2>2. QuietTo(rts', misc', {})
      BY <2>1 DEF QuietTo, LivesIn, Alive
    <2> QED BY <1>1, <2>1, <2>2, QuietStepInv
  <1>4. CASE \E call \in {"RECEIVE", "SENDREC"} : PeerDied(p, call, e)
    <2>1. /\ \A q \in Proc : q # p => misc'[q] = misc[q]
          /\ rts' = rts /\ getfrom' = getfrom
          /\ misc'[p] \in {misc[p] \cup {"REPLY_PEND"}, misc[p] \ {"REPLY_PEND"}}
      BY <1>4 DEF PeerDied, TypeOK, ipcvars
    <2>2. QuietTo(rts', misc', {})
      BY <2>1 DEF QuietTo, LivesIn, Alive
    <2> QED BY <1>1, <2>1, <2>2, QuietStepInv
  <1> QED BY <1>2, <1>3, <1>4

(* RECEIVE of a notification or from the queue. *)
LEMMA ReceiveAtOnceAsync ==
    ASSUME IPCInv, AsyncInv, NEW p \in Proc, NEW src, rts[p] = {},
           LET m == [misc EXCEPT ![p] = @ \ {"REPLY_PEND"}]
           IN  ReceiveNotification(p, src, m) \/ ReceiveQueued(p, src, m)
    PROVE  AsyncInv'
  <1> DEFINE m == [misc EXCEPT ![p] = @ \ {"REPLY_PEND"}]
  <1>0. TypeOK BY DEF IPCInv
  <1>1. UNCHANGED <<gen, getfrom, asyn, asynsize>>
    BY DEF ReceiveNotification, ReceiveQueued, ipcvars, asynvars
  <1>2. CASE ReceiveNotification(p, src, m)
    <2>1. misc' = [m EXCEPT ![p] = @ \cup {"DELIVERMSG"}] /\ rts' = rts
      BY <1>2 DEF ReceiveNotification
    <2>2. QuietTo(rts', misc', {})
      BY <1>0, <2>1 DEF QuietTo, LivesIn, Alive, TypeOK
    <2> QED BY <1>0, <1>1, <2>2, QuietStepInv
  <1>3. CASE ReceiveQueued(p, src, m)
    <2> DEFINE r(x)  == [rts EXCEPT ![x] = @ \ {"SENDING"}]
               m1    == [m EXCEPT ![p] = @ \cup {"DELIVERMSG"}]
               i1(x) == [inmsg EXCEPT ![p] = Message(x, "msg", {})]
               m2(x) == [m1 EXCEPT ![x] = @ \ {"SIG_DELAY"}]
    <2>1. PICK i \in DOMAIN callerq[p] :
             LET x == callerq[p][i]
             IN  \/ cause_sig(x, "SIGNDELAY", r(x), m2(x), i1(x), s_notify_pending)
                 \/ rts' = r(x) /\ misc' = m1
      BY <1>3 DEF ReceiveQueued, InQueue
    <2> DEFINE x == callerq[p][i]
    <2>2. x \in Proc BY <1>0, <2>1 DEF TypeOK
    <2> HIDE DEF x
    <2>3. /\ r(x) \in [Proc -> SUBSET RtsFlags] /\ m2(x) \in [Proc -> SUBSET MiscFlags]
          /\ m1 \in [Proc -> SUBSET MiscFlags]
      BY <1>0, <2>2 DEF TypeOK, MiscFlags
    <2>4. \A q \in Proc :
             /\ \A f \in {"SLOT_FREE", "NO_ENDPOINT", "RECEIVING"} : f \in r(x)[q] <=> f \in rts[q]
             /\ "SENDING" \in r(x)[q] => "SENDING" \in rts[q]
             /\ \A k \in {m1, m2(x)} :
                   /\ "ASYNMSG" \in misc[q] => "ASYNMSG" \in k[q]
                   /\ q # p /\ "REPLY_PEND" \in misc[q] => "REPLY_PEND" \in k[q]
      BY <1>0, <2>2 DEF TypeOK
    <2> HIDE DEF r, m1, m2, i1
    <2>5. QuietTo(r(x), m1, {}) /\ QuietTo(r(x), m2(x), {})
      BY <2>4 DEF QuietTo, LivesIn, Alive
    <2>6. QuietTo(rts', misc', {})
      BY <2>1, <2>2, <2>3, <2>5, CauseSigQuiet DEF x
    <2> QED BY <1>0, <1>1, <2>6, QuietStepInv
  <1> QED BY <1>2, <1>3

(* Delivery, sys_runctl, sys_privctl, sys_getksig and sys_endksig. *)
LEMMA OtherAsync ==
    ASSUME TypeOK, AsyncInv, NEW p \in Proc,
           DeliverMsg(p) \/ Stop(p) \/ DoPrivctl(p) \/ DoGetKsig \/ DoEndKsig
    PROVE  AsyncInv'
  <1>1. UNCHANGED <<gen, getfrom, asyn, asynsize>>
    BY DEF DeliverMsg, Stop, DoStop, DoResume, DoPrivctl, DoGetKsig, DoEndKsig, ipcvars, asynvars
  <1>2. \E x \in Proc : \A q \in Proc : rts'[q] = rts[q] \/
           (q = x /\ \A f \in RtsFlags \ {"PROC_STOP", "NO_PRIV", "SIGNALED", "SIG_PENDING"} :
                       f \in rts'[q] <=> f \in rts[q])
    <2>1. CASE rts' = rts BY <2>1
    <2>2. ASSUME NEW x \in Proc, NEW F \in SUBSET {"PROC_STOP", "NO_PRIV", "SIGNALED", "SIG_PENDING"},
                 \/ rts' = [rts EXCEPT ![x] = @ \ F] \/ rts' = [rts EXCEPT ![x] = @ \cup F]
          PROVE  \A q \in Proc : rts'[q] = rts[q] \/
                    (q = x /\ \A f \in RtsFlags \ {"PROC_STOP", "NO_PRIV", "SIGNALED", "SIG_PENDING"} :
                       f \in rts'[q] <=> f \in rts[q])
      BY <2>2 DEF TypeOK
    <2>3. ksig_e[2] \in Proc BY EndpointsParts DEF TypeOK
    <2>4. \/ rts' = rts
          \/ rts' = [rts EXCEPT ![p] = @ \cup {"PROC_STOP"}]
          \/ \E x \in Proc, f \in {"PROC_STOP", "NO_PRIV", "SIGNALED"} : rts' = [rts EXCEPT ![x] = @ \ {f}]
          \/ rts' = [rts EXCEPT ![ksig_e[2]] = IF "SIGNALED" \in @ THEN @ ELSE @ \ {"SIG_PENDING"}]
      BY DEF DeliverMsg, Stop, DoStop, DoResume, DoPrivctl, DoGetKsig, DoEndKsig
    <2>5. CASE rts' = [rts EXCEPT ![p] = @ \cup {"PROC_STOP"}] BY <2>2, <2>5
    <2>6. CASE \E x \in Proc, f \in {"PROC_STOP", "NO_PRIV", "SIGNALED"} : rts' = [rts EXCEPT ![x] = @ \ {f}]
      <3>1. PICK x \in Proc, f \in {"PROC_STOP", "NO_PRIV", "SIGNALED"} : rts' = [rts EXCEPT ![x] = @ \ {f}]
        BY <2>6
      <3>2. {f} \in SUBSET {"PROC_STOP", "NO_PRIV", "SIGNALED", "SIG_PENDING"} OBVIOUS
      <3> QED BY <2>2, <3>1, <3>2
    <2>7. CASE rts' = [rts EXCEPT ![ksig_e[2]] = IF "SIGNALED" \in @ THEN @ ELSE @ \ {"SIG_PENDING"}]
      BY <2>3, <2>7 DEF TypeOK
    <2> QED BY <2>1, <2>4, <2>5, <2>6, <2>7
  <1>3. \A q \in Proc : \A f \in {"ASYNMSG", "REPLY_PEND"} : f \in misc[q] => f \in misc'[q]
    BY DEF DeliverMsg, Stop, DoStop, DoResume, DoPrivctl, DoGetKsig, DoEndKsig, KernelCall, TypeOK
  <1>4. QuietTo(rts', misc', {})
    BY <1>2, <1>3 DEF QuietTo, LivesIn, Alive, RtsFlags
  <1> QED BY <1>1, <1>4, QuietStepInv

(* clear_endpoint takes one endpoint away and ends calls; whoever makes the *)
(* kernel call awaits its reply.                                            *)
LEMMA ClearQuiet ==
    ASSUME IPCInv, NEW p \in Proc, NEW c \in Proc
    PROVE  QuietTo(FlagsCleared(c), KernelCall(p, misc), {c})
  <1>0. TypeOK BY DEF IPCInv
  <1>1. \A q \in Proc : /\ "ASYNMSG" \in misc[q] => "ASYNMSG" \in KernelCall(p, misc)[q]
                        /\ "REPLY_PEND" \in misc[q] => "REPLY_PEND" \in KernelCall(p, misc)[q]
    BY <1>0 DEF KernelCall, TypeOK
  <1>2. \A q \in Proc : q # c =>
           /\ \A f \in {"SLOT_FREE", "NO_ENDPOINT"} : f \in FlagsCleared(c)[q] <=> f \in rts[q]
           /\ \A f \in {"SENDING", "RECEIVING"} : f \in FlagsCleared(c)[q] => f \in rts[q]
    BY FlagsClearedIs
  <1>3. /\ "NO_ENDPOINT" \in FlagsCleared(c)[c] /\ "RECEIVING" \notin FlagsCleared(c)[c]
        /\ "SLOT_FREE" \in FlagsCleared(c)[c] => "SLOT_FREE" \in rts[c]
    <2>1. FlagsCleared(c)[c] = (rts[c] \cup {"NO_ENDPOINT"}) \ {"SENDING", "RECEIVING"}
      BY FlagsClearedIs
    <2> QED BY <2>1
  <1> QED BY <1>1, <1>2, <1>3 DEF QuietTo, LivesIn, Alive

(* An exit and SIGKILL. *)
LEMMA DeathAsync ==
    ASSUME IPCInv, AsyncInv, NEW p \in Proc,
           \/ DoExit(p) \/ DoExitSelf(p) \/ \E t \in KillTargets : DoKill(p, t, "SIGKILL")
    PROVE  AsyncInv'
  <1>0. TypeOK BY DEF IPCInv
  <1>1. ASSUME NEW c \in Proc, QuietTo(rts', misc', {c}), asynsize' = SizesCleared(c),
               UNCHANGED <<gen, getfrom, asyn>>
        PROVE  AsyncInv'
    <2>1. \A s \in SysProc : asynsize'[s] <=> asynsize[s] /\ s # c
      BY <1>1 DEF SizesCleared
    <2>2. EntriesFinish /\ TablesKept({c})
      BY <1>1, <2>1 DEF EntriesFinish, TablesKept
    <2>3. AsyncQuiet({c}) BY <1>1, <2>2 DEF AsyncQuiet
    <2> QED BY <1>0, <2>3, AsyncQuietInv
  <1>2. CASE DoExit(p) \/ DoExitSelf(p)
    <2>1. PICK q \in Proc : clear_proc(p) /\ misc' = KernelCall(q, misc) /\ p \in Mortal
      BY <1>2, Basics DEF DoExit, DoExitSelf
    <2>2. QuietTo(FlagsCleared(p), misc', {p}) BY <2>1, ClearQuiet
    <2>3. /\ rts'[p] = {"SLOT_FREE"}
          /\ \A x \in Proc : x # p => rts'[x] = FlagsCleared(p)[x]
      BY <1>0, <2>1, ClearType DEF clear_proc
    <2>4. "RECEIVING" \notin rts'[p] /\ "SLOT_FREE" \in rts'[p] BY <2>3
    <2>5. QuietTo(rts', misc', {p})
      BY <2>1, <2>2, <2>3, <2>4 DEF QuietTo, LivesIn
    <2>6. asynsize' = SizesCleared(p) /\ UNCHANGED <<gen, getfrom, asyn>>
      BY <2>1 DEF clear_proc
    <2> QED BY <1>1, <2>5, <2>6
  <1>3. CASE \E t \in KillTargets : DoKill(p, t, "SIGKILL")
    <2>1. PICK t \in KillTargets : DoKill(p, t, "SIGKILL") BY <1>3
    <2>2. t \in Proc BY ProgramAssumption
    <2>3. /\ cause_sig(t, "SIGKILL", FlagsCleared(t), KernelCall(p, misc), inmsg, NotifiesCleared(t))
          /\ asynsize' = SizesCleared(t) /\ UNCHANGED <<gen, getfrom, asyn>>
      BY <2>1 DEF DoKill
    <2>4. /\ FlagsCleared(t) \in [Proc -> SUBSET RtsFlags]
          /\ KernelCall(p, misc) \in [Proc -> SUBSET MiscFlags]
      BY <1>0, <2>2, ClearType, KernelCallType DEF TypeOK
    <2>5. QuietTo(FlagsCleared(t), KernelCall(p, misc), {t}) BY <2>2, ClearQuiet
    <2>6. QuietTo(rts', misc', {t}) BY <2>2, <2>3, <2>4, <2>5, CauseSigQuiet
    <2> QED BY <1>1, <2>2, <2>3, <2>6
  <1> QED BY <1>2, <1>3

(* An entry is marked done. *)
LEMMA MarkDoneFinishes ==
    ASSUME TypeOK, NEW s \in SysProc, NEW i \in DOMAIN asyn[s],
           asyn' = [asyn EXCEPT ![s][i].done = TRUE]
    PROVE  EntriesFinish
  <1> DEFINE entry == [asyn[s][i] EXCEPT !.done = TRUE]
             table == [asyn[s] EXCEPT ![i] = entry]
  <1>1. asyn[s][i] \in Entries BY DEF TypeOK
  <1>2. entry.dst = asyn[s][i].dst /\ entry.done BY <1>1 DEF Entries
  <1> HIDE DEF entry
  <1>3. DOMAIN table = DOMAIN asyn[s] /\ \A j \in DOMAIN asyn[s] :
           table[j] = asyn[s][j] \/ (j = i /\ table[j] = entry)
    OBVIOUS
  <1>4. asyn' = [asyn EXCEPT ![s] = table] BY DEF entry
  <1> HIDE DEF table
  <1>5. asyn'[s] = table /\ \A t \in SysProc : t # s => asyn'[t] = asyn[t]
    BY <1>4 DEF TypeOK
  <1>6. \A t \in SysProc : t = s \/ asyn'[t] = asyn[t] BY <1>5
  <1> QED BY <1>2, <1>3, <1>5, <1>6 DEF EntriesFinish

(* A scan only drops tables that are finished. *)
LEMMA ScanKeeps ==
    ASSUME NEW d, asynsize' = asynsize \/ \E S : asynsize' = Scanned(S, d)
    PROVE  TablesKept({})
  <1>1. CASE asynsize' = asynsize BY <1>1 DEF TablesKept
  <1>2. CASE \E S : asynsize' = Scanned(S, d)
    BY <1>2 DEF TablesKept, Scanned
  <1> QED BY <1>1, <1>2

(* RECEIVE of an asynchronous message. *)
LEMMA ReceiveAsyncAsync ==
    ASSUME TypeOK, AsyncInv, NEW p \in Proc, NEW src, rts[p] = {},
           ReceiveAsync(p, src, [misc EXCEPT ![p] = @ \ {"REPLY_PEND"}])
    PROVE  AsyncInv'
  <1> DEFINE m == [misc EXCEPT ![p] = @ \ {"REPLY_PEND"}]
  <1>1. UNCHANGED <<rts, gen, getfrom>> BY DEF ReceiveAsync, ipcvars
  <1>2. PICK s \in SysProc : \E i \in DOMAIN asyn[s] : TakeAsync(p, src, m, s, i)
    BY DEF ReceiveAsync
  <1>3. PICK i \in DOMAIN asyn[s] : TakeAsync(p, src, m, s, i) BY <1>2
  <1>4. EntriesFinish BY <1>3, MarkDoneFinishes DEF TakeAsync
  <1>5. TablesKept({}) BY <1>3, ScanKeeps DEF TakeAsync
  <1>6. misc' = [m EXCEPT ![p] = @ \cup {"DELIVERMSG"}] BY <1>3 DEF TakeAsync
  <1>7. \A q \in Proc : /\ "ASYNMSG" \in misc[q] => "ASYNMSG" \in misc'[q]
                        /\ q # p /\ "REPLY_PEND" \in misc[q] => "REPLY_PEND" \in misc'[q]
    BY <1>6 DEF TypeOK
  <1>8. QuietTo(rts', misc', {})
    BY <1>1, <1>7 DEF QuietTo, LivesIn, Alive
  <1> QED BY <1>1, <1>4, <1>5, <1>8, AsyncQuietInv DEF AsyncQuiet

(* SENDREC that delivers: the caller awaits a reply. *)
LEMMA SendRecDeliversAsync ==
    ASSUME TypeOK, AsyncInv, NEW p \in Proc, rts[p] = {}, NEW e \in Endpoints,
           SendRec(p, e), SendRecDelivers(p, e)
    PROVE  AsyncInv'
  <1> DEFINE d == e[2]
             r == [rts EXCEPT ![d] = @ \ {"RECEIVING"}]
             m == [misc EXCEPT ![p] = @ \cup {"REPLY_PEND"}, ![d] = @ \cup {"DELIVERMSG"}]
  <1>0. d \in Proc /\ d # p /\ gen' = gen /\ e # ANY
    BY EndpointsParts, AnyNoEndpoint DEF SendRecDelivers, WILLRECEIVE, SendRec
  <1> HIDE DEF d
  <1>1. \A q \in Proc :
           /\ "ASYNMSG" \in misc[q] => "ASYNMSG" \in m[q]
           /\ "REPLY_PEND" \in misc[q] \/ q = p => "REPLY_PEND" \in m[q]
           /\ \A f \in {"SLOT_FREE", "NO_ENDPOINT"} : f \in r[q] <=> f \in rts[q]
           /\ \A f \in {"SENDING", "RECEIVING"} : f \in r[q] => f \in rts[q]
    BY <1>0 DEF TypeOK
  <1>2. m \in [Proc -> SUBSET MiscFlags] /\ r \in [Proc -> SUBSET RtsFlags]
    BY <1>0 DEF TypeOK, MiscFlags
  <1>3. \/ /\ d \in SysProc
           /\ \E i \in DOMAIN asyn[d] : asyn' = [asyn EXCEPT ![d][i].done = TRUE]
           /\ rts' = r /\ misc' = [m EXCEPT ![p] = @ \cup {"DELIVERMSG"}]
           /\ UNCHANGED <<getfrom, asynsize>>
        \/ NoAsync(p, e, m) /\ Block(p, e, r) /\ UNCHANGED asyn
    BY DEF SendRecDelivers, d
  <1> HIDE DEF r, m
  <1>4. EntriesFinish /\ TablesKept({})
    <2>1. EntriesFinish BY <1>3, MarkDoneFinishes DEF EntriesFinish
    <2>2. asynsize' = asynsize \/ \E S : asynsize' = Scanned(S, p) BY <1>3 DEF NoAsync
    <2> QED BY <2>1, <2>2, ScanKeeps
  <1>5. \A q \in Proc : \A f \in {"ASYNMSG", "REPLY_PEND"} : f \in m[q] => f \in misc'[q]
    <2>1. misc' = m \/ misc' = [m EXCEPT ![p] = @ \cup {"DELIVERMSG"}]
      BY <1>0, <1>3 DEF NoAsync
    <2> QED BY <1>2, <2>1
  <1>6. \A q \in Proc : q # p => rts'[q] = r[q] /\ getfrom'[q] = getfrom[q]
    BY <1>2, <1>3 DEF Block, TypeOK
  <1>7. \A f \in {"SLOT_FREE", "NO_ENDPOINT"} : f \in rts'[p] <=> f \in r[p]
    <2>1. rts'[p] = r[p] \/ rts'[p] = r[p] \cup {"RECEIVING"}
      BY <1>2, <1>3 DEF Block
    <2> QED BY <2>1
  <1>8. QuietTo(rts', misc', {})
    BY <1>1, <1>5, <1>6, <1>7 DEF QuietTo, LivesIn, Alive
  <1>9. AsyncQuiet({})
    BY <1>0, <1>1, <1>4, <1>5, <1>6, <1>8 DEF AsyncQuiet
  <1> QED BY <1>9, AsyncQuietInv

(* A RECEIVE that has to wait has found no message in the tables. *)
LEMMA ReceiveBlocksAsync ==
    ASSUME TypeOK, AsyncInv, NEW p \in Proc, NEW src, rts[p] = {},
           ReceiveBlocks(p, src, [misc EXCEPT ![p] = @ \ {"REPLY_PEND"}])
    PROVE  AsyncInv'
  <1> DEFINE m == [misc EXCEPT ![p] = @ \ {"REPLY_PEND"}]
  <1>0. NoAsync(p, src, m) /\ UNCHANGED <<gen, asyn>>
    BY DEF ReceiveBlocks
  <1>1. \A q \in Proc : q # p => rts'[q] = rts[q] /\ getfrom'[q] = getfrom[q] /\ misc'[q] = misc[q]
    BY <1>0 DEF ReceiveBlocks, Block, NoAsync, TypeOK
  <1>2. rts'[p] = {"RECEIVING"} /\ getfrom'[p] = src
    BY DEF ReceiveBlocks, Block, TypeOK
  <1>3. "ASYNMSG" \in misc[p] <=> "ASYNMSG" \in m[p]
    BY DEF TypeOK
  <1>4. "REPLY_PEND" \notin m[p]
    BY DEF TypeOK
  <1>5. \A q \in Proc : Alive(q)' <=> Alive(q)
    <2>1. Alive(p) /\ Alive(p)' BY <1>2 DEF Alive
    <2> QED BY <1>1, <2>1 DEF Alive
  <1>6. \A s \in SysProc : asynsize'[s] => asynsize[s]
    <2>1. asynsize' = asynsize \/ \E S : asynsize' = Scanned(S, p) BY <1>0 DEF NoAsync
    <2> QED BY <2>1, ScanKeeps DEF TablesKept
  <1>7. \A s \in SysProc : asynsize[s] /\ ~asynsize'[s] => \A i \in DOMAIN asyn[s] : asyn[s][i].done
    <2>1. asynsize' = asynsize \/ \E S : asynsize' = Scanned(S, p) BY <1>0 DEF NoAsync
    <2> QED BY <2>1, ScanKeeps DEF TablesKept
  <1>8. \A s \in SysProc, d \in Proc : \A i \in DOMAIN asyn[s] : PendingFor(s, d, i)' <=> PendingFor(s, d, i)
    BY <1>0 DEF PendingFor, Endpoint
  <1>9. "ASYNMSG" \in m[p] =>
          \A s \in SysProc : (src = ANY \/ s = src[2]) => ~HasOne(s, p, m)
    BY <1>0 DEF NoAsync
  <1>10. "ASYNMSG" \in m[p] /\ "ASYNMSG" \notin misc'[p] => src = ANY
    BY <1>0 DEF NoAsync
  <1> HIDE DEF m
  <1>11. AsyncNotLost'
    <2> SUFFICES ASSUME NEW s \in SysProc, NEW d \in Proc, NEW i \in DOMAIN asyn'[s],
                        Alive(s)', <<s, d>> \in MaySend, Alive(d)', PendingFor(s, d, i)'
                 PROVE  asynsize'[s] /\ "ASYNMSG" \in misc'[d]
      BY DEF AsyncNotLost
    <2>1. s \in Proc /\ i \in DOMAIN asyn[s] BY <1>0, Basics
    <2>2. PendingFor(s, d, i) BY <1>8, <2>1
    <2>3. asynsize[s] /\ "ASYNMSG" \in misc[d]
      BY <1>5, <2>1, <2>2 DEF AsyncInv, AsyncKept, AsyncNotLost
    <2>4. asynsize'[s] BY <1>7, <2>1, <2>2, <2>3 DEF PendingFor
    <2>5. CASE d # p BY <1>1, <2>3, <2>4, <2>5
    <2>6. CASE d = p
      <3>1. HasOne(s, p, m) BY <1>4, <2>1, <2>2, <2>3, <2>6, PlainHasOne
      <3> QED BY <1>3, <1>9, <1>10, <2>3, <2>4, <2>6, <3>1
    <2> QED BY <2>5, <2>6
  <1>12. NoMissedAsync'
    <2> SUFFICES ASSUME NEW q \in Proc, "RECEIVING" \in rts'[q], "REPLY_PEND" \notin misc'[q],
                        NEW s \in SysProc, getfrom'[q] \in {ANY, Endpoint(s)'}, HasOne(s, q, misc)'
                 PROVE  FALSE
      BY DEF NoMissedAsync
    <2>1. asynsize[s] /\ <<s, q>> \in MaySend /\ \E i \in DOMAIN asyn[s] : PendingFor(s, q, i)
      BY <1>0, <1>6, <1>8, HasOneNext
    <2>2. Endpoint(s)' = Endpoint(s) BY <1>0 DEF Endpoint
    <2>3. CASE q # p
      <3>1. "REPLY_PEND" \notin misc[q] BY <1>1, <2>3
      <3>2. HasOne(s, q, misc) BY <2>1, <3>1, PlainHasOne
      <3> QED BY <1>1, <2>2, <2>3, <3>1, <3>2 DEF AsyncInv, AsyncKept, NoMissedAsync
    <2>4. CASE q = p
      <3>1. HasOne(s, p, m) BY <1>4, <2>1, <2>4, PlainHasOne
      <3>2. Alive(s) /\ Alive(p) /\ s \in Proc BY <2>1, Basics DEF AsyncInv, Alive
      <3>3. "ASYNMSG" \in misc[p]
        BY <2>1, <2>4, <3>2 DEF AsyncInv, AsyncKept, AsyncNotLost
      <3>4. src = ANY \/ s = src[2] BY <1>2, <2>2, <2>4 DEF Endpoint
      <3> QED BY <1>3, <1>9, <3>1, <3>3, <3>4
    <2> QED BY <2>3, <2>4
  <1>13. \A s \in SysProc : asynsize'[s] => Alive(s)'
    BY <1>5, <1>6, Basics DEF AsyncInv
  <1>14. \A q \in Proc : {"SENDING", "RECEIVING"} \subseteq rts'[q] => "REPLY_PEND" \in misc'[q]
    <2> TAKE q \in Proc
    <2>1. CASE q # p BY <1>1, <2>1 DEF AsyncInv
    <2>2. CASE q = p BY <1>2, <2>2
    <2> QED BY <2>1, <2>2
  <1> QED BY <1>0, <1>11, <1>12, <1>13, <1>14 DEF AsyncInv, AsyncKept

(* do_fork makes an endpoint that no entry is for. *)
LEMMA ForkAsync ==
    ASSUME IPCInv, AsyncInv, NEW f \in Proc, NEW c \in Proc \ SysProc, DoFork(f, c),
           ~EndpointReused
    PROVE  AsyncInv'
  <1>0. TypeOK BY DEF IPCInv
  <1>1. rts[c] = {"SLOT_FREE"} /\ f # c /\ "RECEIVING" \in rts[f]
        /\ "SENDING" \notin rts[f] /\ getfrom[f] = Endpoint(PM) /\ Running(PM)
    BY DEF DoFork, isemptyp
  <1>2. \A s \in SysProc : \A i \in DOMAIN asyn[s] : asyn[s][i].done \/ asyn[s][i].dst # Endpoint(c)'
    <2>1. gen'[c] = NextGen(c) BY <1>0 DEF DoFork, TypeOK
    <2> QED BY <2>1 DEF EndpointReused, Endpoint
  <1>3. /\ \A q \in Proc : q # c => rts'[q] = rts[q] /\ gen'[q] = gen[q] /\ getfrom'[q] = getfrom[q]
        /\ rts'[c] \subseteq rts[f] \cup {"NO_PRIV"}
        /\ UNCHANGED <<asyn, asynsize>>
    BY <1>0 DEF DoFork, asynvars, TypeOK
  <1>4. \A q \in Proc : q # c => /\ "ASYNMSG" \in misc[q] => "ASYNMSG" \in misc'[q]
                                 /\ "REPLY_PEND" \in misc[q] => "REPLY_PEND" \in misc'[q]
    BY <1>0, Basics DEF DoFork, KernelCall, TypeOK
  <1>5. \A s \in SysProc, d \in Proc : \A i \in DOMAIN asyn'[s] :
           PendingFor(s, d, i)' => d # c /\ PendingFor(s, d, i)
    <2> SUFFICES ASSUME NEW s \in SysProc, NEW d \in Proc, NEW i \in DOMAIN asyn'[s], PendingFor(s, d, i)'
                 PROVE  d # c /\ PendingFor(s, d, i)
      OBVIOUS
    <2>1. i \in DOMAIN asyn[s] /\ ~asyn[s][i].done /\ asyn[s][i].dst = Endpoint(d)'
      BY <1>3 DEF PendingFor
    <2>2. d # c BY <1>2, <2>1
    <2> QED BY <1>3, <2>1, <2>2 DEF PendingFor, Endpoint
  <1>6. \A q \in Proc : q # c => (Alive(q)' <=> Alive(q))
    BY <1>3 DEF Alive
  <1>7. \A s \in SysProc : s # c /\ s \in Proc BY Basics
  <1>8. AsyncNotLost'
    <2> SUFFICES ASSUME NEW s \in SysProc, NEW d \in Proc, NEW i \in DOMAIN asyn'[s],
                        Alive(s)', <<s, d>> \in MaySend, Alive(d)', PendingFor(s, d, i)'
                 PROVE  asynsize'[s] /\ "ASYNMSG" \in misc'[d]
      BY DEF AsyncNotLost
    <2>1. d # c /\ PendingFor(s, d, i) /\ i \in DOMAIN asyn[s] BY <1>5 DEF PendingFor
    <2>2. Alive(s) /\ Alive(d) BY <1>6, <1>7, <2>1
    <2>3. asynsize[s] /\ "ASYNMSG" \in misc[d]
      BY <2>1, <2>2 DEF AsyncInv, AsyncKept, AsyncNotLost
    <2> QED BY <1>3, <1>4, <2>1, <2>3
  <1>9. NoMissedAsync'
    <2> SUFFICES ASSUME NEW q \in Proc, "RECEIVING" \in rts'[q], "REPLY_PEND" \notin misc'[q],
                        NEW s \in SysProc, getfrom'[q] \in {ANY, Endpoint(s)'}, HasOne(s, q, misc)'
                 PROVE  FALSE
      BY DEF NoMissedAsync
    <2>1. PICK i \in DOMAIN asyn'[s] : PendingFor(s, q, i)' BY HasOneNext
    <2>2. q # c /\ PendingFor(s, q, i) /\ i \in DOMAIN asyn[s] BY <1>5, <2>1 DEF PendingFor
    <2>3. asynsize[s] /\ <<s, q>> \in MaySend BY <1>3, HasOneNext
    <2>4. "REPLY_PEND" \notin misc[q] BY <1>4, <2>2
    <2>5. HasOne(s, q, misc) BY <1>0, <2>2, <2>3, <2>4, PlainHasOne
    <2>6. getfrom[q] \in {ANY, Endpoint(s)} BY <1>3, <1>7, <2>2 DEF Endpoint
    <2> QED BY <1>3, <2>2, <2>4, <2>5, <2>6 DEF AsyncInv, AsyncKept, NoMissedAsync
  <1>10. \A s \in SysProc : asynsize'[s] => Alive(s)'
    BY <1>3, <1>6, <1>7 DEF AsyncInv
  <1>11. \A q \in Proc : {"SENDING", "RECEIVING"} \subseteq rts'[q] => "REPLY_PEND" \in misc'[q]
    <2> TAKE q \in Proc
    <2>1. CASE q # c BY <1>3, <1>4, <2>1 DEF AsyncInv
    <2>2. CASE q = c BY <1>1, <1>3, <2>2
    <2> QED BY <2>1, <2>2
  <1> QED BY <1>8, <1>9, <1>10, <1>11 DEF AsyncInv, AsyncKept

(* What SENDA leaves in the table of its caller. *)
LEMMA SendATable ==
    ASSUME TypeOK, AsyncInv, NEW p \in Proc, NEW e \in Endpoints, NEW noreply \in BOOLEAN,
           NEW k \in 0 .. ASYN_NR, SendA(p, e, noreply, k)
    PROVE  LET table == AsynTable(p, e, noreply, k)
           IN  /\ table \in Seq(Entries)
               /\ DOMAIN asyn'[p] = DOMAIN table
               /\ \A i \in DOMAIN table : /\ asyn'[p][i].dst = table[i].dst
                                          /\ ~asyn'[p][i].done => Kept(p, table, i)
  <1> DEFINE entry == [dst |-> e, noreply |-> noreply, done |-> FALSE]
             rest  == SubSeq(asyn[p], k + 1, Len(asyn[p]))
             table == AsynTable(p, e, noreply, k)
             new   == [i \in DOMAIN table |-> [table[i] EXCEPT !.done = ~Kept(p, table, i)]]
  <1>1. p \in SysProc /\ k \in Nat /\ k <= Len(asyn[p])
    BY NumberAssumption DEF SendA
  <1>2. asyn[p] \in Seq(Entries)
    BY <1>1 DEF TypeOK
  <1>3. entry \in Entries
    BY DEF Entries
  <1>4. rest \in Seq(Entries)
    BY <1>1, <1>2
  <1>5. table \in Seq(Entries)
    BY <1>3, <1>4 DEF AsynTable
  <1>6. asyn' = [asyn EXCEPT ![p] = new]
    BY DEF SendA
  <1> HIDE DEF table, entry, rest
  <1>9. asyn'[p] = new BY <1>1, <1>6 DEF TypeOK
  <1>10. ASSUME NEW i \in DOMAIN table
         PROVE  /\ new[i].dst = table[i].dst
                /\ ~new[i].done => Kept(p, table, i)
    <2>1. table[i] \in Entries BY <1>5
    <2>2. new[i] = [table[i] EXCEPT !.done = ~Kept(p, table, i)] OBVIOUS
    <2> QED BY <2>1, <2>2 DEF Entries
  <1>11. DOMAIN new = DOMAIN table OBVIOUS
  <1> HIDE DEF new
  <1> QED BY <1>5, <1>9, <1>10, <1>11 DEF table

(* SENDA hands over what a waiting receiver can take and flags the others. *)
LEMMA SendAAsync ==
    ASSUME TypeOK, AsyncInv, NEW p \in Proc, NEW e \in Endpoints, NEW noreply \in BOOLEAN,
           NEW k \in 0 .. ASYN_NR, SendA(p, e, noreply, k)
    PROVE  AsyncInv'
  <1> DEFINE table   == AsynTable(p, e, noreply, k)
             Served  == {q \in Proc : \E i \in DOMAIN table :
                                    table[i].dst[2] = q /\ Given(p, table, i)}
             Flagged == {q \in Proc : \E i \in DOMAIN table :
                                    table[i].dst[2] = q /\ Kept(p, table, i)}
  <1>1. p \in SysProc /\ rts[p] = {} /\ UNCHANGED <<gen, getfrom>>
    BY DEF SendA, Running, ipcvars
  <1>2. /\ table \in Seq(Entries) /\ DOMAIN asyn'[p] = DOMAIN table
        /\ \A i \in DOMAIN table : /\ asyn'[p][i].dst = table[i].dst
                                   /\ ~asyn'[p][i].done => Kept(p, table, i)
    BY SendATable
  <1>3. /\ rts' = [q \in Proc |-> IF q \in Served THEN rts[q] \ {"RECEIVING"} ELSE rts[q]]
        /\ misc' = [q \in Proc |->
                       misc[q] \cup {f \in {"DELIVERMSG", "ASYNMSG"} :
                                       \/ f = "DELIVERMSG" /\ q \in Served
                                       \/ f = "ASYNMSG" /\ q \in Flagged}]
        /\ asynsize' = [asynsize EXCEPT ![p] = \E i \in DOMAIN table : Kept(p, table, i)]
    BY DEF SendA
  <1>4. \A s \in SysProc : s # p => asyn'[s] = asyn[s] /\ asynsize'[s] = asynsize[s]
    BY DEF SendA, TypeOK
  <1>5. (\E i \in DOMAIN table : Kept(p, table, i)) => asynsize'[p]
    BY <1>1, <1>3 DEF TypeOK
  <1>6. \A q \in Proc : /\ \A i \in DOMAIN table : table[i].dst[2] = q /\ Kept(p, table, i) => "ASYNMSG" \in misc'[q]
                        /\ \A f \in {"ASYNMSG", "REPLY_PEND"} : f \in misc[q] => f \in misc'[q]
    BY <1>3
  <1>7. \A q \in Proc : /\ "RECEIVING" \in rts'[q] => q \notin Served
                        /\ \A f \in {"SLOT_FREE", "NO_ENDPOINT", "SENDING"} : f \in rts'[q] <=> f \in rts[q]
                        /\ "RECEIVING" \in rts'[q] => "RECEIVING" \in rts[q]
    BY <1>3
  <1>8. \A q \in Proc, i \in DOMAIN table :
           table[i].dst[2] = q /\ Given(p, table, i) => q \in Served
    OBVIOUS
  <1> HIDE DEF table, Served, Flagged
  <1>9. \A q \in Proc : Alive(q)' <=> Alive(q) BY <1>7 DEF Alive
  <1>10. \A s \in SysProc, d \in Proc : \A i : s # p /\ PendingFor(s, d, i)' => PendingFor(s, d, i)
    BY <1>1, <1>4 DEF PendingFor, Endpoint
  <1>11. \A d \in Proc : \A i : PendingFor(p, d, i)' =>
           i \in DOMAIN table /\ Kept(p, table, i) /\ table[i].dst = Endpoint(d)
    BY <1>1, <1>2 DEF PendingFor, Endpoint
  <1>12. AsyncNotLost'
    <2> SUFFICES ASSUME NEW s \in SysProc, NEW d \in Proc, NEW i \in DOMAIN asyn'[s],
                        Alive(s)', <<s, d>> \in MaySend, Alive(d)', PendingFor(s, d, i)'
                 PROVE  asynsize'[s] /\ "ASYNMSG" \in misc'[d]
      BY DEF AsyncNotLost
    <2>1. CASE s = p
      <3>1. i \in DOMAIN table /\ Kept(p, table, i) /\ table[i].dst = Endpoint(d) BY <1>11, <2>1
      <3>2. table[i].dst[2] = d BY <3>1 DEF Endpoint
      <3> QED BY <1>5, <1>6, <2>1, <3>1, <3>2
    <2>2. CASE s # p
      <3>1. PendingFor(s, d, i) /\ i \in DOMAIN asyn[s] BY <1>10, <2>2 DEF PendingFor
      <3>2. Alive(s) /\ Alive(d) BY <1>9, Basics
      <3>3. asynsize[s] /\ "ASYNMSG" \in misc[d]
        BY <3>1, <3>2 DEF AsyncInv, AsyncKept, AsyncNotLost
      <3> QED BY <1>4, <1>6, <2>2, <3>3
    <2> QED BY <2>1, <2>2
  <1>13. NoMissedAsync'
    <2> SUFFICES ASSUME NEW q \in Proc, "RECEIVING" \in rts'[q], "REPLY_PEND" \notin misc'[q],
                        NEW s \in SysProc, getfrom'[q] \in {ANY, Endpoint(s)'}, HasOne(s, q, misc)'
                 PROVE  FALSE
      BY DEF NoMissedAsync
    <2>1. /\ "RECEIVING" \in rts[q] /\ "REPLY_PEND" \notin misc[q] /\ q \notin Served
          /\ getfrom[q] \in {ANY, Endpoint(s)}
      BY <1>1, <1>6, <1>7 DEF Endpoint
    <2>2. PICK i \in DOMAIN asyn'[s] : PendingFor(s, q, i)' BY HasOneNext
    <2>3. asynsize'[s] /\ <<s, q>> \in MaySend BY HasOneNext
    <2>4. CASE s # p
      <3>1. PendingFor(s, q, i) /\ i \in DOMAIN asyn[s] BY <1>10, <2>2, <2>4 DEF PendingFor
      <3>2. HasOne(s, q, misc) BY <1>4, <2>1, <2>3, <2>4, <3>1, PlainHasOne
      <3> QED BY <2>1, <3>2 DEF AsyncInv, AsyncKept, NoMissedAsync
    <2>5. CASE s = p
      <3>1. i \in DOMAIN table /\ Kept(p, table, i) /\ table[i].dst = Endpoint(q)
        BY <1>11, <2>2, <2>5
      <3>2. "SENDING" \notin rts[q] BY <2>1 DEF AsyncInv
      <3>3. table[i].dst[2] = q BY <3>1 DEF Endpoint
      <3>4. Fits(p, table, i)
        BY <2>1, <2>5, <3>1, <3>2, <3>3 DEF Kept, Fits, WILLRECEIVE, Suits
      <3> DEFINE I == {j \in DOMAIN table : Fits(p, table, j) /\ table[j].dst = Endpoint(q)}
      <3>5. DOMAIN table = 1 .. Len(table) /\ Len(table) \in Nat BY <1>2
      <3>6. PICK j \in I : \A y \in I : j <= y
        <4>1. I \subseteq Nat /\ I # {} BY <3>1, <3>4, <3>5
        <4> QED BY <4>1, LeastExists
      <3>7. \A y \in 1 .. j - 1 : y \notin I BY <3>5, <3>6
      <3>8. \A y \in 1 .. j - 1 : ~(Fits(p, table, y) /\ table[y].dst = table[j].dst)
        BY <3>5, <3>6, <3>7
      <3>9. Given(p, table, j) BY <3>6, <3>8 DEF Given
      <3>10. table[j].dst[2] = q BY <3>6 DEF Endpoint
      <3> QED BY <1>8, <2>1, <3>6, <3>9, <3>10
    <2> QED BY <2>4, <2>5
  <1>14. \A s \in SysProc : asynsize'[s] => Alive(s)'
    <2> SUFFICES ASSUME NEW s \in SysProc, asynsize'[s] PROVE Alive(s)'
      OBVIOUS
    <2>1. CASE s = p BY <1>1, <1>9, <2>1 DEF Alive
    <2>2. CASE s # p BY <1>4, <1>9, <2>2, Basics DEF AsyncInv
    <2> QED BY <2>1, <2>2
  <1>15. \A q \in Proc : {"SENDING", "RECEIVING"} \subseteq rts'[q] => "REPLY_PEND" \in misc'[q]
    BY <1>6, <1>7 DEF AsyncInv
  <1> QED BY <1>12, <1>13, <1>14, <1>15 DEF AsyncInv, AsyncKept

(* At the start there are no asynchronous messages. *)
LEMMA InitAsync == Init => AsyncInv
  <1> SUFFICES ASSUME Init PROVE AsyncInv
    OBVIOUS
  <1>1. \A s \in SysProc : DOMAIN asyn[s] = {} /\ ~asynsize[s] BY DEF Init
  <1>2. \A p \in Proc : "RECEIVING" \notin rts[p]
    BY DEF Init
  <1> QED BY <1>1, <1>2 DEF AsyncInv, AsyncKept, AsyncNotLost, NoMissedAsync

(* Every step that reuses no endpoint of a message preserves AsyncInv. *)
LEMMA NextAsync ==
    ASSUME IPCInv, AsyncInv, Next, ~EndpointReused
    PROVE  AsyncInv'
  <1>0. TypeOK BY DEF IPCInv
  <1>1. ASSUME NEW p \in Proc, Trap(p) PROVE AsyncInv'
    <2>0. rts[p] = {} BY <1>1 DEF Trap, Running
    <2>1. CASE \E src \in Peers[p] \cup {ANY} : Receive(p, src)
      <3>1. PICK src \in Peers[p] \cup {ANY} : Receive(p, src) BY <2>1
      <3> DEFINE m == [misc EXCEPT ![p] = @ \ {"REPLY_PEND"}]
      <3>2. \/ ReceiveNotification(p, src, m) \/ ReceiveQueued(p, src, m)
            \/ ReceiveAsync(p, src, m) \/ ReceiveBlocks(p, src, m)
        BY <3>1 DEF Receive
      <3> QED BY <1>0, <2>0, <3>2, ReceiveAtOnceAsync, ReceiveAsyncAsync, ReceiveBlocksAsync
    <2>2. CASE \E e \in Peers[p] :
             \/ Send(p, e) \/ SendNB(p, e) \/ SendRec(p, e) \/ Notify(p, e)
             \/ \E call \in {"RECEIVE", "SENDREC"} : PeerDied(p, call, e)
             \/ \E noreply \in BOOLEAN, k \in 0 .. ASYN_NR : SendA(p, e, noreply, k)
      <3>1. PICK e \in Endpoints :
             \/ Send(p, e) \/ SendNB(p, e) \/ SendRec(p, e) \/ Notify(p, e)
             \/ \E call \in {"RECEIVE", "SENDREC"} : PeerDied(p, call, e)
             \/ \E noreply \in BOOLEAN, k \in 0 .. ASYN_NR : SendA(p, e, noreply, k)
        BY <2>2, PeersEndpoints
      <3>2. CASE SendRec(p, e)
        <4>1. SendRecDelivers(p, e) \/ SendRecBlocks(p, e) BY <3>2 DEF SendRec
        <4> QED BY <1>0, <2>0, <3>2, <4>1, SendRecDeliversAsync, SendsAsync, Zenon
      <3> QED BY <1>0, <2>0, <3>1, <3>2, SendsAsync, NotifiesAsync, SendAAsync, Zenon
    <2> QED BY <1>1, <2>1, <2>2 DEF Trap
  <1>2. ASSUME NEW p \in Proc, Signal(p) PROVE AsyncInv'
    BY <1>0, <1>2, NotifiesAsync, DeathAsync DEF Signal
  <1>3. ASSUME NEW p \in Proc, Lifecycle(p) PROVE AsyncInv'
    BY <1>0, <1>3, DeathAsync, OtherAsync, ForkAsync, Zenon DEF Lifecycle
  <1> QED BY <1>0, <1>1, <1>2, <1>3, NotifiesAsync, OtherAsync, Basics, Zenon DEF Next

(* As long as an asynchronous message between living processes is not      *)
(* delivered, mini_senda, mini_receive and clear_endpoint keep the sender's *)
(* table and MF_ASYNMSG of the destination, and no process sleeps in a     *)
(* plain RECEIVE that could take one, as long as do_fork has copied no     *)
(* queue and given no child an endpoint that an old message is for.        *)
THEOREM NoAsyncMessageLost ==
    Spec /\ [][~QueueForked]_vars /\ [][~EndpointReused]_vars => []AsyncKept
  <1>1. AsyncInv /\ UNCHANGED vars => AsyncInv'
    <2> SUFFICES ASSUME AsyncInv, UNCHANGED vars PROVE AsyncInv'
      OBVIOUS
    <2>1. UNCHANGED <<rts, misc, gen, getfrom, asyn, asynsize>> BY DEF vars, ipcvars, asynvars
    <2> QED BY <2>1 DEF AsyncInv, AsyncKept, AsyncNotLost, NoMissedAsync, Alive, PendingFor,
                        Endpoint, HasOne, TryOne, Suits
  <1>2. IPCInv /\ AsyncInv /\ [Next]_vars /\ [~EndpointReused]_vars => AsyncInv'
    BY <1>1, NextAsync
  <1>3. AsyncInv => AsyncKept BY DEF AsyncInv
  <1> QED BY <1>2, <1>3, InitAsync, IPCInvariant, PTL DEF Spec

=============================================================================
