----------------------------- MODULE IwpSession -----------------------------
(***************************************************************************)
(* One iwp link (src/llarp/iwp/session.cpp): the outbound Session "A" that *)
(* router A creates in TryEstablishTo, and the inbound Session "B" that    *)
(* router B creates when A's intro arrives.  They run the four-packet      *)
(* handshake (intro, intro-ack, session request, LIM exchange), then move  *)
(* messages with XMIT / DATA / ACKS / MACK / NACK, keep a replay filter,   *)
(* ping and close.  The UDP network loses, duplicates and reorders: the   *)
(* packets in flight to a side are a set; a receive takes the packet or    *)
(* leaves a copy for a later duplicate, and Lose drops one.                *)
(*                                                                         *)
(* Time.  The sub-second timers (DeliveryTimeout 500, ReceivalTimeout 800, *)
(* ReplayWindow 1200, flush and ack intervals) are not counted: since the  *)
(* network delay is unbounded, a pending message may time out at any      *)
(* moment.  Two facts of their ordering are kept as guards (see RxTimeout  *)
(* and ReplayDecay).  SessionAliveTimeout (25 s) is the unit of            *)
(* AliveTick; PingInterval is a fifth of it, so a Ready session may ping   *)
(* several times within one unit (SendKeepAlive is always enabled).        *)
(***************************************************************************)
EXTENDS Integers, FiniteSets

CONSTANTS
    MaxMsgs,           \* messages a session sends, its LIM included (ids 0..MaxMsgs-1)
    NumFrags,          \* fragments of every message
    MaxSendQueueSize,  \* cap on m_TXMsgs checked by SendMessageBuffer
    Senders            \* sides whose router sends link messages (SendTo)

ASSUME MaxMsgs \in Nat \ {0} /\ NumFrags \in Nat \ {0}
ASSUME MaxSendQueueSize \in Nat \ {0} /\ Senders \subseteq {"A", "B"}

Side == {"A", "B"}                 \* A: m_Inbound = false, B: m_Inbound = true
Peer(s) == IF s = "A" THEN "B" ELSE "A"
Ids == 0 .. MaxMsgs - 1
LIMId == 0                         \* each session's first message is its LIM
NoId == -1
Frags == 1 .. NumFrags
Keys == {"pub", "dh"}              \* shorthash(B's pubkey), then the DH result
TokenCmds == {"other", "PING", "CLOS"}
Live == {"pending", "authed"}      \* the link layer still holds the session

VARIABLES
    state,      \* m_State
    key,        \* m_SessionKey
    gotLIM,     \* the GotLIM handler: "outbound", "inbound" or "reneg"
    txid,       \* m_TXID
    tx,         \* ids of m_TXMsgs
    acked,      \* fragments of each m_TXMsgs entry acked by ACKS
    rx,         \* ids of m_RXMsgs
    got,        \* fragments of each m_RXMsgs entry received
    replay,     \* ids in m_ReplayFilter
    net,        \* packets in flight to each side
    inMap,      \* "none", "pending", "authed" or "removed" in the link layer
    heard,      \* m_LastRX moved since the last AliveTick
    expired,    \* TimedOut(now) holds
    tokenCmd,   \* what B's random token reads as in the data path
    delivered,  \* how often each peer message went up through HandleMessage
    outcome     \* completion handler result of each own message

vars == <<state, key, gotLIM, txid, tx, acked, rx, got, replay, net, inMap,
          heard, expired, tokenCmd, delivered, outcome>>
timeVars == <<heard, expired>>

Pkt(c, k, id, fs, is) == [cmd |-> c, key |-> k, id |-> id, frags |-> fs, ids |-> is]
Ctl(c, k) == Pkt(c, k, NoId, {}, {})
XMIT(k, id) == Pkt("XMIT", k, id, {}, {})
DATA(k, id, fs) == {Pkt("DATA", k, id, {f}, {}) : f \in fs}
MACK(k, is) == Pkt("MACK", k, NoId, {}, is)

\* Every packet a session can put on the wire.
Packets ==
    {Ctl(c, k) : c \in {"intro", "introack", "sessreq", "PING", "CLOS"}, k \in Keys}
    \cup {Pkt(c, k, i, {}, {}) : c \in {"XMIT", "NACK"}, k \in Keys, i \in Ids}
    \cup {Pkt("DATA", k, i, {f}, {}) : k \in Keys, i \in Ids, f \in Frags}
    \cup {Pkt("ACKS", k, i, fs, {}) : k \in Keys, i \in Ids, fs \in SUBSET Frags}
    \cup {MACK(k, is) : k \in Keys, is \in SUBSET Ids \ {{}}}

\* Send_LL of the packets P.
Emit(s, P) == net' = [net EXCEPT ![Peer(s)] = @ \cup P]

\* Receive the packet p and send the packets P.  The network either hands
\* over its only copy or keeps one for a later duplicate.
Reply(s, p, P) ==
    \E rest \in {net[s] \ {p}, net[s]} :
        net' = [net EXCEPT ![s] = rest, ![Peer(s)] = @ \cup P]

\* m_LastRX = now: TimedOut turns false in LinkIntro and Ready.
Hear(s) ==
    /\ heard' = [heard EXCEPT ![s] = TRUE]
    /\ expired' = [expired EXCEPT ![s] = @ /\ state[s] \notin {"Ready", "LinkIntro"}]

\* ILinkLayer::MapAddr for a link layer that holds this one session.
MapAddr(s) == IF inMap[s] = "pending" THEN "authed" ELSE inMap[s]

TimedOut(s) == expired[s]

\* Close: a session not yet Closed becomes Closed and sends CLOS.
Close(s) == state' = [state EXCEPT ![s] = "Closed"]
CloseSent(s) == IF state[s] = "Closed" THEN {} ELSE {Ctl("CLOS", key[s])}

\* SendMessageBuffer, and the packets it sends.  A full m_TXMsgs refuses
\* the message.  The chunk size test reads the moved-
\* from buffer, so only the XMIT goes out; Pump flushes the DATA later.
QueueFull(s) == Cardinality(tx[s]) >= MaxSendQueueSize
SendMessageBuffer(s) ==
    IF QueueFull(s)
    THEN UNCHANGED <<tx, txid>>
    ELSE /\ tx' = [tx EXCEPT ![s] = @ \cup {txid[s]}]
         /\ txid' = [txid EXCEPT ![s] = @ + 1]
MessageBufferSent(s) == IF QueueFull(s) THEN {} ELSE {XMIT(key[s], txid[s])}

\* Completed() on the messages `is`, then erased from m_TXMsgs.  The
\* handler of A's LIM (GotOutboundLIM) sets Ready and calls MapAddr.
Complete(s, is) ==
    /\ tx' = [tx EXCEPT ![s] = @ \ is]
    /\ acked' = [acked EXCEPT ![s] = [i \in Ids |-> IF i \in is THEN {} ELSE @[i]]]
    /\ outcome' = [outcome EXCEPT ![s] = [i \in Ids |-> IF i \in is THEN "ok" ELSE @[i]]]
    /\ IF s = "A" /\ LIMId \in is
       THEN /\ state' = [state EXCEPT ![s] = "Ready"]
            /\ inMap' = [inMap EXCEPT ![s] = MapAddr(s)]
       ELSE UNCHANGED <<state, inMap>>

-----------------------------------------------------------------------------
(* Handshake                                                               *)

Init ==
    /\ state = [s \in Side |-> "Initial"]
    /\ key = [s \in Side |-> "pub"]
    /\ gotLIM = [s \in Side |-> IF s = "A" THEN "outbound" ELSE "inbound"]
    /\ txid = [s \in Side |-> 0]
    /\ tx = [s \in Side |-> {}]
    /\ acked = [s \in Side |-> [i \in Ids |-> {}]]
    /\ rx = [s \in Side |-> {}]
    /\ got = [s \in Side |-> [i \in Ids |-> {}]]
    /\ replay = [s \in Side |-> {}]
    /\ net = [s \in Side |-> {}]
    /\ inMap = [s \in Side |-> IF s = "A" THEN "pending" ELSE "none"]
    /\ heard = [s \in Side |-> FALSE]
    /\ expired = [s \in Side |-> FALSE]
    /\ tokenCmd \in TokenCmds
    /\ delivered = [s \in Side |-> [i \in Ids |-> 0]]
    /\ outcome = [s \in Side |-> [i \in Ids |-> "none"]]

\* Start -> GenerateAndSendIntro: intro under the old key, then the DH key.
Start ==
    /\ state["A"] = "Initial" /\ inMap["A"] \in Live
    /\ Emit("A", {Ctl("intro", key["A"])})
    /\ state' = [state EXCEPT !["A"] = "Introduction"]
    /\ key' = [key EXCEPT !["A"] = "dh"]
    /\ UNCHANGED <<gotLIM, txid, tx, acked, rx, got, replay, inMap, heard,
                   expired, tokenCmd, delivered, outcome>>

\* RecvFrom creates B; Recv_LL in Initial decrypts and runs HandleGotIntro.
RecvIntro(p) ==
    /\ inMap["B"] = "none" /\ p \in net["B"]
    /\ p.cmd = "intro" /\ p.key = key["B"]
    /\ inMap' = [inMap EXCEPT !["B"] = "pending"]
    /\ key' = [key EXCEPT !["B"] = "dh"]
    /\ heard' = [heard EXCEPT !["B"] = TRUE]
    /\ expired' = [expired EXCEPT !["B"] = FALSE]
    /\ Reply("B", p, {Ctl("introack", "dh")})
    /\ state' = [state EXCEPT !["B"] = "Introduction"]
    /\ UNCHANGED <<gotLIM, txid, tx, acked, rx, got, replay, tokenCmd,
                   delivered, outcome>>

\* Recv_LL in Introduction on the outbound side: HandleGotIntroAck.
RecvIntroAck(p) ==
    /\ state["A"] = "Introduction" /\ inMap["A"] \in Live /\ p \in net["A"]
    /\ p.key = key["A"]
    /\ Hear("A")
    /\ Reply("A", p, {Ctl("sessreq", key["A"])})
    /\ state' = [state EXCEPT !["A"] = "LinkIntro"]
    /\ UNCHANGED <<key, gotLIM, txid, tx, acked, rx, got, replay, inMap,
                   tokenCmd, delivered, outcome>>

\* Variant: B turns Ready as soon as it has sent its LIM.
RecvSessionRequestReady(p) ==
    /\ state["B"] = "Introduction" /\ inMap["B"] \in Live /\ p \in net["B"]
    /\ p.key = key["B"] /\ p.cmd = "sessreq"
    /\ Hear("B")
    /\ state' = [state EXCEPT !["B"] = "Ready"]
    /\ SendMessageBuffer("B") /\ Reply("B", p, MessageBufferSent("B"))
    /\ UNCHANGED <<key, gotLIM, acked, rx, got, replay, inMap, tokenCmd,
                   delivered, outcome>>

\* Recv_LL in Introduction on the inbound side: HandleCreateSessionRequest
\* (the token matches only the session request), then SendOurLIM.
RecvSessionRequest(p) ==
    /\ state["B"] = "Introduction" /\ inMap["B"] \in Live /\ p \in net["B"]
    /\ p.key = key["B"] /\ p.cmd = "sessreq"
    /\ Hear("B")
    /\ state' = [state EXCEPT !["B"] = "LinkIntro"]
    /\ SendMessageBuffer("B") /\ Reply("B", p, MessageBufferSent("B"))
    /\ UNCHANGED <<key, gotLIM, acked, rx, got, replay, inMap, tokenCmd,
                   delivered, outcome>>

-----------------------------------------------------------------------------
(* Data path: Recv_LL in LinkIntro, Ready or Closed -> HandleSessionData ->  *)
(* DecryptWorker (a packet under another key fails the HMAC and is dropped) *)
(* -> HandlePlaintext, which dispatches on the command byte and ends with   *)
(* SendMACK.  The SendMACK of a step is folded into the step's Emit.        *)

DataPath(s, p) ==
    /\ inMap[s] \in Live /\ state[s] \in {"LinkIntro", "Ready", "Closed"}
    /\ p \in net[s] /\ p.key = key[s]

\* HandleXMIT: a replayed id is MACKed; a new id opens an m_RXMsgs entry.
\* Its payload is not read: only an XMIT of exactly the header size feeds
\* HandleData(0, ...), and every XMIT carries a first chunk.
RecvXMIT(s, p) ==
    /\ DataPath(s, p) /\ p.cmd = "XMIT"
    /\ Hear(s)
    /\ \/ /\ p.id \in replay[s]
          /\ Reply(s, p, {MACK(key[s], {p.id})})
          /\ UNCHANGED rx
       \/ /\ p.id \notin replay[s]
          /\ rx' = [rx EXCEPT ![s] = @ \cup {p.id}]
          /\ Reply(s, p, {})
    /\ UNCHANGED <<state, key, gotLIM, txid, tx, acked, got, replay, inMap,
                   tokenCmd, delivered, outcome>>

\* HandleDATA for an id with no m_RXMsgs entry: NACK it, or MACK a replay.
RecvDATAUnknown(s, p) ==
    /\ DataPath(s, p) /\ p.cmd = "DATA" /\ p.id \notin rx[s]
    /\ Hear(s)
    /\ Reply(s, p, {IF p.id \in replay[s] THEN MACK(key[s], {p.id})
                ELSE Pkt("NACK", key[s], p.id, {}, {})})
    /\ UNCHANGED <<state, key, gotLIM, txid, tx, acked, rx, got, replay, inMap,
                   tokenCmd, delivered, outcome>>

\* HandleDATA that leaves the message incomplete.
RecvDATAPartial(s, p) ==
    /\ DataPath(s, p) /\ p.cmd = "DATA" /\ p.id \in rx[s]
    /\ got[s][p.id] \cup p.frags # Frags
    /\ Hear(s)
    /\ got' = [got EXCEPT ![s][p.id] = @ \cup p.frags]
    /\ Reply(s, p, {}) /\ UNCHANGED <<state, key, gotLIM, txid, tx, acked, rx,
                                      replay, inMap, tokenCmd, delivered,
                                      outcome>>

\* Variant: the completed message keeps its m_RXMsgs entry.
RecvDATACompleteNoErase(s, p) ==
    /\ DataPath(s, p) /\ p.cmd = "DATA" /\ p.id \in rx[s]
    /\ got[s][p.id] \cup p.frags = Frags
    /\ Hear(s)
    /\ rx' = rx
    /\ got' = [got EXCEPT ![s][p.id] = @ \cup p.frags]
    /\ replay' = [replay EXCEPT ![s] = @ \cup {p.id}]
    /\ delivered' = [delivered EXCEPT ![s][p.id] = IF @ < 2 THEN @ + 1 ELSE 2]
    /\ \/ /\ p.id # LIMId \/ gotLIM[s] = "reneg"
          /\ Reply(s, p, {MACK(key[s], {p.id})})
          /\ UNCHANGED <<state, gotLIM, inMap, tx, txid>>
       \/ /\ p.id = LIMId /\ gotLIM[s] = "inbound"
          /\ state' = [state EXCEPT ![s] = "Ready"]
          /\ gotLIM' = [gotLIM EXCEPT ![s] = "reneg"]
          /\ inMap' = [inMap EXCEPT ![s] = MapAddr(s)]
          /\ Reply(s, p, {MACK(key[s], {p.id})})
          /\ UNCHANGED <<tx, txid>>
       \/ /\ p.id = LIMId /\ gotLIM[s] = "outbound"
          /\ gotLIM' = [gotLIM EXCEPT ![s] = "reneg"]
          /\ SendMessageBuffer(s)
          /\ Reply(s, p, {MACK(key[s], {p.id})} \cup MessageBufferSent(s))
          /\ UNCHANGED <<state, inMap>>
    /\ UNCHANGED <<key, acked, tokenCmd, outcome>>

\* HandleDATA that completes the message: HandleMessage, replay filter,
\* m_SendMACKs, erase.  A LIM goes to the GotLIM handler of the session:
\* GotInboundLIM sets Ready and calls MapAddr; GotOutboundLIM answers with
\* our LIM (SendOurLIM with the Ready handler); GotRenegLIM only informs
\* the router.
RecvDATAComplete(s, p) ==
    /\ DataPath(s, p) /\ p.cmd = "DATA" /\ p.id \in rx[s]
    /\ got[s][p.id] \cup p.frags = Frags
    /\ Hear(s)
    /\ rx' = [rx EXCEPT ![s] = @ \ {p.id}]
    /\ got' = [got EXCEPT ![s][p.id] = {}]
    /\ replay' = [replay EXCEPT ![s] = @ \cup {p.id}]
    /\ delivered' = [delivered EXCEPT ![s][p.id] = IF @ < 2 THEN @ + 1 ELSE 2]
    /\ \/ /\ p.id # LIMId \/ gotLIM[s] = "reneg"
          /\ Reply(s, p, {MACK(key[s], {p.id})})
          /\ UNCHANGED <<state, gotLIM, inMap, tx, txid>>
       \/ /\ p.id = LIMId /\ gotLIM[s] = "inbound"
          /\ state' = [state EXCEPT ![s] = "Ready"]
          /\ gotLIM' = [gotLIM EXCEPT ![s] = "reneg"]
          /\ inMap' = [inMap EXCEPT ![s] = MapAddr(s)]
          /\ Reply(s, p, {MACK(key[s], {p.id})})
          /\ UNCHANGED <<tx, txid>>
       \/ /\ p.id = LIMId /\ gotLIM[s] = "outbound"
          /\ gotLIM' = [gotLIM EXCEPT ![s] = "reneg"]
          /\ SendMessageBuffer(s)
          /\ Reply(s, p, {MACK(key[s], {p.id})} \cup MessageBufferSent(s))
          /\ UNCHANGED <<state, inMap>>
    /\ UNCHANGED <<key, acked, tokenCmd, outcome>>

\* Variant: HandleACKS that completes on any acked bit.
RecvACKSAnyBit(s, p) ==
    /\ DataPath(s, p) /\ p.cmd = "ACKS"
    /\ Hear(s)
    /\ \/ /\ p.id \notin tx[s]
          /\ Reply(s, p, {}) /\ UNCHANGED <<tx, acked, outcome, state, inMap>>
       \/ /\ p.id \in tx[s] /\ p.frags # {}
          /\ Complete(s, {p.id})
          /\ Reply(s, p, {})
    /\ UNCHANGED <<key, gotLIM, txid, rx, got, replay, tokenCmd, delivered>>

\* HandleACKS: merge the ack bits; all acked completes, else FlushUnAcked.
RecvACKS(s, p) ==
    /\ DataPath(s, p) /\ p.cmd = "ACKS"
    /\ Hear(s)
    /\ \/ /\ p.id \notin tx[s]
          /\ Reply(s, p, {}) /\ UNCHANGED <<tx, acked, outcome, state, inMap>>
       \/ /\ p.id \in tx[s] /\ acked[s][p.id] \cup p.frags = Frags
          /\ Complete(s, {p.id})
          /\ Reply(s, p, {})
       \/ /\ p.id \in tx[s] /\ acked[s][p.id] \cup p.frags # Frags
          /\ acked' = [acked EXCEPT ![s][p.id] = @ \cup p.frags]
          /\ Reply(s, p, DATA(key[s], p.id, Frags \ (acked[s][p.id] \cup p.frags)))
          /\ UNCHANGED <<tx, outcome, state, inMap>>
    /\ UNCHANGED <<key, gotLIM, txid, rx, got, replay, tokenCmd, delivered>>

\* Variant: HandleMACK that completes every pending message.
RecvMACKAll(s, p) ==
    /\ DataPath(s, p) /\ p.cmd = "MACK"
    /\ Complete(s, tx[s])
    /\ Reply(s, p, {}) /\ UNCHANGED <<key, gotLIM, txid, rx, got, replay,
                                      heard, expired, tokenCmd, delivered>>

\* HandleMACK: every listed id still in m_TXMsgs completes.  No m_LastRX.
RecvMACK(s, p) ==
    /\ DataPath(s, p) /\ p.cmd = "MACK"
    /\ Complete(s, p.ids \cap tx[s])
    /\ Reply(s, p, {}) /\ UNCHANGED <<key, gotLIM, txid, rx, got, replay,
                                      heard, expired, tokenCmd, delivered>>

\* HandleNACK: resend the XMIT of a message still pending.
RecvNACK(s, p) ==
    /\ DataPath(s, p) /\ p.cmd = "NACK"
    /\ Hear(s)
    /\ Reply(s, p, IF p.id \in tx[s] THEN {XMIT(key[s], p.id)} ELSE {})
    /\ UNCHANGED <<state, key, gotLIM, txid, tx, acked, rx, got, replay, inMap,
                   tokenCmd, delivered, outcome>>

\* HandlePING only moves m_LastRX.
RecvPING(s, p) ==
    /\ DataPath(s, p) /\ p.cmd = "PING"
    /\ Hear(s)
    /\ Reply(s, p, {}) /\ UNCHANGED <<state, key, gotLIM, txid, tx, acked, rx,
                                      got, replay, inMap, tokenCmd, delivered,
                                      outcome>>

\* HandleCLOS -> Close.
RecvCLOS(s, p) ==
    /\ DataPath(s, p) /\ p.cmd = "CLOS"
    /\ Close(s) /\ Reply(s, p, CloseSent(s))
    /\ UNCHANGED <<key, gotLIM, txid, tx, acked, rx, got, replay, inMap, heard,
                   expired, tokenCmd, delivered, outcome>>

\* A late copy of the intro-ack or session request passes the HMAC (same
\* key); its version and command bytes are the first two bytes of B's
\* random token.  Usually the version check drops it; it may read as PING
\* (or another command that moves m_LastRX) or as CLOS.
RecvStaleHandshake(s, p) ==
    /\ DataPath(s, p) /\ p.cmd \in {"introack", "sessreq"}
    /\ \/ tokenCmd = "other"
          /\ Reply(s, p, {}) /\ UNCHANGED <<state, heard, expired>>
       \/ tokenCmd = "PING"
          /\ Hear(s) /\ Reply(s, p, {}) /\ UNCHANGED state
       \/ tokenCmd = "CLOS"
          /\ Close(s) /\ Reply(s, p, CloseSent(s)) /\ UNCHANGED <<heard, expired>>
    /\ UNCHANGED <<key, gotLIM, txid, tx, acked, rx, got, replay, inMap,
                   tokenCmd, delivered, outcome>>

-----------------------------------------------------------------------------
(* Session::Pump, reached from ILinkLayer::Pump and from HandlePlaintext;   *)
(* ShouldSendACKS and ShouldFlush are taken as true at any moment.          *)

\* InboundMessage::SendACKS: the bits of the fragments received so far
\* (an ACKS without bits would only repeat FlushUnAcked).
SendACKS(s, id) ==
    /\ inMap[s] \in Live /\ state[s] \in {"LinkIntro", "Ready"} /\ id \in rx[s]
    /\ got[s][id] # {}
    /\ Emit(s, {Pkt("ACKS", key[s], id, got[s][id], {})})
    /\ UNCHANGED <<state, key, gotLIM, txid, tx, acked, rx, got, replay, inMap,
                   heard, expired, tokenCmd, delivered, outcome>>

\* Variant: fragments counted from 0.
FlushUnAckedFromZero(s, id) ==
    /\ inMap[s] \in Live /\ state[s] \in {"LinkIntro", "Ready"} /\ id \in tx[s]
    /\ Emit(s, DATA(key[s], id, (0 .. NumFrags - 1) \ acked[s][id]))
    /\ UNCHANGED <<state, key, gotLIM, txid, tx, acked, rx, got, replay, inMap,
                   heard, expired, tokenCmd, delivered, outcome>>

\* OutboundMessage::FlushUnAcked: a DATA packet per unacked fragment.
FlushUnAcked(s, id) ==
    /\ inMap[s] \in Live /\ state[s] \in {"LinkIntro", "Ready"} /\ id \in tx[s]
    /\ Emit(s, DATA(key[s], id, Frags \ acked[s][id]))
    /\ UNCHANGED <<state, key, gotLIM, txid, tx, acked, rx, got, replay, inMap,
                   heard, expired, tokenCmd, delivered, outcome>>

\* ShouldPing -> SendKeepAlive.
SendKeepAlive(s) ==
    /\ inMap[s] \in Live /\ state[s] = "Ready"
    /\ Emit(s, {Ctl("PING", key[s])})
    /\ UNCHANGED <<state, key, gotLIM, txid, tx, acked, rx, got, replay, inMap,
                   heard, expired, tokenCmd, delivered, outcome>>

\* The router sends a link message over an authed session (ILinkLayer::
\* SendTo -> SendMessageBuffer); SendTo does not look at the state.
SendTo(s) ==
    /\ s \in Senders /\ inMap[s] = "authed" /\ txid[s] < MaxMsgs
    /\ SendMessageBuffer(s) /\ Emit(s, MessageBufferSent(s))
    /\ UNCHANGED <<state, key, gotLIM, acked, rx, got, replay, inMap, heard,
                   expired, tokenCmd, delivered, outcome>>

-----------------------------------------------------------------------------
(* Session::Tick, called by ILinkLayer::Tick for every session it holds.    *)

\* A pending message times out: InformTimeout (the LIM handler ignores a
\* failure) and erase.
TxTimeout(s, id) ==
    /\ inMap[s] \in Live /\ id \in tx[s]
    /\ tx' = [tx EXCEPT ![s] = @ \ {id}]
    /\ acked' = [acked EXCEPT ![s][id] = {}]
    /\ outcome' = [outcome EXCEPT ![s][id] = "dropped"]
    /\ UNCHANGED <<state, key, gotLIM, txid, rx, got, replay, net, inMap,
                   timeVars, tokenCmd, delivered>>

\* An incomplete inbound message times out and its id enters the replay
\* filter.  ReceivalTimeout (800) exceeds DeliveryTimeout (500) and the
\* entry is created after the sender's, so the sender has given up first.
RxTimeout(s, id) ==
    /\ inMap[s] \in Live /\ id \in rx[s] /\ id \notin tx[Peer(s)]
    /\ rx' = [rx EXCEPT ![s] = @ \ {id}]
    /\ got' = [got EXCEPT ![s][id] = {}]
    /\ replay' = [replay EXCEPT ![s] = @ \cup {id}]
    /\ UNCHANGED <<state, key, gotLIM, txid, tx, acked, net, inMap, timeVars,
                   tokenCmd, delivered, outcome>>

\* The replay window decays.  ReplayWindow (1200) outlasts the sender's
\* DeliveryTimeout; the model also takes the network delay to be shorter
\* than the rest of the window, so no XMIT or DATA of the id is in flight.
ReplayDecay(s, id) ==
    /\ inMap[s] \in Live /\ id \in replay[s] /\ id \notin tx[Peer(s)]
    /\ \A p \in net[s] : p.cmd \in {"XMIT", "DATA"} => p.id # id
    /\ replay' = [replay EXCEPT ![s] = @ \ {id}]
    /\ UNCHANGED <<state, key, gotLIM, txid, tx, acked, rx, got, net, inMap,
                   timeVars, tokenCmd, delivered, outcome>>

-----------------------------------------------------------------------------
(* ILinkLayer::Pump removes timed-out sessions; time; the network.          *)

\* An authed session that timed out is closed and erased (SessionClosed).
AuthedTimeout(s) ==
    /\ inMap[s] = "authed" /\ TimedOut(s)
    /\ Close(s) /\ Emit(s, CloseSent(s))
    /\ inMap' = [inMap EXCEPT ![s] = "removed"]
    /\ UNCHANGED <<key, gotLIM, txid, tx, acked, rx, got, replay, heard,
                   expired, tokenCmd, delivered, outcome>>

\* A pending session that timed out is erased without Close (HandleTimeout).
PendingTimeout(s) ==
    /\ inMap[s] = "pending" /\ TimedOut(s)
    /\ inMap' = [inMap EXCEPT ![s] = "removed"]
    /\ UNCHANGED <<state, key, gotLIM, txid, tx, acked, rx, got, replay, net,
                   timeVars, tokenCmd, delivered, outcome>>

\* Variant: TimedOut never holds for a session in LinkIntro.
AliveTickSparesLinkIntro ==
    /\ \E s \in Side : inMap[s] \in Live
    /\ expired' = [s \in Side |->
                      IF inMap[s] \notin Live THEN expired[s]
                      ELSE state[s] \notin {"Ready", "LinkIntro"}
                           \/ (~heard[s] /\ state[s] = "Ready")]
    /\ heard' = [s \in Side |-> heard[s] /\ inMap[s] \notin Live]
    /\ UNCHANGED <<state, key, gotLIM, txid, tx, acked, rx, got, replay, net,
                   inMap, tokenCmd, delivered, outcome>>

\* SessionAliveTimeout passes.  Session::TimedOut then holds for a session
\* in LinkIntro or Ready that heard nothing since the last AliveTick, and
\* for a session in any other state (now - m_CreatedAt is past the timeout).
AliveTick ==
    /\ \E s \in Side : inMap[s] \in Live
    /\ expired' = [s \in Side |->
                      IF inMap[s] \notin Live THEN expired[s]
                      ELSE state[s] \notin {"Ready", "LinkIntro"} \/ ~heard[s]]
    /\ heard' = [s \in Side |-> heard[s] /\ inMap[s] \notin Live]
    /\ UNCHANGED <<state, key, gotLIM, txid, tx, acked, rx, got, replay, net,
                   inMap, tokenCmd, delivered, outcome>>

Lose(s, p) ==
    /\ p \in net[s]
    /\ net' = [net EXCEPT ![s] = @ \ {p}]
    /\ UNCHANGED <<state, key, gotLIM, txid, tx, acked, rx, got, replay, inMap,
                   timeVars, tokenCmd, delivered, outcome>>

-----------------------------------------------------------------------------

Recv(s) ==
    \E p \in net[s] :
        \/ s = "B" /\ RecvIntro(p)
        \/ s = "A" /\ RecvIntroAck(p)
        \/ s = "B" /\ RecvSessionRequest(p)
        \/ RecvXMIT(s, p) \/ RecvDATAUnknown(s, p) \/ RecvDATAPartial(s, p)
        \/ RecvDATAComplete(s, p) \/ RecvACKS(s, p) \/ RecvMACK(s, p)
        \/ RecvNACK(s, p) \/ RecvPING(s, p) \/ RecvCLOS(s, p)
        \/ RecvStaleHandshake(s, p)

Pump(s) ==
    \/ \E id \in Ids : SendACKS(s, id) \/ FlushUnAcked(s, id)
    \/ SendKeepAlive(s)

Tick(s) == \E id \in Ids : TxTimeout(s, id) \/ RxTimeout(s, id) \/ ReplayDecay(s, id)

\* Both sessions are gone and nothing is in flight: the link is over.
Terminated ==
    /\ \A s \in Side : inMap[s] \notin Live /\ net[s] = {}
    /\ UNCHANGED vars

Next ==
    \/ Start
    \/ Terminated
    \/ AliveTick
    \/ \E s \in Side :
        \/ Recv(s) \/ Pump(s) \/ SendTo(s) \/ Tick(s)
        \/ AuthedTimeout(s) \/ PendingTimeout(s)
        \/ \E p \in net[s] : Lose(s, p)

\* Receiving, timers and the link layer's pumps run whenever they can; the
\* clock advances; no packet stays in flight (is duplicated) forever.
\* SendTo is not forced.
Fairness ==
    /\ WF_vars(AliveTick)
    /\ \A s \in Side, p \in Packets : WF_vars(Lose(s, p))
    /\ \A s \in Side :
        /\ SF_vars(Recv(s))
        /\ WF_vars(Pump(s)) /\ WF_vars(Tick(s))
        /\ WF_vars(AuthedTimeout(s)) /\ WF_vars(PendingTimeout(s))

Spec == Init /\ [][Next]_vars /\ Fairness

-----------------------------------------------------------------------------

TypeOK ==
    /\ state \in [Side -> {"Initial", "Introduction", "LinkIntro", "Ready", "Closed"}]
    /\ key \in [Side -> Keys]
    /\ gotLIM \in [Side -> {"outbound", "inbound", "reneg"}]
    /\ txid \in [Side -> 0 .. MaxMsgs]
    /\ tx \in [Side -> SUBSET Ids] /\ rx \in [Side -> SUBSET Ids]
    /\ replay \in [Side -> SUBSET Ids]
    /\ acked \in [Side -> [Ids -> SUBSET Frags]]
    /\ got \in [Side -> [Ids -> SUBSET Frags]]
    /\ net \in [Side -> SUBSET Packets]
    /\ inMap \in [Side -> {"none", "pending", "authed", "removed"}]
    /\ heard \in [Side -> BOOLEAN] /\ expired \in [Side -> BOOLEAN]
    /\ tokenCmd \in TokenCmds
    /\ delivered \in [Side -> [Ids -> 0 .. 2]]
    /\ outcome \in [Side -> [Ids -> {"none", "ok", "dropped"}]]

\* The replay filter (m_ReplayFilter consulted in HandleXMIT and HandleDATA)
\* keeps a message from reaching HandleMessage twice, however the network
\* duplicates XMIT and DATA packets.
NoDuplicateDelivery == \A s \in Side, id \in Ids : delivered[s][id] <= 1

\* A completion handler reports success (MACK in HandleMACK, or all bits in
\* HandleACKS) only for a message the peer has delivered: an ACKS never
\* reports a fragment set the receiver did not complete.
SuccessImpliesDelivered ==
    \A s \in Side, id \in Ids : outcome[s][id] = "ok" => delivered[Peer(s)][id] >= 1

\* A session is Ready (GotInboundLIM on B, the LIM handler on A) only once
\* both LIMs have been delivered: each side has authenticated the other.
LIMsExchanged ==
    \A s \in Side : state[s] = "Ready" =>
        delivered[s][LIMId] >= 1 /\ delivered[Peer(s)][LIMId] >= 1

\* Closed is terminal (spec 4.1): once Close has run, no handler brings the
\* session back.  The LIM completion handler of GotOutboundLIM and
\* GotInboundLIM both set m_State = Ready without looking at the state.
ClosedIsTerminal ==
    [][\A s \in Side : state[s] = "Closed" => state'[s] = "Closed"]_vars

\* A session in LinkIntro ends up Ready, Closed, or dropped by the link
\* layer: the handshake does not hang half-open.
HandshakeResolves ==
    \A s \in Side :
        state[s] = "LinkIntro" ~> (state[s] \in {"Ready", "Closed"} \/ inMap[s] = "removed")
=============================================================================
