--------------------------------- MODULE Link ---------------------------------
(***************************************************************************)
(* One forwarding link: the client half in forward.rs (ForwardSink) and the   *)
(* session of the gateway that serves it (backend, ingest/mod.rs).  A          *)
(* connection the client has given up lives on at the gateway, which may still *)
(* store what it was sent.                                                     *)
(*                                                                         *)
(* The pipeline above the link (module Batcher) is reduced to `todo`, the       *)
(* frames it has yet to get rid of, oldest first, and to what it does with an   *)
(* error: it closes the sink and, unless the far end asked for it, backs off.   *)
(* CATALOGUE_STATUS, which is not answered, is in module Assign.               *)
(***************************************************************************)
EXTENDS Integers, Sequences, Functions

CONSTANTS
    BatchMax,   \* records that fit one BATCH
    Poison,     \* frames PostgreSQL refuses as rows (SQLSTATE class 22 or 23)
    RawSerial,  \* Forward.raw_serial: v2 cannot carry what goes here
    Blobs,      \* catalogues a connection may have to fetch
    SeqMod,     \* where seq wraps; 2^32 in the code
    Conns,      \* connections alive at once, abandoned ones included
    MaxFrames,  \* bound: frames
    MaxFaults   \* bound: timeouts, refusals, failures and reassignments

ASSUME LinkAssumption ==
    /\ BatchMax \in Nat \ {0} /\ SeqMod \in Nat \ {0} /\ RawSerial \in BOOLEAN
    /\ Blobs \in Nat /\ MaxFrames \in Nat /\ MaxFaults \in Nat
    /\ Poison \subseteq 1..MaxFrames /\ 0 \notin Conns

VARIABLES
    pc,       \* what the client waits for
    conn,     \* its connection, or 0
    version,  \* ForwardSink.version
    seq,      \* ForwardSink.seq
    want,     \* the catalogue being fetched
    chunk,    \* the frames of the batch in flight
    todo,     \* frames still to be delivered, oldest first
    dead,     \* frames in the dead letter file
    backoff,  \* the last session ended as an outage
    heard,    \* the client has read a CLOSE on this connection
    next,     \* the frame offered next
    gw,       \* the newest version the gateway speaks
    link,     \* the connections: their state at the gateway, and the two streams
    stored,   \* frames the gateway has stored
    faults    \* faults so far

client == <<pc, conn, version, seq, want, chunk, todo, dead, backoff, heard, next>>
vars == <<client, gw, link, stored, faults>>

Fault == faults < MaxFaults /\ faults' = faults + 1

Free == [st |-> "closed", up |-> <<>>, down |-> <<>>, owes |-> <<>>]

Init ==
    /\ pc = "off" /\ conn = 0 /\ version = 3 /\ seq = 0 /\ want = 0
    /\ chunk = <<>> /\ todo = <<>> /\ dead = {} /\ backoff = FALSE /\ heard = FALSE
    /\ next = 1 /\ gw \in {2, 3}
    /\ link = [k \in Conns |-> Free]
    /\ stored = {} /\ faults = 0

(* A frame reaches the head of the pipeline. *)
Offer ==
    /\ next <= MaxFrames
    /\ todo' = Append(todo, next) /\ next' = next + 1
    /\ UNCHANGED <<pc, conn, version, seq, want, chunk, dead, backoff, heard, gw, link, stored, faults>>
-----------------------------------------------------------------------------
(* The client. *)

Send(m) == link' = [link EXCEPT ![conn].up = IF link[conn].st = "closed" THEN @ ELSE Append(@, m)]
Replies == link[conn].down
Got(type) == conn # 0 /\ Replies # <<>> /\ Head(Replies).type = type
Read == link' = [link EXCEPT ![conn].down = Tail(@)]

(* The session is over: close, and the next connect, after the backoff or not. *)
HangUp(outage) ==
    /\ pc' = "off" /\ conn' = 0 /\ want' = 0 /\ chunk' = <<>> /\ backoff' = outage
    /\ link' = [link EXCEPT ![conn].down = <<>>]

(* connect, handshake: a new connection, and the HELLO. *)
Dial ==
    /\ pc = "off"
    /\ \E k \in Conns :
         /\ link[k].st = "closed"
         /\ link' = [link EXCEPT ![k] = [Free EXCEPT !.st = "new", !.up = <<[type |-> "hello", v |-> version]>>]]
         /\ conn' = k
    /\ pc' = "hello" /\ heard' = FALSE
    /\ UNCHANGED <<version, seq, want, chunk, todo, dead, backoff, next, gw, stored, faults>>

NeverFallBack(m) == FALSE
MayFallBack(m) == m.status = "version" /\ m.v = 2 /\ version = 3 /\ ~RawSerial

(* connect on the HELLO_ACK: on to the catalogues, or a second handshake with   *)
(* v2 for good, or an error.                                                   *)
HelloReply ==
    /\ pc = "hello" /\ Got("helloack")
    /\ LET m == Head(Replies) IN
       \/ /\ m.status = "ok"
          /\ pc' = (IF version = 3 THEN "pull" ELSE "idle") /\ want' = 1
          /\ Read /\ UNCHANGED <<conn, version, chunk, backoff>>
       \/ /\ MayFallBack(m)
          /\ version' = 2 /\ HangUp(backoff)
       \/ /\ m.status # "ok" /\ ~MayFallBack(m)
          /\ HangUp(TRUE) /\ UNCHANGED version
    /\ UNCHANGED <<seq, todo, dead, heard, next, gw, stored, faults>>

(* pull: take the next catalogue from the state directory, or ask for it. *)
Pull ==
    /\ pc = "pull" /\ want <= Blobs
    /\ \/ want' = want + 1 /\ UNCHANGED <<pc, link>>
       \/ pc' = "fetch" /\ Send([type |-> "get", blob |-> want]) /\ UNCHANGED want
    /\ UNCHANGED <<conn, version, seq, chunk, todo, dead, backoff, heard, next, gw, stored, faults>>

(* recv_catalog: the reply to this fetch, or to one given up before.  Anything  *)
(* else, a CLOSE too, is a catalogue that cannot be had.                       *)
FetchReply ==
    /\ pc = "fetch" /\ Replies # <<>>
    /\ LET m == Head(Replies) IN
       /\ IF m.type = "catalogue" /\ m.blob # want
          THEN UNCHANGED <<pc, want>>
          ELSE pc' = "pull" /\ want' = want + 1
       /\ heard' = (heard \/ m.type = "close")
    /\ Read
    /\ UNCHANGED <<conn, version, seq, chunk, todo, dead, backoff, next, gw, stored, faults>>

Eof == link[conn].st = "closed" /\ Replies = <<>>

(* fetch: it times out, or the connection has ended; the session goes on. *)
FetchFails ==
    /\ pc = "fetch"
    /\ (IF Eof THEN UNCHANGED faults ELSE Fault)
    /\ pc' = "pull" /\ want' = want + 1
    /\ UNCHANGED <<conn, version, seq, chunk, todo, dead, backoff, heard, next, gw, link, stored>>

(* connect ends with the status, which may find the connection gone. *)
PullDone ==
    /\ pc = "pull" /\ want > Blobs
    /\ \/ pc' = "idle" /\ want' = 0 /\ UNCHANGED <<conn, chunk, backoff, link>>
       \/ Eof /\ HangUp(TRUE)
    /\ UNCHANGED <<version, seq, todo, dead, heard, next, gw, stored, faults>>

UnwrappedSeq == seq + 1
NextSeq == (seq + 1) % SeqMod

(* send_chunk: as many frames from the front as fit. *)
SendChunk ==
    /\ pc = "idle" /\ todo # <<>>
    /\ \E n \in 1..BatchMax :
         /\ n <= Len(todo)
         /\ chunk' = SubSeq(todo, 1, n)
    /\ seq' = NextSeq
    /\ Send([type |-> "batch", seq |-> seq', frames |-> chunk'])
    /\ pc' = "ack"
    /\ UNCHANGED <<conn, version, want, todo, dead, backoff, heard, next, gw, stored, faults>>

(* keep_alive, when there is nothing to write. *)
KeepAlive ==
    /\ pc = "idle" /\ todo = <<>>
    /\ Send([type |-> "ping"]) /\ pc' = "pong"
    /\ UNCHANGED <<conn, version, seq, want, chunk, todo, dead, backoff, heard, next, gw, stored, faults>>

(* recv: a CATALOGUE that comes now answers a fetch that gave up. *)
SkipCatalogue ==
    /\ pc \in {"hello", "ack", "pong"} /\ Got("catalogue")
    /\ Read
    /\ UNCHANGED <<client, gw, stored, faults>>

Unread(m) == m.seq = 0 /\ m.status = "malformed"
OkUnlessMalformed(m) == m.status # "malformed"
IsOk(m) == m.status = "ok"

(* write_batch goes on behind the chunk. *)
PassChunk == todo' = SubSeq(todo, Len(chunk) + 1, Len(todo))

LetGo == UNCHANGED dead
Quarantine == dead' = dead \cup Range(chunk)

(* send_chunk on the ACK. *)
AckReply ==
    /\ pc = "ack" /\ Got("ack")
    /\ LET m == Head(Replies)
           mine == m.seq = seq \/ Unread(m)
           taken == pc' = "idle" /\ chunk' = <<>> /\ PassChunk /\ Read /\ UNCHANGED <<conn, want, backoff>>
       IN \/ mine /\ IsOk(m) /\ taken /\ UNCHANGED <<dead, faults>>
          \/ mine /\ m.status = "malformed" /\ taken /\ Quarantine /\ UNCHANGED faults
          \/ mine /\ m.status = "malformed" /\ Fault /\ HangUp(TRUE) /\ UNCHANGED <<dead, todo>>
          \/ /\ ~mine \/ (~IsOk(m) /\ m.status # "malformed")
             /\ HangUp(TRUE) /\ UNCHANGED <<dead, todo, faults>>
    /\ UNCHANGED <<version, seq, heard, next, gw, stored>>

Pong ==
    /\ pc = "pong" /\ Got("pong")
    /\ Read /\ pc' = "idle"
    /\ UNCHANGED <<conn, version, seq, want, chunk, todo, dead, backoff, heard, next, gw, stored, faults>>

(* A CLOSE where a reply was due: not an outage. *)
Closed ==
    /\ pc \in {"hello", "ack", "pong"} /\ Got("close")
    /\ HangUp(FALSE) /\ heard' = TRUE
    /\ UNCHANGED <<version, seq, todo, dead, next, gw, stored, faults>>

(* A reply that does not come in time, or the end of the stream. *)
LostKeepsConn ==
    /\ pc \in {"hello", "ack", "pong"}
    /\ (IF Eof THEN UNCHANGED faults /\ HangUp(TRUE)
        ELSE Fault /\ pc' = "idle" /\ chunk' = <<>> /\ UNCHANGED <<conn, want, backoff, link>>)
    /\ UNCHANGED <<version, seq, todo, dead, heard, next, gw, stored>>
Lost ==
    /\ pc \in {"hello", "ack", "pong"}
    /\ (IF Eof THEN UNCHANGED faults ELSE Fault)
    /\ HangUp(TRUE)
    /\ UNCHANGED <<version, seq, todo, dead, heard, next, gw, stored>>
-----------------------------------------------------------------------------
(* The gateway's session on connection k, which answers one message at a time. *)

Asked(k, type) == link[k].up # <<>> /\ Head(link[k].up).type = type
Answer(k, st, m) ==
    link' = [link EXCEPT ![k].st = st, ![k].up = Tail(@),
                         ![k].down = IF conn = k THEN Append(@, m) ELSE @]

(* hello: a version the gateway does not speak, a refusal, or a session. *)
ServeHello(k) ==
    /\ link[k].st = "new" /\ Asked(k, "hello")
    /\ \/ /\ Head(link[k].up).v > gw
          /\ Answer(k, "closed", [type |-> "helloack", status |-> "version", v |-> gw])
          /\ UNCHANGED faults
       \/ /\ Head(link[k].up).v <= gw /\ Fault
          /\ Answer(k, "closed", [type |-> "helloack", status |-> "refused", v |-> gw])
       \/ /\ Head(link[k].up).v <= gw
          /\ Answer(k, "open", [type |-> "helloack", status |-> "ok", v |-> gw])
          /\ UNCHANGED faults
    /\ UNCHANGED <<client, gw, stored>>

(* handle_batch up to the end of write_rows: the rows are stored, or refused    *)
(* for good, or PostgreSQL fails, before the commit or after it.               *)
WriteRows(k) ==
    /\ link[k].st = "open" /\ Asked(k, "batch")
    /\ LET m == Head(link[k].up)
           owe(status) == link' = [link EXCEPT ![k].st = "owes",
                                     ![k].owes = <<[type |-> "ack", seq |-> m.seq, status |-> status]>>]
       IN \/ /\ Range(m.frames) \cap Poison = {}
             /\ stored' = stored \cup Range(m.frames)
             /\ owe("ok") /\ UNCHANGED faults
          \/ /\ Range(m.frames) \cap Poison # {}
             /\ owe("malformed") /\ UNCHANGED <<stored, faults>>
          \/ /\ Fault
             /\ stored' \in {stored} \cup (IF Range(m.frames) \cap Poison = {}
                                           THEN {stored \cup Range(m.frames)} ELSE {})
             /\ owe("overloaded")
    /\ UNCHANGED <<client, gw>>

(* The ACK, once the write has ended. *)
ServeAck(k) ==
    /\ link[k].st = "owes"
    /\ link' = [link EXCEPT ![k].st = "open", ![k].up = Tail(@), ![k].owes = <<>>,
                            ![k].down = IF conn = k THEN @ \o link[k].owes ELSE @]
    /\ UNCHANGED <<client, gw, stored, faults>>

(* serve on a Nack: a batch the protocol session does not take, as too long or    *)
(* not readable, perhaps not even its seq.                                      *)
ServeNack(k) ==
    /\ link[k].st = "open" /\ Asked(k, "batch") /\ Fault
    /\ \E q \in {Head(link[k].up).seq, 0} :
         Answer(k, "open", [type |-> "ack", seq |-> q, status |-> "malformed"])
    /\ UNCHANGED <<client, gw, stored>>

ServeGet(k) ==
    /\ link[k].st = "open" /\ Asked(k, "get")
    /\ Answer(k, "open", [type |-> "catalogue", blob |-> Head(link[k].up).blob])
    /\ UNCHANGED <<client, gw, stored, faults>>

ServePing(k) ==
    /\ link[k].st = "open" /\ Asked(k, "ping")
    /\ Answer(k, "open", [type |-> "pong"])
    /\ UNCHANGED <<client, gw, stored, faults>>

(* serve, told that an assignment changed: never between a message and its      *)
(* answer.                                                                     *)
CloseReassigned(k) ==
    /\ link[k].st = "open" /\ Fault
    /\ link' = [link EXCEPT ![k] = [Free EXCEPT !.down = IF conn = k
                                      THEN Append(link[k].down, [type |-> "close"]) ELSE <<>>]]
    /\ UNCHANGED <<client, gw, stored>>

(* The end of the stream, behind whatever the client had sent. *)
ServeEof(k) ==
    /\ link[k].st \in {"new", "open"} /\ conn # k /\ link[k].up = <<>>
    /\ link' = [link EXCEPT ![k] = Free]
    /\ UNCHANGED <<client, gw, stored, faults>>

(* The connection breaks, idles out, or goes with the gateway's process. *)
Break(k) ==
    /\ link[k].st # "closed" /\ Fault
    /\ \E d \in {<<>>, link[k].down} : link' = [link EXCEPT ![k] = [Free EXCEPT !.down = d]]
    /\ UNCHANGED <<client, gw, stored>>

(* The gateway is upgraded. *)
Upgrade ==
    /\ gw = 2 /\ gw' = 3
    /\ UNCHANGED <<client, link, stored, faults>>

Client ==
    \/ Dial \/ HelloReply \/ Pull \/ FetchReply \/ FetchFails \/ PullDone \/ SendChunk
    \/ KeepAlive \/ SkipCatalogue \/ AckReply \/ Pong \/ Closed \/ Lost

Serve(k) ==
    \/ ServeHello(k) \/ WriteRows(k) \/ ServeAck(k) \/ ServeNack(k) \/ ServeGet(k) \/ ServePing(k) \/ ServeEof(k)

Next ==
    \/ Offer \/ Client \/ Upgrade
    \/ \E k \in Conns : Serve(k) \/ CloseReassigned(k) \/ Break(k)

Spec == Init /\ [][Next]_vars

(* The worker and the gateway's sessions are tasks that keep running, and the   *)
(* pipeline keeps offering.  Nothing obliges an old gateway to be upgraded.     *)
LiveSpec == Spec /\ WF_vars(Client) /\ \A k \in Conns : WF_vars(Serve(k))
-----------------------------------------------------------------------------
(* Every variable stays in its type; in particular seq stays within its width. *)
TypeOK ==
    /\ pc \in {"off", "hello", "pull", "fetch", "idle", "ack", "pong"}
    /\ conn \in Conns \cup {0} /\ (conn = 0) = (pc = "off")
    /\ version \in {2, 3} /\ gw \in {2, 3} /\ seq \in 0..(SeqMod - 1) /\ want \in 0..(Blobs + 1)
    /\ chunk \in Seq(1..MaxFrames) /\ todo \in Seq(1..MaxFrames) /\ next \in 1..(MaxFrames + 1)
    /\ dead \subseteq 1..MaxFrames /\ stored \subseteq 1..MaxFrames
    /\ backoff \in BOOLEAN /\ heard \in BOOLEAN /\ faults \in 0..MaxFaults

(* "Every batch is acknowledged after the gateway has written it" (forward.rs)  *)
(* and "a batch is never dropped": what write_batch has passed is stored, or in *)
(* the dead letter file, whatever was lost, refused or answered late.           *)
AckedIsKept == 1..(next - 1) \subseteq Range(todo) \cup stored \cup dead

(* Frames are stored for the first time in capture order, dead letters aside,   *)
(* even though an abandoned connection may store its batch late.                *)
NoGaps == \A f \in stored : 1..f \subseteq stored \cup dead

(* A reply always answers what the client has asked last: behind the CATALOGUEs *)
(* of fetches it gave up, the only other thing to read is a CLOSE.  So no       *)
(* session is lost to a malformed or misnumbered answer, wrapped or not: seq 0   *)
(* comes unasked only with the refusal of a batch whose seq was not readable.    *)
RepliesMatch ==
    conn # 0 =>
      \A i \in DOMAIN Replies :
        LET m == Replies[i] IN
        \/ m.type = "close" /\ i = Len(Replies)
        \/ m.type = "catalogue" /\ pc # "hello" /\ (pc = "fetch" => m.blob <= want)
        \/ m.type = "helloack" /\ pc = "hello"
        \/ m.type = "pong" /\ pc = "pong"
        \/ m.type = "ack" /\ pc = "ack" /\ (m.seq = seq \/ Unread(m))

D == INSTANCE Delivery WITH Frame <- 1..MaxFrames, pending <- Range(todo),
                            stored <- stored \cup dead, lost <- {}

(* The link implements at-least-once delivery without any loss (module          *)
(* Delivery): a frame stops waiting only once it is stored or set aside.        *)
Delivers == D!DSpec

(* Every frame offered is stored or set aside in the end, also by a gateway     *)
(* that stays on v2.                                                           *)
AllSent == \A f \in 1..MaxFrames : (f < next) ~> (f \in stored \cup dead)

(* ingest-protocol.md: "The daemon logs a `CLOSE` at INFO, not as an outage,    *)
(* and reconnects at once".                                                    *)
CloseIsNoOutage == [][conn # 0 /\ conn' = 0 /\ heard => ~backoff']_vars
=============================================================================
