------------------------------ MODULE Framing ------------------------------
(***************************************************************************)
(* One connection, byte by byte: the framed wire of                        *)
(* src/src/network_transport.rs over the plain or TLS stream of            *)
(* src/src/game_stream.rs, between a client session                        *)
(* (src/src/network_session.rs) and a server thread                        *)
(* (src/src/network_server.rs).  A frame is a length header and a payload; *)
(* both ends write and read without blocking, so either may stop in the    *)
(* middle of a frame.  Sockets and TLS are external: bytes arrive in order *)
(* and in pieces, a dropped TLS stream ends "cut" unless close_notify was  *)
(* sent, and a drop with unread input may reset the connection.            *)
(***************************************************************************)
EXTENDS Integers, FiniteSets, SequencesExt

CONSTANTS
  HeaderBytes, MaxFrame, MaxBuffer,   \* 4, MAX_WIRE_FRAME_BYTES, MAX_WIRE_BUFFER_BYTES
  ChunkBytes,       \* the array read_available reads into
  SocketRoom,       \* bound: bytes the network holds in one direction
  Replies,          \* what a server may send: messages are small numbers
  Hello, Goodbye,   \* a client's first message; its Close and the server's answer
  Size,             \* Size[m]: the bytes of m's JSON
  MaxReplies,       \* bound: messages a server sends
  SavedProfiles     \* bound: the server address saved in the client's profile

VARIABLES
  ends,     \* both ends: their place, bytes being written, socket input, decoder
  tls,      \* which ends speak TLS
  spoken,   \* history: the messages each end began to write
  heard     \* history: the messages each end's decoder handed over

framingVars == <<ends, tls, spoken, heard>>
Ends == {"client", "server"}
Peer(e) == IF e = "client" THEN "server" ELSE "client"
Least(a, b) == IF a < b THEN a ELSE b

-----------------------------------------------------------------------------
(* Frames.  A byte of m's payload is told from any other byte by its value. *)
Payload(m) == [i \in 1 .. Size[m] |-> 16 * m + i]
Header(n) == [i \in 1 .. HeaderBytes |-> IF i = HeaderBytes THEN n ELSE 0]
Encodable(m) == Size[m] > 0 /\ Size[m] <= MaxFrame
EncodeFrame(m) == Header(Size[m]) \o Payload(m)
(* What a TLS record looks like to one who expects a frame. *)
RecordBytes == [i \in 1 .. HeaderBytes |-> 22]

Length(bytes) == FoldLeft(LAMBDA n, b : 256 * n + b, 0, SubSeq(bytes, 1, HeaderBytes))
Announced(bytes) ==
  CASE Len(bytes) < HeaderBytes -> ""
    [] Length(bytes) = 0 -> "empty"
    [] Length(bytes) > MaxFrame -> "too_large"
    [] OTHER -> ""
Push(buffer, bytes) ==
  IF Len(buffer) + Len(bytes) > MaxBuffer THEN [buffer |-> buffer, fault |-> "overflow"]
  ELSE [buffer |-> buffer \o bytes, fault |-> Announced(buffer \o bytes)]
Complete(buffer) == Len(buffer) >= HeaderBytes /\ Len(buffer) >= HeaderBytes + Length(buffer)
(* A decoder that forgets what follows the frame it takes out.             *)
Emptied(buffer) == SubSeq(buffer, 1, 0)
Without(buffer) == SubSeq(buffer, HeaderBytes + Length(buffer) + 1, Len(buffer))
(* The message at the front of the buffer, once its last byte is there.    *)
DecodeNext(buffer) ==
  IF Announced(buffer) # "" \/ ~Complete(buffer)
  THEN [message |-> {}, buffer |-> buffer, fault |-> Announced(buffer)]
  ELSE LET payload == SubSeq(buffer, HeaderBytes + 1, HeaderBytes + Length(buffer))
           read == {m \in DOMAIN Size : Payload(m) = payload}
       IN  [message |-> read, buffer |-> Without(buffer), fault |-> IF read = {} THEN "malformed" ELSE ""]
(* finish: nothing of a frame may be missing when the stream ends.         *)
Finish(buffer) ==
  LET rest[bytes \in {SubSeq(buffer, i, Len(buffer)) : i \in 1 .. Len(buffer) + 1}] ==
        CASE bytes = <<>> -> ""
          [] Len(bytes) < HeaderBytes -> "truncated"
          [] Announced(bytes) # "" -> Announced(bytes)
          [] ~Complete(bytes) -> "truncated"
          [] OTHER -> rest[Without(bytes)]
  IN  rest[buffer]

-----------------------------------------------------------------------------
(* automatic_endpoint and GameStream::connect: all but a private loopback port is TLS. *)
AutomaticEndpoint(saved) == IF saved \in {"none", "default", "tunnel"} THEN "lan" ELSE saved
Secure(address) == address # "loopback"

Fresh == [phase |-> "shaking", stage |-> "hello", out |-> <<>>, held |-> <<>>, incoming |-> <<>>,
          eof |-> "no", buffer |-> <<>>, closed |-> FALSE, leaving |-> FALSE, fault |-> ""]
FramingInit ==
  /\ ends = [e \in Ends |-> Fresh]
  /\ \E saved \in SavedProfiles, server \in BOOLEAN :
       tls = {e \in Ends : IF e = "client" THEN Secure(AutomaticEndpoint(saved)) ELSE server}
  /\ spoken = [e \in Ends |-> <<>>] /\ heard = [e \in Ends |-> <<>>]

In(e, phase) == ends[e].phase = phase
Move(e, phase) == ends' = [ends EXCEPT ![e].phase = phase]
(* The end drops its stream; what its peer then reads is the socket's affair. *)
Drops(es, e, notified) ==
  LET unread == es[e].incoming # <<>>
      marks == {IF e \in tls /\ ~notified THEN "cut" ELSE "clean"} \cup (IF unread THEN {"reset"} ELSE {})
  IN  {[es EXCEPT ![e] = [Fresh EXCEPT !.phase = "done", !.fault = es[e].fault, !.stage = es[e].stage,
                                       !.closed = es[e].closed, !.eof = es[e].eof],
                  ![Peer(e)].eof = mark,
                  ![Peer(e)].incoming = IF mark = "reset" THEN <<>> ELSE @] : mark \in marks}
Fails(es, e, fault) == Drops([es EXCEPT ![e].fault = fault], e, FALSE)
(* A server thread that served the connection says close_notify, the others do not. *)
Ended(es, e) == IF e = "server" /\ es[e].stage = "serving"
                THEN Drops(es, e, TRUE) \cup Drops(es, e, FALSE) ELSE Drops(es, e, FALSE)
Broken(es, e, fault) ==
  IF e = "server" /\ es[e].stage = "serving"
  THEN Ended([es EXCEPT ![e].fault = fault], e) ELSE Fails(es, e, fault)

-----------------------------------------------------------------------------
(* connect and accept. *)
HandshakeDone ==
  /\ tls = Ends /\ \A e \in Ends : In(e, "shaking")
  /\ ends' = [e \in Ends |-> [ends[e] EXCEPT !.phase = IF e = "client" THEN "greeting" ELSE "reading"]]
  /\ UNCHANGED <<tls, spoken, heard>>
PlainOpen(e) ==
  /\ In(e, "shaking") /\ e \notin tls
  /\ Move(e, IF e = "client" THEN "greeting" ELSE "reading")
  /\ UNCHANGED <<tls, spoken, heard>>
(* A client that wants TLS opens with a record a plain server takes for a frame. *)
SendRecord ==
  /\ tls = {"client"} /\ In("client", "shaking") /\ In("server", "reading")
  /\ ends["server"].incoming = <<>> /\ ends["server"].eof = "no"
  /\ ends' = [ends EXCEPT !["server"].incoming = RecordBytes]
  /\ UNCHANGED <<tls, spoken, heard>>
(* The peer is gone, is not speaking TLS, or is too late. *)
HandshakeFails(e) ==
  /\ In(e, "shaking") /\ e \in tls
  /\ ends' \in Fails(ends, e, IF ends[e].incoming # <<>> \/ ends[e].eof # "no" THEN "io" ELSE "timed_out")
  /\ UNCHANGED <<tls, spoken, heard>>
(* reject_connection writes to the bare socket, whatever the client expects. *)
TurnAway(m) ==
  /\ In("server", "shaking") /\ spoken["server"] = <<>> /\ ends["server"].eof = "no"
  /\ spoken' = [spoken EXCEPT !["server"] = <<m>>]
  /\ ends' \in {[es EXCEPT !["client"].eof = IF @ = "cut" THEN "clean" ELSE @] :
                  es \in Drops([ends EXCEPT !["client"].incoming = EncodeFrame(m)], "server", FALSE)}
  /\ UNCHANGED <<tls, heard>>

-----------------------------------------------------------------------------
(* write_message. *)
Speaks(e, m, leaving) ==
  IF Encodable(m)
  THEN /\ ends' = [ends EXCEPT ![e].phase = "writing", ![e].out = EncodeFrame(m), ![e].leaving = leaving]
       /\ spoken' = [spoken EXCEPT ![e] = Append(@, m)]
  ELSE /\ ends' \in Broken(ends, e, IF Size[m] = 0 THEN "empty" ELSE "too_large")
       /\ UNCHANGED spoken

Greet == In("client", "greeting") /\ Speaks("client", Hello, FALSE) /\ UNCHANGED <<tls, heard>>
(* The player's Close, once the session is open. *)
SayClose ==
  /\ In("client", "idle") /\ ends["client"].stage = "serving" /\ Len(spoken["client"]) = 1
  /\ Speaks("client", Goodbye, TRUE)
  /\ UNCHANGED <<tls, heard>>
Reply(m) ==
  /\ In("server", "idle") /\ Len(spoken["server"]) < MaxReplies
  /\ Speaks("server", m, FALSE)
  /\ UNCHANGED <<tls, heard>>

(* TLS keeps what it cannot send yet; a plain write goes to the socket.    *)
Gone(e) == In(Peer(e), "done")
Room(e) == IF Gone(e) THEN SocketRoom ELSE SocketRoom - Len(ends[Peer(e)].incoming)
Carried(es, e, bytes) == IF Gone(e) THEN es ELSE [es EXCEPT ![Peer(e)].incoming = @ \o bytes]
Write(e) ==
  /\ In(e, "writing") /\ ends[e].out # <<>>
  /\ IF e \in tls
     THEN ends' = [ends EXCEPT ![e].held = @ \o ends[e].out, ![e].out = <<>>]
     ELSE \E n \in 1 .. Least(Len(ends[e].out), Room(e)) :
            ends' = Carried([ends EXCEPT ![e].out = SubSeq(@, n + 1, Len(@))], e, SubSeq(ends[e].out, 1, n))
  /\ UNCHANGED <<tls, spoken, heard>>
Flush(e) ==
  /\ In(e, "writing") /\ ends[e].out = <<>> /\ ends[e].held # <<>>
  /\ \E n \in 1 .. Least(Len(ends[e].held), Room(e)) :
       ends' = Carried([ends EXCEPT ![e].held = SubSeq(@, n + 1, Len(@))], e, SubSeq(ends[e].held, 1, n))
  /\ UNCHANGED <<tls, spoken, heard>>
Unwritten(e) == ends[e].out # <<>> \/ ends[e].held # <<>>
Written(e) ==
  /\ In(e, "writing") /\ ~Unwritten(e)
  /\ IF e = "server" /\ ends[e].leaving THEN ends' \in Ended(ends, e)
     ELSE Move(e, IF e = "client" /\ ends[e].stage = "hello" THEN "reading" ELSE "idle")
  /\ UNCHANGED <<tls, spoken, heard>>
WriteFails(e) ==
  /\ In(e, "writing") /\ Unwritten(e) /\ Gone(e)
  /\ ends' \in Broken(ends, e, "io")
  /\ UNCHANGED <<tls, spoken, heard>>
WriteTimesOut(e) ==
  /\ In(e, "writing") /\ Unwritten(e) /\ Room(e) = 0
  /\ ends' \in Broken(ends, e, "write_timed_out")
  /\ UNCHANGED <<tls, spoken, heard>>

-----------------------------------------------------------------------------
(* read_available, to the end of what there is. *)
BeginRead(e) ==
  /\ In(e, "idle")
  /\ IF e = "client" /\ ends[e].closed THEN ends' \in Fails(ends, e, "eof") ELSE Move(e, "reading")
  /\ UNCHANGED <<tls, spoken, heard>>
Read(e) ==
  /\ In(e, "reading") /\ ends[e].incoming # <<>>
  /\ LET n == Least(ChunkBytes, Len(ends[e].incoming))
         pushed == Push(ends[e].buffer, SubSeq(ends[e].incoming, 1, n))
         taken == [ends EXCEPT ![e].incoming = SubSeq(@, n + 1, Len(@)), ![e].buffer = pushed.buffer]
     IN  IF pushed.fault # "" THEN ends' \in Broken(taken, e, pushed.fault) ELSE ends' = taken
  /\ UNCHANGED <<tls, spoken, heard>>
NothingMore(e) ==
  /\ In(e, "reading") /\ ends[e].incoming = <<>> /\ ends[e].eof = "no"
  /\ Move(e, "decoding")
  /\ UNCHANGED <<tls, spoken, heard>>
(* The stream ended: a server returns at once, a client looks at what it has. *)
StreamEnds(e) ==
  /\ In(e, "reading") /\ ends[e].incoming = <<>> /\ ends[e].eof # "no"
  /\ LET fault == IF ends[e].eof = "clean" THEN Finish(ends[e].buffer) ELSE "io" IN
     CASE fault # "" -> ends' \in Broken(ends, e, fault)
       [] e = "server" /\ ends[e].stage = "serving" -> ends' \in Ended(ends, e)
       [] e = "server" /\ ends[e].stage = "hello" -> ends' \in Fails(ends, e, "closed")
       [] OTHER -> ends' = [ends EXCEPT ![e].closed = TRUE, ![e].phase = "decoding"]
  /\ UNCHANGED <<tls, spoken, heard>>

-----------------------------------------------------------------------------
(* decode_next: one message while the connection opens, then all there are. *)
Decoded(e) == DecodeNext(ends[e].buffer)
Hands(e, m) == heard' = [heard EXCEPT ![e] = Append(@, m)]
(* wait_for_message and the session's own wait for its first answer.       *)
Opened(e) ==
  /\ In(e, "decoding") /\ ends[e].stage = "hello"
  /\ \E m \in Decoded(e).message :
       /\ ends' = [ends EXCEPT ![e].stage = "serving", ![e].phase = "idle", ![e].buffer = Decoded(e).buffer]
       /\ Hands(e, m)
  /\ UNCHANGED <<tls, spoken>>
(* A first message the server does not accept is answered, and the thread ends. *)
Refused(m) ==
  /\ In("server", "decoding") /\ ends["server"].stage = "hello"
  /\ \E first \in Decoded("server").message :
       /\ ends' = [ends EXCEPT !["server"].phase = "writing", !["server"].buffer = Decoded("server").buffer,
                               !["server"].out = EncodeFrame(m), !["server"].leaving = TRUE]
       /\ Hands("server", first)
  /\ spoken' = [spoken EXCEPT !["server"] = Append(@, m)]
  /\ UNCHANGED tls
NotYet(e) ==
  /\ In(e, "decoding") /\ ends[e].stage = "hello" /\ Decoded(e).message = {}
  /\ IF Decoded(e).fault # "" THEN ends' \in Fails(ends, e, Decoded(e).fault)
     ELSE IF ends[e].closed THEN ends' \in Fails(ends, e, "closed")
     ELSE Move(e, "reading") \/ ends' \in Fails(ends, e, "timed_out")
  /\ UNCHANGED <<tls, spoken, heard>>
Handle(e) ==
  /\ In(e, "decoding") /\ ends[e].stage = "serving"
  /\ \E m \in Decoded(e).message :
       /\ Hands(e, m)
       /\ IF e = "server" /\ m = Goodbye
          THEN /\ ends' = [ends EXCEPT ![e].phase = "writing", ![e].buffer = Decoded(e).buffer,
                                       ![e].out = EncodeFrame(Goodbye), ![e].leaving = TRUE]
               /\ spoken' = [spoken EXCEPT ![e] = Append(@, Goodbye)]
          ELSE ends' = [ends EXCEPT ![e].buffer = Decoded(e).buffer] /\ UNCHANGED spoken
  /\ UNCHANGED tls
(* A poll that found nothing but the end fails: here, as the next one would. *)
Drained(e) ==
  /\ In(e, "decoding") /\ ends[e].stage = "serving" /\ Decoded(e).message = {}
  /\ IF Decoded(e).fault # "" THEN ends' \in Broken(ends, e, Decoded(e).fault) ELSE Move(e, "idle")
  /\ UNCHANGED <<tls, spoken, heard>>

FramingNext ==
  \/ HandshakeDone \/ SendRecord \/ Greet \/ SayClose
  \/ \E e \in Ends : \/ PlainOpen(e) \/ HandshakeFails(e) \/ Write(e) \/ Flush(e) \/ Written(e)
                     \/ WriteFails(e) \/ WriteTimesOut(e) \/ BeginRead(e) \/ Read(e) \/ NothingMore(e)
                     \/ StreamEnds(e) \/ Opened(e) \/ NotYet(e) \/ Handle(e) \/ Drained(e)
  \/ \E m \in Replies : Reply(m)
  \/ \E m \in {r \in Replies : Encodable(r)} : TurnAway(m) \/ Refused(m)

FramingSpec == FramingInit /\ [][FramingNext]_framingVars

-----------------------------------------------------------------------------
(* What an end hears is what the other said, whole and in order; no frame  *)
(* that was sent is taken for an empty, oversized or malformed one unless  *)
(* one end speaks TLS and the other does not, a stream seen to end in the  *)
(* middle of a frame was abandoned by its writer; and a poll that sees the *)
(* clean end of a connection has handed over every message sent before it. *)
FramesIntact ==
  \A e \in Ends :
    /\ IsPrefix(heard[e], spoken[Peer(e)])
    /\ ends[e].fault # "malformed"
    /\ e = "client" => ends[e].fault \notin {"empty", "too_large"}
    /\ ends[e].fault = "truncated" => ends[Peer(e)].fault \in {"io", "write_timed_out"}
    /\ e = "client" /\ ends[e].phase = "idle" /\ ends[e].closed /\ Len(heard[e]) > 1
         /\ ends[Peer(e)].fault = "" => heard[e] = spoken[Peer(e)]
=============================================================================
