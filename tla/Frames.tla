------------------------------- MODULE Frames -------------------------------
(***************************************************************************)
(* tinydb.protocol.frame and codec: a peer's frames arrive in chunks of    *)
(* any size, and one reader takes them apart: the client's reader thread   *)
(* ("feed": recv, then feed until no frame is left), FrameReader.read_frame*)
(* over a stream that may be short and is tried again ("stream"), the      *)
(* server's loop ("serve": readexactly of the header, then of the body),   *)
(* or AsyncClient._read_one_frame ("async": the same, under a timeout).    *)
(* A byte is <<i, k>>, the k-th of frame i.                                *)
(***************************************************************************)
EXTENDS Integers, Sequences, FiniteSetsExt

CONSTANTS
  HeaderBytes,    \* _HEADER_SIZE
  LenBytes,       \* the length prefix
  MaxFrameLen,    \* MAX_FRAME_LEN
  Payloads,       \* payload sizes a peer sends; not every peer checks the length
  MaxSent         \* bound on the frames

ASSUME FramesAssumption ==
  HeaderBytes \in Nat /\ LenBytes \in 1..HeaderBytes /\ Payloads \subseteq Nat /\ MaxSent \in Nat

VARIABLES
  reader,    \* which of the readers
  sent,      \* the payload sizes of the frames written
  wire,      \* the bytes on their way
  socket,    \* the bytes that arrived and were not read
  buffer,    \* FrameReader._buffer
  header,    \* what readexactly returned for the header, before the body
  got,       \* the frames handed out
  state,     \* "ready", "draining" (feed), "body" (serve, async), "failed"
  dropped    \* a timeout cancelled a read between header and body

frameVars == <<reader, sent, wire, socket, buffer, header, got, state, dropped>>

FramesInit ==
  /\ reader \in {"feed", "stream", "serve", "async"}
  /\ sent = <<>> /\ wire = <<>> /\ socket = <<>> /\ buffer = <<>> /\ header = <<>>
  /\ got = <<>> /\ state = "ready" /\ dropped = FALSE

\* Frame.to_bytes
Bytes(i, n) == [k \in 1..(HeaderBytes + n) |-> <<i, k>>]

\* struct.unpack(">I", ...[:4]) of bytes that start a frame; bytes out of
\* step spell a length the peer never wrote, which is taken to be too long.
LengthOf(bytes) ==
  IF \A k \in 1..LenBytes : bytes[k] = <<bytes[1][1], k>>
    THEN sent[bytes[1][1]]
    ELSE MaxFrameLen + 1

TooLong(bytes) == LengthOf(bytes) > MaxFrameLen

\* Frame.from_bytes
Decode(bytes) ==
  IF bytes = Bytes(bytes[1][1], LengthOf(bytes)) THEN bytes[1][1] ELSE 0

First(s, n) == SubSeq(s, 1, n)
Rest(s, n) == SubSeq(s, n + 1, Len(s))
-----------------------------------------------------------------------------
WriteFrame(n) ==
  /\ Len(sent) < MaxSent
  /\ sent' = Append(sent, n)
  /\ wire' = wire \o Bytes(Len(sent) + 1, n)
  /\ UNCHANGED <<reader, socket, buffer, header, got, state, dropped>>

Arrive(n) ==
  /\ n \in 1..Len(wire)
  /\ socket' = socket \o First(wire, n) /\ wire' = Rest(wire, n)
  /\ UNCHANGED <<reader, sent, buffer, header, got, state, dropped>>

\* The part of feed() after the bytes were added: a frame, None or
\* ProtocolError.
Feed_LengthWithHeader(bytes, none, some) ==
  IF Len(bytes) < HeaderBytes THEN buffer' = bytes /\ state' = none /\ UNCHANGED got
  ELSE IF TooLong(bytes) THEN buffer' = bytes /\ state' = "failed" /\ UNCHANGED got
  ELSE LET target == LenBytes + LengthOf(bytes) IN
       IF Len(bytes) < target THEN buffer' = bytes /\ state' = none /\ UNCHANGED got
       ELSE /\ got' = Append(got, Decode(First(bytes, target)))
            /\ buffer' = Rest(bytes, target) /\ state' = some
Feed(bytes, none, some) ==
  IF Len(bytes) < HeaderBytes THEN buffer' = bytes /\ state' = none /\ UNCHANGED got
  ELSE IF TooLong(bytes) THEN buffer' = bytes /\ state' = "failed" /\ UNCHANGED got
  ELSE LET target == HeaderBytes + LengthOf(bytes) IN
       IF Len(bytes) < target THEN buffer' = bytes /\ state' = none /\ UNCHANGED got
       ELSE /\ got' = Append(got, Decode(First(bytes, target)))
            /\ buffer' = Rest(bytes, target) /\ state' = some

\* Client._reader_loop: recv returns some of what arrived; the frames in the
\* buffer are drained with feed(b"").
RecvChunk(n) ==
  /\ reader = "feed" /\ state = "ready" /\ n \in 1..Len(socket)
  /\ socket' = Rest(socket, n)
  /\ Feed(buffer \o First(socket, n), "ready", "draining")
  /\ UNCHANGED <<reader, sent, wire, header, dropped>>

DrainBuffer ==
  /\ state = "draining"
  /\ Feed(buffer, "ready", "draining")
  /\ UNCHANGED <<reader, sent, wire, socket, header, dropped>>

\* read_frame reads byte by byte and raises IncompleteFrameError when the
\* stream is short; what it read stays in the buffer for the next call.
ReadFrame ==
  /\ reader = "stream" /\ state = "ready" /\ socket # <<>>
  /\ LET all    == buffer \o socket
         target == IF Len(all) < LenBytes \/ TooLong(all) THEN LenBytes
                   ELSE HeaderBytes + LengthOf(all)
         n      == Min({target, Len(all)}) IN
       /\ socket' = Rest(all, n)
       /\ IF Len(all) >= LenBytes /\ TooLong(all)
            THEN buffer' = First(all, n) /\ state' = "failed" /\ UNCHANGED got
          ELSE IF Len(all) < target
            THEN buffer' = all /\ UNCHANGED <<got, state>>
          ELSE /\ got' = Append(got, Decode(First(all, n)))
               /\ buffer' = <<>> /\ UNCHANGED state
  /\ UNCHANGED <<reader, sent, wire, header, dropped>>

\* header = await reader.readexactly(6); only the server looks at the length
\* before it waits for the body.
ReadHeader ==
  /\ reader \in {"serve", "async"} /\ state = "ready" /\ Len(socket) >= HeaderBytes
  /\ header' = First(socket, HeaderBytes) /\ socket' = Rest(socket, HeaderBytes)
  /\ state' = IF reader = "serve" /\ TooLong(header') THEN "failed" ELSE "body"
  /\ UNCHANGED <<reader, sent, wire, buffer, got, dropped>>

\* rest = await reader.readexactly(length), then feed(header + rest).
ReadBody ==
  /\ state = "body" /\ Len(socket) >= LengthOf(header)
  /\ socket' = Rest(socket, LengthOf(header)) /\ header' = <<>>
  /\ Feed(buffer \o header \o First(socket, LengthOf(header)), "failed", "ready")
  /\ UNCHANGED <<reader, sent, wire, dropped>>

\* asyncio.wait_for cancels _read_one_frame while it waits for the body: the
\* header was a local variable.
CancelRead ==
  /\ reader = "async" /\ state = "body" /\ Len(socket) < LengthOf(header)
  /\ header' = <<>> /\ state' = "ready" /\ dropped' = TRUE
  /\ UNCHANGED <<reader, sent, wire, socket, buffer, got>>

FramesNext ==
  \/ \E n \in Payloads : WriteFrame(n)
  \/ \E n \in 1..Len(wire) : Arrive(n)
  \/ \E n \in 1..Len(socket) : RecvChunk(n)
  \/ DrainBuffer \/ ReadFrame \/ ReadHeader \/ ReadBody \/ CancelRead

FramesSpec == FramesInit /\ [][FramesNext]_frameVars
-----------------------------------------------------------------------------
\* However the bytes were cut into chunks, the frames handed out are the
\* frames written, in their order and none twice; only a cancelled read puts
\* the asynchronous client out of step with the stream.
FramesInOrder == dropped \/ \A i \in DOMAIN got : got[i] = i

\* A reader that cannot go on has handed out every frame that has arrived
\* whole ("without worrying about frame boundaries"), and one that failed
\* stands before a frame whose length is over MAX_FRAME_LEN.
Unread == Len(socket) + Len(buffer) + Len(header)
WholeFramesRead ==
  LET next == Len(got) + 1
      waits == CASE reader \in {"feed", "stream"} -> state = "ready" /\ socket = <<>>
                 [] state = "body" -> Len(socket) < LengthOf(header)
                 [] OTHER -> state = "ready" /\ Len(socket) < HeaderBytes IN
  /\ waits /\ ~dropped /\ next <= Len(sent) => Unread < HeaderBytes + sent[next]
  /\ state = "failed" /\ ~dropped => next <= Len(sent) /\ sent[next] > MaxFrameLen

\* feed, read_frame, serve and _read_one_frame hand out what was sent, in order,
\* and as soon as it is there.
FramesReadWhole == FramesInOrder /\ WholeFramesRead
=============================================================================
