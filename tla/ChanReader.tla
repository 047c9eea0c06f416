---------------------------- MODULE ChanReader -----------------------------
(***************************************************************************)
(* ChanReader.Read (stream/io_chan.go) and the io.Copy loop of ToxicLink.write *)
(* (link.go) that calls it: read into a buffer, write what was read to the    *)
(* destination, read again.  A Read that has data to return takes the next    *)
(* chunk only if one is ready.                                                *)
(***************************************************************************)
EXTENDS GoSlice, Sequences

CONSTANT BufferSizes    \* sizes of the buffer that io.Copy reads into

ASSUME ReaderAssumption == BufferSizes # {} /\ BufferSizes \subseteq Nat \ {0}

VARIABLES
    size,       \* len(out)
    buffer,     \* c.buffer
    eof,        \* c.buffer is nil
    rpc,        \* where io.Copy is
    out,        \* the bytes that Read returned
    dest        \* the bytes written to the destination

readerVars == <<size, buffer, eof, rpc, out, dest>>

ReaderInit ==
    /\ size \in BufferSizes
    /\ buffer = Made(0, 0) /\ eof = FALSE
    /\ rpc = "read" /\ out = <<>> /\ dest = <<>>

-----------------------------------------------------------------------------
Least(a, b) == IF a < b THEN a ELSE b

\* n := copy(out, c.buffer)
Copied == Least(size, Size(buffer))

\* c.buffer[n:]
Residue == Cut(buffer, Copied, Size(buffer))

\* Read returns b.
Returns(b) == out' = b /\ rpc' = "write" /\ UNCHANGED <<size, dest>>

\* The buffer has enough, or no chunk is ready and it has something.
ReadBuffered ==
    /\ rpc = "read" /\ ~eof /\ Copied > 0
    /\ buffer' = Residue
    /\ Returns(Bytes(Cut(buffer, 0, Copied)))
    /\ UNCHANGED eof

\* Read asks the channel: it waits if it has nothing to return.
Receptive == rpc = "read" /\ ~eof /\ size > Size(Residue)

ReadChunk(c) ==
    LET n2 == Least(size - Copied, Size(c))
    IN /\ Receptive
       /\ buffer' = Cut(c, n2, Size(c))
       /\ Returns(Bytes(Cut(buffer, 0, Copied)) \o Bytes(Cut(c, 0, n2)))
       /\ UNCHANGED eof

\* The channel is closed.
ReadClosed ==
    /\ Receptive
    /\ eof' = TRUE
    /\ IF Copied > 0 THEN Returns(Bytes(Cut(buffer, 0, Copied)))
       ELSE rpc' = "done" /\ UNCHANGED <<size, out, dest>>
    /\ UNCHANGED buffer

\* io.EOF
ReadEnds ==
    /\ rpc = "read" /\ eof
    /\ rpc' = "done"
    /\ UNCHANGED <<size, buffer, eof, out, dest>>

CopyWrites ==
    /\ rpc = "write"
    /\ dest' = dest \o out
    /\ out' = <<>> /\ rpc' = "read"
    /\ UNCHANGED <<size, buffer, eof>>

\* The bytes received and not yet written.
ReaderHolds == out \o IF eof THEN <<>> ELSE Bytes(buffer)
=============================================================================
