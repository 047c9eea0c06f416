----------------------------- MODULE ToxicLink -----------------------------
(***************************************************************************)
(* One ToxicLink (link.go): the goroutine that reads the source, one        *)
(* goroutine per toxic of the chain (ToxicStub.Run and the Pipe of the      *)
(* toxic), the goroutine that writes to the destination, and the API call   *)
(* that adds, updates or removes a toxic while data flows.                  *)
(*                                                                          *)
(* Stub k reads from channel k; channel 0 is link.output.  buf[c] holds the *)
(* chunks buffered in channel c followed by the chunk of the goroutine that *)
(* is blocked sending on c, if any: the sender is blocked exactly while     *)
(* Len(buf[c]) > cap[c], and a select that gives up on the send takes the   *)
(* last element back.  A chunk is the sequence of its bytes, numbered over  *)
(* the whole stream.                                                        *)
(*                                                                          *)
(* ToxicCollection holds its lock during a whole API call, so at most one   *)
(* call ("op") is in progress.  A toxic's Index is its position in the      *)
(* chain (proved in ToxicCollectionProofs), so positions are used directly; *)
(* TLA+ sequences start at 1 where Go's start at 0.                         *)
(***************************************************************************)
EXTENDS Integers, SequencesExt

CONSTANTS
    Toxics,         \* the ToxicWrappers, the hidden noop included
    Noop,           \* collection.noop, first of every chain
    Kind,           \* [Toxics -> Kinds], the registered type of a toxic
    BufferSize,     \* [Toxics -> Nat], GetBufferSize of the type (latency: 1024)
    Partial,        \* the toxics with Toxicity < 1: a run may behave as noop
    RateStep,       \* bytes a bandwidth toxic lets through per 100 ms (Rate*100)
    InitialChains,  \* the chains a link may be created with
    DatagramSize,   \* bytes per datagram
    MaxDatagrams,   \* bound: datagrams read from the source
    MaxStubs,       \* bound: stubs created over the life of the link
    MaxOps,         \* bound: API calls
    DestFails       \* may a write to the destination fail?

Kinds == {"noop", "latency", "bandwidth", "slicer", "reset_peer"}

ASSUME ToxicsAssumption ==
    /\ Noop \in Toxics
    /\ Kind \in [Toxics -> Kinds]
    /\ Kind[Noop] = "noop"
    /\ BufferSize \in [Toxics -> Nat]
    /\ Partial \subseteq Toxics

ASSUME BoundsAssumption ==
    /\ DatagramSize \in Nat \ {0}
    /\ RateStep \in Nat
    /\ MaxDatagrams \in Nat
    /\ MaxStubs \in Nat \ {0}
    /\ MaxOps \in Nat
    /\ DestFails \in BOOLEAN

ASSUME ChainsAssumption ==
    /\ InitialChains \subseteq Seq(Toxics)
    /\ \A c \in InitialChains :
         /\ Len(c) \in 1..MaxStubs
         /\ c[1] = Noop
         /\ \A i, j \in 1..Len(c) : c[i] = c[j] => i = j

VARIABLES
    chain,      \* collection.chain[direction]
    linked,     \* is the link registered in collection.links?
    stubs,      \* link.stubs, as stub identifiers
    made,       \* number of stubs created so far
    wrapper,    \* the toxic a stub was last run with
    mode,       \* the Pipe a stub is running: Kind[wrapper] or "noop"
    pc,         \* where the goroutine of a stub is
    held,       \* the data a stub has received and not yet sent
    output,     \* stub.Output
    shut,       \* is stub.closed closed?
    buf, cap, closed,   \* the channels
    reader,     \* the goroutine link.read
    sent,       \* number of datagrams it has read
    writer,     \* the goroutine link.write
    wbuf,       \* the chunk it is writing
    delivered,  \* the bytes written to the destination
    dropped,    \* the bytes given up by the code
    op,         \* the API call in progress
    nops,       \* number of API calls made
    panic       \* the run-time error that ended the process, if any

chainVars == <<chain, linked, made, nops>>
stubVars  == <<stubs, wrapper, mode, pc, held, output, shut>>
chanVars  == <<buf, cap, closed>>
endVars   == <<reader, sent, writer, wbuf, delivered, dropped>>
vars == <<chain, linked, stubs, made, wrapper, mode, pc, held, output, shut,
          buf, cap, closed, reader, sent, writer, wbuf, delivered, dropped,
          op, nops, panic>>

Stub == 1..MaxStubs
Chan == 0..MaxStubs
Byte == 1..(MaxDatagrams * DatagramSize)

Idle == [call |-> "none", pc |-> "idle", toxic |-> Noop, pos |-> 1,
         stub |-> 1, prev |-> 1, stop |-> "none", writing |-> FALSE]

Alive == panic = "none"

-----------------------------------------------------------------------------
(* Channels *)

Blocked(c) == Len(buf[c]) > cap[c]

\* Mutant: RemoveToxic takes every Input for an unbuffered one.
ChanLenIgnored(c) == 0

\* len(ch): the chunk of a blocked sender is not in the buffer yet.
ChanLen(c) == IF Blocked(c) THEN cap[c] ELSE Len(buf[c])

\* Mutant: a closed channel is reported before its buffer is read out.
EndsAtOnce(c) == closed[c]

Ends(c) == buf[c] = <<>> /\ closed[c]     \* a receive yields nil

\* ch <- x starts; a send on a closed channel panics.
Push(c, x) ==
    /\ buf' = [buf EXCEPT ![c] = Append(@, x)]
    /\ panic' = IF closed[c] THEN "send" ELSE panic

\* Receive the first chunk of channel k and start sending x on channel c.
Move(k, c, x) ==
    /\ buf' = [buf EXCEPT ![k] = Tail(@), ![c] = Append(@, x)]
    /\ panic' = IF closed[c] THEN "send" ELSE panic

\* The sender blocked on c gives up; its chunk is lost.
TakeBack(c) ==
    /\ buf' = [buf EXCEPT ![c] = Front(@)]
    /\ dropped' = dropped \cup Range(Last(buf[c]))

\* ToxicStub.Close with Output = c: nothing if the stub is closed already;
\* closing a channel twice, or under a blocked sender, panics.
Close(k, c) ==
    IF shut[k] THEN UNCHANGED <<shut, closed, panic>>
    ELSE /\ shut' = [shut EXCEPT ![k] = TRUE]
         /\ closed' = [closed EXCEPT ![c] = TRUE]
         /\ panic' = IF closed[c] \/ Blocked(c) THEN "close" ELSE panic

-----------------------------------------------------------------------------
(* NewToxicLink and Start, run under the collection's lock by StartLink *)

Modes(t) == {Kind[t]} \cup (IF t \in Partial THEN {"noop"} ELSE {})

\* Mutant: ChanWriter.Write copies one byte too many.
DatagramOverrun(n) == [i \in 1..(DatagramSize + 1) |-> (n - 1) * DatagramSize + i]

Datagram(n) == [i \in 1..DatagramSize |-> (n - 1) * DatagramSize + i]

Init ==
    /\ chain \in InitialChains
    /\ linked = TRUE
    /\ stubs = [i \in 1..Len(chain) |-> i]
    /\ made = Len(chain)
    /\ wrapper = [k \in Stub |-> IF k <= Len(chain) THEN chain[k] ELSE Noop]
    /\ mode \in [Stub -> Kinds]
    /\ \A k \in Stub : mode[k] \in Modes(wrapper[k])
    /\ pc = [k \in Stub |-> IF k <= Len(chain) THEN "recv" ELSE "none"]
    /\ held = [k \in Stub |-> <<>>]
    /\ output = [k \in Stub |-> IF k < Len(chain) THEN k + 1 ELSE 0]
    /\ shut = [k \in Stub |-> FALSE]
    /\ buf = [c \in Chan |-> <<>>]
    /\ cap = [c \in Chan |-> IF c \in 2..Len(chain) THEN BufferSize[chain[c]] ELSE 0]
    /\ closed = [c \in Chan |-> FALSE]
    /\ reader = "read" /\ sent = 0
    /\ writer = "recv" /\ wbuf = <<>>
    /\ delivered = <<>> /\ dropped = {}
    /\ op = Idle /\ nops = 0
    /\ panic = "none"

-----------------------------------------------------------------------------
(* link.read: io.Copy from the source into channel 1 *)

ReadSource ==
    /\ Alive /\ reader = "read"
    /\ sent < MaxDatagrams
    /\ sent' = sent + 1
    /\ Push(1, Datagram(sent + 1))
    /\ reader' = "send"
    /\ UNCHANGED <<chainVars, stubVars, cap, closed, writer, wbuf, delivered, dropped, op>>

ReaderSent ==
    /\ Alive /\ reader = "send"
    /\ ~Blocked(1)
    /\ reader' = "read"
    /\ UNCHANGED <<chainVars, stubVars, chanVars, sent, writer, wbuf, delivered, dropped, op, panic>>

\* The source ends or fails: io.Copy returns and link.input is closed.
SourceEnds ==
    /\ Alive /\ reader = "read"
    /\ reader' = "done"
    /\ closed' = [closed EXCEPT ![1] = TRUE]
    /\ UNCHANGED <<chainVars, stubVars, buf, cap, sent, writer, wbuf, delivered, dropped, op, panic>>

-----------------------------------------------------------------------------
(* The Pipe loops.  pc: "recv" waits for Input or Interrupt; "delay" waits   *)
(* for a timer or Interrupt; "send" is blocked in Output <- c; "flush" is     *)
(* the send after an interrupt, "wflush" the one of WriteOutput with its      *)
(* timeout; "sleep" is reset_peer's uninterruptible wait.                     *)

Quiet ==
    /\ Alive
    /\ UNCHANGED <<chainVars, stubs, wrapper, mode, output, cap, reader, sent,
                   writer, wbuf, delivered, op>>

NoopReceive(k) ==
    /\ pc[k] = "recv" /\ mode[k] = "noop" /\ buf[k] # <<>>
    /\ Move(k, output[k], Head(buf[k]))
    /\ pc' = [pc EXCEPT ![k] = "send"]
    /\ Quiet /\ UNCHANGED <<held, shut, closed, dropped>>

\* latency and bandwidth hold the chunk until a timer fires.
HoldReceive(k) ==
    /\ pc[k] = "recv" /\ mode[k] \in {"latency", "bandwidth"} /\ buf[k] # <<>>
    /\ held' = [held EXCEPT ![k] = Head(buf[k])]
    /\ buf' = [buf EXCEPT ![k] = Tail(@)]
    /\ pc' = [pc EXCEPT ![k] = "delay"]
    /\ Quiet /\ UNCHANGED <<shut, closed, dropped, panic>>

\* The sizes of the next piece SlicerToxic.chunk may cut off the data c.
SliceSizes(c) == IF c = <<>> THEN {0} ELSE 1..Len(c)

Rest(c, n) == SubSeq(c, n + 1, Len(c))

\* The slicer sends the first piece at once and waits after each piece.
SlicerReceive(k) ==
    /\ pc[k] = "recv" /\ mode[k] = "slicer" /\ buf[k] # <<>>
    /\ \E n \in SliceSizes(Head(buf[k])) :
         /\ Move(k, output[k], SubSeq(Head(buf[k]), 1, n))
         /\ held' = [held EXCEPT ![k] = Rest(Head(buf[k]), n)]
    /\ pc' = [pc EXCEPT ![k] = "send"]
    /\ Quiet /\ UNCHANGED <<shut, closed, dropped>>

\* reset_peer forgets what it received (a chunk or the end of the input).
ResetReceive(k) ==
    /\ pc[k] = "recv" /\ mode[k] = "reset_peer"
    /\ \/ /\ buf[k] # <<>>
          /\ buf' = [buf EXCEPT ![k] = Tail(@)]
          /\ dropped' = dropped \cup Range(Head(buf[k]))
       \/ Ends(k) /\ UNCHANGED <<buf, dropped>>
    /\ pc' = [pc EXCEPT ![k] = "sleep"]
    /\ Quiet /\ UNCHANGED <<held, shut, closed, panic>>

ResetFires(k) ==
    /\ pc[k] = "sleep"
    /\ Close(k, output[k])
    /\ pc' = [pc EXCEPT ![k] = "exited"]
    /\ Quiet /\ UNCHANGED <<held, buf, dropped>>

\* Mutant: Pipe returns without closing its stub.
InputEndsUnclosed(k) ==
    /\ pc[k] = "recv" /\ mode[k] # "reset_peer" /\ Ends(k)
    /\ pc' = [pc EXCEPT ![k] = "exited"]
    /\ Quiet /\ UNCHANGED <<held, shut, buf, closed, dropped, panic>>

\* Input was closed: the stub closes itself and its Pipe returns.
InputEnds(k) ==
    /\ pc[k] = "recv" /\ mode[k] # "reset_peer" /\ Ends(k)
    /\ Close(k, output[k])
    /\ pc' = [pc EXCEPT ![k] = "exited"]
    /\ Quiet /\ UNCHANGED <<held, buf, dropped>>

\* How much of the held data goes out when the timer fires.
PieceSizes(k) ==
    CASE mode[k] = "latency"   -> {Len(held[k])}
      [] mode[k] = "bandwidth" -> {IF Len(held[k]) > RateStep THEN RateStep ELSE Len(held[k])}
      [] mode[k] = "slicer"    -> SliceSizes(held[k])

Timer(k) ==
    /\ pc[k] = "delay"
    /\ mode[k] = "slicer" => held[k] # <<>>
    /\ \E n \in PieceSizes(k) :
         /\ Push(output[k], SubSeq(held[k], 1, n))
         /\ held' = [held EXCEPT ![k] = Rest(@, n)]
    /\ pc' = [pc EXCEPT ![k] = "send"]
    /\ Quiet /\ UNCHANGED <<shut, closed, dropped>>

\* The slicer's wait after the last piece.
SlicerNext(k) ==
    /\ pc[k] = "delay" /\ mode[k] = "slicer" /\ held[k] = <<>>
    /\ pc' = [pc EXCEPT ![k] = "recv"]
    /\ Quiet /\ UNCHANGED <<held, shut, buf, closed, dropped, panic>>

\* Output <- c has completed.
Sent(k) ==
    /\ pc[k] \in {"send", "flush", "wflush"}
    /\ ~Blocked(output[k])
    /\ pc' = [pc EXCEPT ![k] = IF pc[k] # "send" THEN "exited"
                               ELSE IF mode[k] = "slicer" \/ held[k] # <<>> THEN "delay"
                               ELSE "recv"]
    /\ Quiet /\ UNCHANGED <<held, shut, buf, closed, dropped, panic>>

\* WriteOutput gives up after five seconds.
WriteTimeout(k) ==
    /\ pc[k] = "wflush"
    /\ Blocked(output[k])
    /\ TakeBack(output[k])
    /\ pc' = [pc EXCEPT ![k] = "exited"]
    /\ Quiet /\ UNCHANGED <<held, shut, closed, panic>>

\* The Pipe of stub k receives from stub.Interrupt.
Interruptible(k) == pc[k] \in {"recv", "delay"}

TakeInterrupt(k) ==
    /\ Interruptible(k)
    /\ IF pc[k] = "recv"
       THEN /\ pc' = [pc EXCEPT ![k] = "exited"]
            /\ UNCHANGED <<held, buf, panic>>
       ELSE /\ Push(output[k], held[k])
            /\ held' = [held EXCEPT ![k] = <<>>]
            /\ pc' = [pc EXCEPT ![k] = IF mode[k] = "bandwidth" THEN "wflush" ELSE "flush"]

-----------------------------------------------------------------------------
(* link.write: io.Copy from channel 0 into the destination *)

WriterReceive ==
    /\ Alive /\ writer = "recv" /\ buf[0] # <<>>
    /\ wbuf' = Head(buf[0])
    /\ buf' = [buf EXCEPT ![0] = Tail(@)]
    /\ writer' = IF Head(buf[0]) = <<>> THEN "recv" ELSE "write"
    /\ UNCHANGED <<chainVars, stubVars, cap, closed, reader, sent, delivered, dropped, op, panic>>

WriterWrites ==
    /\ Alive /\ writer = "write"
    /\ delivered' = delivered \o wbuf
    /\ wbuf' = <<>>
    /\ writer' = "recv"
    /\ UNCHANGED <<chainVars, stubVars, chanVars, reader, sent, dropped, op, panic>>

WriterFails ==
    /\ DestFails
    /\ Alive /\ writer = "write"
    /\ dropped' = dropped \cup Range(wbuf)
    /\ wbuf' = <<>>
    /\ writer' = "removing"
    /\ UNCHANGED <<chainVars, stubVars, chanVars, reader, sent, delivered, op, panic>>

WriterEnds ==
    /\ Alive /\ writer = "recv" /\ Ends(0)
    /\ writer' = "removing"
    /\ UNCHANGED <<chainVars, stubVars, chanVars, reader, sent, wbuf, delivered, dropped, op, panic>>

\* ToxicCollection.RemoveLink needs the lock an API call holds.
RemoveLink ==
    /\ Alive /\ writer = "removing"
    /\ op.pc = "idle"
    /\ linked' = FALSE
    /\ writer' = "done"
    /\ UNCHANGED <<chain, made, nops, stubVars, chanVars, reader, sent, wbuf, delivered, dropped, op, panic>>

-----------------------------------------------------------------------------
(* The API calls.  Every call interrupts the stub op.stub; "interrupt" is    *)
(* the select of InterruptToxic, "wait" its <-s.running.                      *)

OpQuiet ==
    /\ Alive
    /\ UNCHANGED <<chain, linked, made, nops, reader, sent, writer, wbuf, delivered>>

Begin(o) ==
    /\ Alive /\ op.pc = "idle" /\ nops < MaxOps
    /\ nops' = nops + 1
    /\ op' = IF linked THEN o ELSE Idle
    /\ UNCHANGED <<linked, wrapper, mode, pc, held, shut, buf, closed, endVars, panic>>

\* chainAddToxic, and link.AddToxic up to the interrupt of the last stub.
AddToxic(t) ==
    /\ t \notin Range(chain)
    /\ made < MaxStubs
    /\ chain' = Append(chain, t)
    /\ Begin([Idle EXCEPT !.call = "add", !.pc = "interrupt", !.toxic = t,
                          !.pos = Len(stubs), !.stub = Last(stubs)])
    /\ IF linked
       THEN /\ made' = made + 1
            /\ stubs' = Append(stubs, made + 1)
            /\ cap' = [cap EXCEPT ![made + 1] = BufferSize[t]]
            /\ output' = [output EXCEPT ![made + 1] = output[Last(stubs)]]
       ELSE UNCHANGED <<made, stubs, cap, output>>

\* chainUpdateToxic and link.UpdateToxic up to the interrupt.
UpdateToxic(i) ==
    /\ i \in 2..Len(chain)
    /\ Begin([Idle EXCEPT !.call = "update", !.pc = "interrupt",
                          !.toxic = chain[i], !.pos = i, !.stub = stubs[i]])
    /\ UNCHANGED <<chain, made, stubs, cap, output>>

\* chainRemoveToxic and link.RemoveToxic up to the first interrupt.
RemoveToxic(i) ==
    /\ i \in 2..Len(chain)
    /\ Begin([Idle EXCEPT !.call = "remove", !.pc = "interrupt", !.toxic = chain[i],
                          !.pos = i, !.stub = stubs[i], !.prev = stubs[i - 1]])
    /\ chain' = RemoveAt(chain, i)
    /\ UNCHANGED <<made, stubs, cap, output>>

InterruptToxic ==
    /\ op.pc = "interrupt"
    /\ TakeInterrupt(op.stub)
    /\ op' = [op EXCEPT !.pc = "wait"]
    /\ OpQuiet /\ UNCHANGED <<stubs, wrapper, mode, output, shut, cap, closed, dropped>>

Interrupted(call) == op.call = call /\ op.pc = "wait" /\ pc[op.stub] = "exited"

AddResumes ==
    /\ Interrupted("add")
    /\ LET new == Last(stubs)
       IN IF op.pos > Len(chain)       \* chain[direction][i-1]
          THEN panic' = "index" /\ UNCHANGED <<output, wrapper, mode, pc>>
          ELSE /\ output' = [output EXCEPT ![op.stub] = new]
               /\ wrapper' = [wrapper EXCEPT ![new] = op.toxic, ![op.stub] = chain[op.pos]]
               /\ \E m \in Modes(op.toxic), n \in Modes(chain[op.pos]) :
                    mode' = [mode EXCEPT ![new] = m, ![op.stub] = n]
               /\ pc' = [pc EXCEPT ![new] = "recv", ![op.stub] = "recv"]
               /\ UNCHANGED panic
    /\ op' = Idle
    /\ OpQuiet /\ UNCHANGED <<stubs, held, shut, chanVars, dropped>>

\* Mutant: the new stub keeps the real output, which is closed already.
AddToClosedSharing ==
    /\ op.call = "add" /\ op.pc = "interrupt" /\ shut[op.stub]
    /\ Close(Last(stubs), output[Last(stubs)])
    /\ op' = Idle
    /\ OpQuiet /\ UNCHANGED <<stubs, wrapper, mode, output, pc, held, buf, cap, dropped>>

\* Mutant: the stub of a closed link is thrown away.
AddToClosedForgets ==
    /\ op.call = "add" /\ op.pc = "interrupt" /\ shut[op.stub]
    /\ stubs' = Front(stubs)
    /\ op' = Idle
    /\ OpQuiet /\ UNCHANGED <<wrapper, mode, output, pc, held, shut, chanVars, dropped, panic>>

\* The last stub is closed: the new stub closes its own Input.
AddToClosed ==
    /\ op.call = "add" /\ op.pc = "interrupt" /\ shut[op.stub]
    /\ LET new == Last(stubs)
       IN /\ output' = [output EXCEPT ![new] = new]
          /\ Close(new, new)
    /\ op' = Idle
    /\ OpQuiet /\ UNCHANGED <<stubs, wrapper, mode, pc, held, buf, cap, dropped>>

\* Mutant: the updated toxic is not run again.
UpdateForgetsRun ==
    /\ Interrupted("update")
    /\ op' = Idle
    /\ OpQuiet /\ UNCHANGED <<stubVars, chanVars, dropped, panic>>

UpdateResumes ==
    /\ Interrupted("update")
    /\ wrapper' = [wrapper EXCEPT ![op.stub] = op.toxic]
    /\ \E m \in Modes(op.toxic) : mode' = [mode EXCEPT ![op.stub] = m]
    /\ pc' = [pc EXCEPT ![op.stub] = "recv"]
    /\ op' = Idle
    /\ OpQuiet /\ UNCHANGED <<stubs, held, output, shut, chanVars, dropped, panic>>

\* UpdateToxic and RemoveToxic leave a closed stub as it is.
ClosedAlready ==
    /\ op.call \in {"update", "remove"} /\ op.pc = "interrupt" /\ shut[op.stub]
    /\ op' = Idle
    /\ OpQuiet /\ UNCHANGED <<stubVars, chanVars, dropped, panic>>

-----------------------------------------------------------------------------
(* link.RemoveToxic after the interrupt.  op.stop is the goroutine that      *)
(* interrupts the previous stub and its channel: "interrupt", "wait", then    *)
(* "yes" or "no" while it offers the answer, "taken" once "no" was received.  *)

RemoveInterrupted ==
    /\ Interrupted("remove")
    /\ op' = [op EXCEPT !.pc = "drain", !.stop = "interrupt"]
    /\ OpQuiet /\ UNCHANGED <<stubVars, chanVars, dropped, panic>>

StopInterrupts ==
    /\ op.stop = "interrupt"
    /\ TakeInterrupt(op.prev)
    /\ op' = [op EXCEPT !.stop = "wait"]
    /\ OpQuiet /\ UNCHANGED <<stubs, wrapper, mode, output, shut, cap, closed, dropped>>

StopAnswers ==
    /\ \/ op.stop = "interrupt" /\ shut[op.prev] /\ op' = [op EXCEPT !.stop = "no"]
       \/ op.stop = "wait" /\ pc[op.prev] = "exited" /\ op' = [op EXCEPT !.stop = "yes"]
    /\ OpQuiet /\ UNCHANGED <<stubVars, chanVars, dropped, panic>>

\* case interrupted = <-stop
StopReceived ==
    /\ op.pc = "drain" /\ ~op.writing
    /\ \/ op.stop = "yes" /\ op' = [op EXCEPT !.pc = "empty"]
       \/ op.stop = "no"  /\ op' = [op EXCEPT !.stop = "taken"]
    /\ OpQuiet /\ UNCHANGED <<stubVars, chanVars, dropped, panic>>

\* A chunk of the removed stub's Input is passed on with WriteOutput: any
\* chunk while draining, the buffered ones while emptying.
DrainChunk ==
    /\ ~op.writing
    /\ \/ op.pc = "drain" /\ buf[op.stub] # <<>>
       \/ op.pc = "empty" /\ ChanLen(op.stub) > 0
    /\ Move(op.stub, output[op.stub], Head(buf[op.stub]))
    /\ op' = [op EXCEPT !.writing = TRUE]
    /\ OpQuiet /\ UNCHANGED <<stubVars, cap, closed, dropped>>

DrainWritten ==
    /\ op.writing
    /\ \/ ~Blocked(output[op.stub]) /\ UNCHANGED <<buf, dropped>>
       \/ Blocked(output[op.stub]) /\ TakeBack(output[op.stub])   \* 5 s timeout
    /\ op' = [op EXCEPT !.writing = FALSE]
    /\ OpQuiet /\ UNCHANGED <<stubVars, cap, closed, panic>>

\* Mutant: the answer on stop is awaited though it was received.
DrainEndsAwaiting ==
    /\ op.pc = "drain" /\ ~op.writing /\ Ends(op.stub)
    /\ Close(op.stub, output[op.stub])
    /\ op' = [op EXCEPT !.pc = "await"]
    /\ OpQuiet /\ UNCHANGED <<stubs, wrapper, mode, pc, held, output, buf, cap, dropped>>

\* The Input ended: the stub is closed and stays in link.stubs.
DrainEnds ==
    /\ op.pc = "drain" /\ ~op.writing /\ Ends(op.stub)
    /\ Close(op.stub, output[op.stub])
    /\ op' = IF op.stop = "taken" THEN Idle ELSE [op EXCEPT !.pc = "await"]
    /\ OpQuiet /\ UNCHANGED <<stubs, wrapper, mode, pc, held, output, buf, cap, dropped>>

AwaitStop ==
    /\ op.pc = "await" /\ op.stop \in {"yes", "no"}
    /\ op' = Idle
    /\ OpQuiet /\ UNCHANGED <<stubVars, chanVars, dropped, panic>>

\* Mutant: the previous stub is not given the removed stub's Output.
RemoveForgetsOutput ==
    /\ op.pc = "empty" /\ ~op.writing /\ ChanLen(op.stub) = 0
    /\ stubs' = RemoveAt(stubs, op.pos)
    /\ wrapper' = [wrapper EXCEPT ![op.prev] = chain[op.pos - 1]]
    /\ \E m \in Modes(chain[op.pos - 1]) : mode' = [mode EXCEPT ![op.prev] = m]
    /\ pc' = [pc EXCEPT ![op.prev] = "recv"]
    /\ op' = Idle
    /\ OpQuiet /\ UNCHANGED <<output, held, shut, chanVars, dropped, panic>>

RemoveResumes ==
    /\ op.pc = "empty" /\ ~op.writing /\ ChanLen(op.stub) = 0
    /\ output' = [output EXCEPT ![op.prev] = output[op.stub]]
    /\ stubs' = RemoveAt(stubs, op.pos)
    /\ wrapper' = [wrapper EXCEPT ![op.prev] = chain[op.pos - 1]]
    /\ \E m \in Modes(chain[op.pos - 1]) : mode' = [mode EXCEPT ![op.prev] = m]
    /\ pc' = [pc EXCEPT ![op.prev] = "recv"]
    /\ op' = Idle
    /\ OpQuiet /\ UNCHANGED <<held, shut, chanVars, dropped, panic>>

-----------------------------------------------------------------------------
StubStep(k) ==
    \/ NoopReceive(k) \/ HoldReceive(k) \/ SlicerReceive(k) \/ ResetReceive(k)
    \/ ResetFires(k) \/ InputEnds(k) \/ Timer(k) \/ SlicerNext(k) \/ Sent(k)
    \/ WriteTimeout(k)

WriterStep == WriterReceive \/ WriterWrites \/ WriterEnds \/ RemoveLink

OpStep ==
    \/ AddResumes \/ AddToClosed \/ UpdateResumes \/ ClosedAlready
    \/ RemoveInterrupted \/ StopReceived \/ DrainChunk \/ DrainWritten
    \/ DrainEnds \/ AwaitStop \/ RemoveResumes

OpBegins ==
    \/ \E t \in Toxics : AddToxic(t)
    \/ \E i \in 2..Len(chain) : UpdateToxic(i) \/ RemoveToxic(i)

Next ==
    \/ ReadSource \/ ReaderSent \/ SourceEnds
    \/ \E k \in Stub : StubStep(k)
    \/ WriterStep \/ WriterFails
    \/ OpBegins \/ InterruptToxic \/ OpStep
    \/ StopInterrupts \/ StopAnswers

Spec == Init /\ [][Next]_vars

(***************************************************************************)
(* Fairness.  A goroutine that can proceed is eventually scheduled, timers  *)
(* fire, and a write to the destination returns.  A select whose Interrupt  *)
(* case is ready again and again eventually picks it (Go picks at random    *)
(* among the ready cases), hence SF.  Nothing is assumed of the source, of  *)
(* API clients, or of a failure of the destination.                         *)
(***************************************************************************)
Fairness ==
    /\ WF_vars(ReaderSent)
    /\ \A k \in Stub : WF_vars(StubStep(k))
    /\ WF_vars(WriterStep)
    /\ WF_vars(OpStep)
    /\ WF_vars(StopAnswers)
    /\ SF_vars(InterruptToxic)
    /\ SF_vars(StopInterrupts)

FairSpec == Spec /\ Fairness

-----------------------------------------------------------------------------
(* Properties *)

OpType ==
    [call : {"none", "add", "update", "remove"},
     pc : {"idle", "interrupt", "wait", "drain", "empty", "await"},
     toxic : Toxics, pos : Nat \ {0}, stub : Stub, prev : Stub,
     stop : {"none", "interrupt", "wait", "yes", "no", "taken"},
     writing : BOOLEAN]

\* Every variable of the link holds a value of its type: stubs and outputs
\* name existing stubs and channels, chunks consist of bytes that were read.
TypeOK ==
    /\ chain \in Seq(Toxics)
    /\ linked \in BOOLEAN
    /\ stubs \in Seq(Stub)
    /\ made \in 1..MaxStubs
    /\ wrapper \in [Stub -> Toxics]
    /\ mode \in [Stub -> Kinds]
    /\ pc \in [Stub -> {"none", "recv", "delay", "send", "flush", "wflush", "sleep", "exited"}]
    /\ held \in [Stub -> Seq(Byte)]
    /\ output \in [Stub -> Chan]
    /\ shut \in [Stub -> BOOLEAN]
    /\ buf \in [Chan -> Seq(Seq(Byte))]
    /\ cap \in [Chan -> Nat]
    /\ closed \in [Chan -> BOOLEAN]
    /\ reader \in {"read", "send", "done"}
    /\ sent \in 0..MaxDatagrams
    /\ writer \in {"recv", "write", "removing", "done"}
    /\ wbuf \in Seq(Byte)
    /\ delivered \in Seq(Byte)
    /\ dropped \subseteq Byte
    /\ op \in OpType
    /\ nops \in 0..MaxOps
    /\ panic \in {"none", "send", "close", "index"}

\* Where bytes are, from the destination back to the source: the chunk the writer
\* has, link.output, and each stub with its Input.
Places(w, ss, h, ch) ==
    [i \in 1..(Len(ss) + 2) |->
        CASE i = 1 -> w
          [] i = 2 -> FlattenSeq(ch[0])
          [] OTHER -> h[ss[Len(ss) + 3 - i]] \o FlattenSeq(ch[ss[Len(ss) + 3 - i]])]

\* The bytes inside the link, the oldest first.
InTransit == FlattenSeq(Places(wbuf, stubs, held, buf))

\* Whatever is added, updated or removed while data flows, the link is a pipe
\* that neither reorders, duplicates nor silently forgets a byte: bytes only
\* disappear into "dropped" (a failed write, WriteOutput's timeout, reset_peer).
Pipe == INSTANCE LossyPipe WITH transit <- InTransit, lost <- dropped

ImplementsPipe == Pipe!Spec

\* No goroutine ever sends on a closed channel, closes a channel twice or
\* closes one under a blocked sender, though Output channels change owners
\* while API calls race with the end of the source (ToxicStub.Close).
NoChannelPanic == panic \notin {"send", "close"}

\* Between API calls an open link is exactly the collection's chain: stub i
\* runs toxic i, sends into stub i+1, and the last one into link.output.
OpenLinkFollowsChain ==
    (linked /\ op.pc = "idle" /\ \A k \in Range(stubs) : ~shut[k])
    => /\ Len(stubs) = Len(chain)
       /\ \A i \in 1..Len(stubs) :
            /\ wrapper[stubs[i]] = chain[i]
            /\ mode[stubs[i]] \in Modes(chain[i])
            /\ output[stubs[i]] = IF i < Len(stubs) THEN stubs[i + 1] ELSE 0

\* A link never has fewer stubs than its chain has toxics, so the calls'
\* link.stubs[toxic.Index] stays in range even on a link that is closing.
StubsCoverChain == linked /\ op.pc = "idle" => Len(stubs) >= Len(chain)

\* Without reset_peer and failed writes, the destination sees the end of the
\* stream only after the source ended and every byte was delivered or given up.
EndAfterData == writer \in {"removing", "done"} => reader = "done" /\ InTransit = <<>>

\* An API call comes to an end (InterruptToxic returns), unless the process died.
OpCompletes == (op.pc # "idle") ~> (op.pc = "idle" \/ ~Alive)

\* Every byte read from the source is eventually delivered or given up.
InLink(b) == b \in Range(InTransit)
Gone(b) == ~Alive \/ b \in Range(delivered) \cup dropped
BytesLeave == \A b \in Byte : InLink(b) ~> Gone(b)

\* Once the source has ended the link is eventually removed from the collection.
EndedLinkRemoved == (reader = "done") ~> (~linked \/ ~Alive)

\* An API call never indexes past the chain or the stubs.
NoIndexPanic == panic # "index"
=============================================================================
