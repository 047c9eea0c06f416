----------------------------- MODULE Bandwidth ------------------------------
(***************************************************************************)
(* BandwidthToxic.Pipe (toxics/bandwidth.go).  Rate is a field of the toxic   *)
(* that an update writes while Pipe runs; Pipe reads it again at every use.   *)
(* Time is counted in milliseconds, and the rate in bytes per millisecond;    *)
(* sleep is rounded down to a millisecond, where the code rounds it down to a  *)
(* nanosecond.                                                                *)
(* A timer fires when it is due or later.  Time that passes while Pipe does    *)
(* not wait for a timer has no effect on it and is left out.  Locals that go   *)
(* out of scope are cleared.                                                  *)
(***************************************************************************)
EXTENDS GoSlice, Sequences

CONSTANTS
    Rates,          \* rates a client may give
    Interval        \* the 100 milliseconds between two pieces

ASSUME BandwidthAssumption ==
    /\ Rates # {} /\ Rates \subseteq Int
    /\ Interval \in Nat \ {0}

VARIABLES
    rate,       \* t.Rate
    bpc,        \* where Pipe is
    p,          \* p.Data
    piece,      \* the slice being sent in the loop
    sleep,      \* what remains to be waited for
    timer,      \* of the timer in use: the time since its start, and its duration
    meter       \* history of this run: bytes sent, time waited, packets
                \* received, and whether the rate has been the same

bandwidthVars == <<rate, bpc, p, piece, sleep, timer, meter>>

NewRun == [sent |-> 0, waited |-> 0, packets |-> 0, steady |-> TRUE]

BandwidthInit ==
    /\ rate \in Rates
    /\ bpc = "receive"
    /\ p = Made(0, 0) /\ piece = Made(0, 0)
    /\ sleep = 0 /\ timer = [elapsed |-> 0, due |-> 0]
    /\ meter = NewRun

-----------------------------------------------------------------------------
\* Time passes while a timer runs.
Tick ==
    /\ bpc \in {"tick", "last"}
    /\ timer' = [timer EXCEPT !.elapsed = @ + 1]
    /\ meter' = [meter EXCEPT !.waited = @ + 1]
    /\ UNCHANGED <<rate, bpc, p, piece, sleep>>

BandwidthReceive(c) ==
    /\ bpc = "receive"
    /\ p' = c
    /\ sleep' = IF rate <= 0 THEN 0 ELSE sleep + Size(c) \div rate
    /\ meter' = [meter EXCEPT !.packets = @ + 1]
    /\ bpc' = "loop"
    /\ UNCHANGED <<rate, piece, timer>>

BandwidthCloses ==
    /\ bpc = "receive"
    /\ bpc' = "closed"
    /\ UNCHANGED <<rate, p, piece, sleep, timer, meter>>

After(d) == [elapsed |-> 0, due |-> d]

\* Mutant: the length is compared with the bytes of one millisecond.
LoopTestUnscaled ==
    /\ bpc = "loop"
    /\ IF Size(p) > rate
       THEN bpc' = "tick" /\ timer' = After(Interval)
       ELSE bpc' = "last" /\ timer' = After(sleep)
    /\ UNCHANGED <<rate, p, piece, sleep, meter>>

\* for len(p.Data) > t.Rate*100
LoopTest ==
    /\ bpc = "loop"
    /\ IF Size(p) > rate * Interval
       THEN bpc' = "tick" /\ timer' = After(Interval)
       ELSE bpc' = "last" /\ timer' = After(sleep)
    /\ UNCHANGED <<rate, p, piece, sleep, meter>>

\* Mutant: the first piece is sent without waiting.
PieceDueAtOnce ==
    /\ bpc = "tick"
    /\ IF InBounds(p, 0, rate * Interval)
       THEN /\ piece' = Cut(p, 0, rate * Interval)
            /\ meter' = [meter EXCEPT !.sent = @ + rate * Interval]
            /\ bpc' = "piece"
       ELSE bpc' = "panic" /\ UNCHANGED <<piece, meter>>
    /\ timer' = After(0)
    /\ UNCHANGED <<rate, p, sleep>>

\* 100 milliseconds have passed: p.Data[:t.Rate*100] is cut out for sending.
PieceDue ==
    /\ bpc = "tick" /\ timer.elapsed >= timer.due
    /\ IF InBounds(p, 0, rate * Interval)
       THEN /\ piece' = Cut(p, 0, rate * Interval)
            /\ meter' = [meter EXCEPT !.sent = @ + rate * Interval]
            /\ bpc' = "piece"
       ELSE bpc' = "panic" /\ UNCHANGED <<piece, meter>>
    /\ timer' = After(0)
    /\ UNCHANGED <<rate, p, sleep>>

\* p.Data = p.Data[t.Rate*100:]
Reslice ==
    /\ bpc = "reslice"
    /\ LET k == rate * Interval
       IN IF 0 <= k /\ k <= Size(p)
          THEN /\ p' = Cut(p, k, Size(p))
               /\ sleep' = sleep - Interval
               /\ bpc' = "loop"
          ELSE bpc' = "panic" /\ UNCHANGED <<p, sleep>>
    /\ piece' = Made(0, 0)
    /\ UNCHANGED <<rate, timer, meter>>

\* What is left of the packet is due; a late timer shortens the next sleep.
LastDue ==
    /\ bpc = "last" /\ timer.elapsed >= timer.due
    /\ sleep' = sleep - timer.elapsed
    /\ meter' = [meter EXCEPT !.sent = @ + Size(p)]
    /\ bpc' = "final"
    /\ timer' = After(0)
    /\ UNCHANGED <<rate, p, piece>>

\* <-stub.Interrupt: what is left of the packet is written at once.
BandwidthInterrupted ==
    /\ \/ bpc = "receive" /\ bpc' = "returned"
       \/ bpc \in {"tick", "last"} /\ bpc' = "flush"
    /\ timer' = After(0) /\ sleep' = 0 /\ meter' = NewRun
    /\ UNCHANGED <<rate, p, piece>>

\* WriteOutput gives up after five seconds.
FlushTimesOut ==
    /\ bpc = "flush"
    /\ bpc' = "returned"
    /\ p' = Made(0, 0)
    /\ UNCHANGED <<rate, piece, sleep, timer, meter>>

BandwidthSending == bpc \in {"piece", "final", "flush"}

BandwidthOutput == IF bpc = "piece" THEN piece ELSE p

\* The successor has received it.
BandwidthSent ==
    /\ BandwidthSending
    /\ bpc' = CASE bpc = "piece" -> "reslice"
                [] bpc = "final" -> "receive"
                [] bpc = "flush" -> "returned"
    /\ p' = IF bpc = "piece" THEN p ELSE Made(0, 0)
    /\ UNCHANGED <<rate, piece, sleep, timer, meter>>

BandwidthRuns ==
    /\ bpc = "returned" /\ bpc' = "receive"
    /\ UNCHANGED <<rate, p, piece, sleep, timer, meter>>

BandwidthDecodes(r) ==
    /\ rate' = r
    /\ meter' = [meter EXCEPT !.steady = @ /\ (r = rate \/ bpc \in {"flush", "returned"})]
    /\ UNCHANGED <<bpc, p, piece, sleep, timer>>

\* The bytes of the packet that have not been passed on.
BandwidthHolds ==
    CASE bpc \in {"loop", "tick", "piece", "last", "final", "flush"} -> Bytes(p)
      [] bpc = "reslice" -> Bytes(Cut(p, Size(piece), Size(p)))
      [] OTHER -> <<>>
=============================================================================
