----------------------------- MODULE EventFifo -----------------------------
(***************************************************************************)
(* What an event_stream promises to the readers of one DMA channel, without *)
(* rings, pointers or descriptors.  Events carry the numbers 1, 2, 3, ... in *)
(* the order the board finishes them.  They are delivered once each and in   *)
(* that order, they may be released in any order, and the board gets the     *)
(* memory of an event back only when that event and every older one have     *)
(* been released.                                                           *)
(***************************************************************************)
EXTENDS Naturals

CONSTANTS
    Capacity,    \* events the board may have outstanding at a time
    MaxEvents    \* bound on the number of events

VARIABLES
    written,     \* events the board has reported
    delivered,   \* events handed to a reader
    held,        \* numbers of the events a reader still uses
    recycled     \* oldest events whose memory the board has back

fifoVars == <<written, delivered, held, recycled>>

Init ==
    /\ written = 0
    /\ delivered = 0
    /\ held = {}
    /\ recycled = 0

Write ==
    /\ written < MaxEvents
    /\ written - recycled < Capacity
    /\ written' = written + 1
    /\ UNCHANGED <<delivered, held, recycled>>

Deliver ==
    /\ delivered < written
    /\ delivered' = delivered + 1
    /\ held' = held \union {delivered + 1}
    /\ UNCHANGED <<written, recycled>>

Release(e) ==
    /\ held' = held \ {e}
    /\ UNCHANGED <<written, delivered, recycled>>

Recycle(e) ==
    /\ recycled < e
    /\ e <= delivered
    /\ \A h \in held : e < h
    /\ recycled' = e
    /\ UNCHANGED <<written, delivered, held>>

Next ==
    \/ Write
    \/ Deliver
    \/ \E e \in held : Release(e)
    \/ \E e \in 1..MaxEvents : Recycle(e)

Spec == Init /\ [][Next]_fifoVars

=============================================================================
