----------------------------- MODULE WatchedLog -----------------------------
(***************************************************************************)
(* What a watch of the hub promises its reader: the reader sees what the   *)
(* source held at some moment, then what it held at later moments, with    *)
(* nothing left out in between, until it is told that the watch is over.   *)
(***************************************************************************)
EXTENDS Naturals, Sequences

CONSTANTS Kinds, Readers, KindOf

VARIABLES
    log,     \* the mutations of the source
    view,    \* the mutations each reader knows of
    over     \* the reader has been told that its watch ended

Held(r, n) == {i \in 1 .. n : log[i] = KindOf[r]}

Init ==
    /\ log = << >>
    /\ view = [r \in Readers |-> {}]
    /\ over = [r \in Readers |-> FALSE]

Append1(k) == log' = Append(log, k) /\ UNCHANGED <<view, over>>

\* A reader catches up with some moment of the log.
Advance(r) ==
    /\ ~over[r]
    /\ \E n \in 0 .. Len(log) :
          /\ view[r] \subseteq Held(r, n)
          /\ view' = [view EXCEPT ![r] = Held(r, n)]
    /\ UNCHANGED <<log, over>>

End(r) ==
    /\ ~over[r]
    /\ over' = [over EXCEPT ![r] = TRUE]
    /\ UNCHANGED <<log, view>>

\* A step of the source may hand its change to several readers.
Next ==
    \/ \E k \in Kinds : Append1(k)
    \/ \E r \in Readers : Advance(r) \/ End(r)

Spec == Init /\ [][Next]_<<log, view, over>>
=============================================================================
