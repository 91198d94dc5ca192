----------------------------- MODULE AtomicFile -----------------------------
(***************************************************************************)
(* What services/internal/durablefile promises its callers: a file that    *)
(* calls replace as a whole.  A call replaces at most once, by its own     *)
(* content, between its start and its return; a crash brings back a        *)
(* content the file had, never a part of one.                              *)
(***************************************************************************)
CONSTANTS
    Writers,    \* concurrent calls
    Contents,   \* what they write
    Absent,     \* no file
    None        \* no call

VARIABLES
    visible,    \* what a reader sees
    durable,    \* what a reader would see after a crash
    writing     \* the call of each writer: its content, and whether it has replaced

vars == <<visible, durable, writing>>

Init ==
    /\ visible = Absent /\ durable = Absent
    /\ writing = [w \in Writers |-> None]

Start(w, x) ==
    /\ writing[w] = None
    /\ writing' = [writing EXCEPT ![w] = <<x, FALSE>>]
    /\ UNCHANGED <<visible, durable>>

Replace(w) ==
    /\ writing[w] # None /\ ~writing[w][2]
    /\ visible' = writing[w][1]
    /\ writing' = [writing EXCEPT ![w] = <<writing[w][1], TRUE>>]
    /\ UNCHANGED durable

\* With success or with an error, the latter also without having replaced.
Return(w) ==
    /\ writing[w] # None
    /\ writing' = [writing EXCEPT ![w] = None]
    /\ durable' \in {durable, visible}
    /\ UNCHANGED visible

\* The system writes back what is visible.
Persist ==
    /\ durable' = visible
    /\ UNCHANGED <<visible, writing>>

Crash ==
    /\ visible' = durable
    /\ writing' = [w \in Writers |-> None]
    /\ UNCHANGED durable

Next ==
    \/ \E w \in Writers :
         \/ \E x \in Contents : Start(w, x)
         \/ Replace(w) \/ Return(w)
    \/ Persist \/ Crash

Spec == Init /\ [][Next]_vars

=============================================================================
