---------------------------- MODULE AbstractSweep ----------------------------
(***************************************************************************)
(* What the spendable-output pipeline promises, without its directories,   *)
(* batches or task steps: descriptor files are handed to it (deposited),   *)
(* it holds them (held), it covers some of the held files by a spend       *)
(* attempt (attempted), and it lets a file go only after an attempt has    *)
(* covered it.  The unconditional queue wipe of sweep.rs:180 is a Drop;    *)
(* nothing here promises that an attempt succeeded.                        *)
(***************************************************************************)
CONSTANT FileId      \* the keys descriptor files can have

VARIABLES held, deposited, attempted

vars == <<held, deposited, attempted>>

Init ==
    /\ held = {}
    /\ deposited = {}
    /\ attempted = {}

(* A new descriptor file enters the pipeline.                              *)
Deposit(i) ==
    /\ held' = held \cup {i}
    /\ deposited' = deposited \cup {i}
    /\ UNCHANGED attempted

(* A spend attempt covers some held files, whatever its outcome.          *)
Attempt(S) ==
    /\ attempted' = attempted \cup S
    /\ UNCHANGED <<held, deposited>>

(* Files already covered by an attempt are let go.                         *)
Drop(S) ==
    /\ S \subseteq attempted
    /\ held' = held \ S
    /\ UNCHANGED <<deposited, attempted>>

Next ==
    \/ \E i \in FileId : Deposit(i)
    \/ \E S \in SUBSET held : Attempt(S) \/ Drop(S)

Spec == Init /\ [][Next]_vars

(* The promise itself: a deposited file the pipeline no longer holds has  *)
(* been covered by an attempt.                                              *)
NothingDroppedUnattempted == deposited \ attempted \subseteq held
=============================================================================
