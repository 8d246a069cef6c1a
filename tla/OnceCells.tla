------------------------------ MODULE OnceCells ------------------------------
(***************************************************************************)
(* What the lazy sidecar accessors of CallBook promise, without files,      *)
(* locks or threads of control: every sidecar is a cell that is filled at   *)
(* most once, and every client that is handed a sidecar is handed the value *)
(* that fills the cell.  LazySidecar implements this specification.         *)
(***************************************************************************)
EXTENDS Naturals

CONSTANTS
    Clients,    \* whoever calls the accessors
    Cells       \* one cell per lazily opened sidecar

VARIABLES
    value,      \* value[c]: what fills the cell, or Empty
    reply       \* reply[t][c]: what client t was handed for c, or Empty

cellVars == <<value, reply>>

Empty == 0

CellsTypeOK ==
    /\ value \in [Cells -> Nat]
    /\ reply \in [Clients -> [Cells -> Nat]]

CellsInit ==
    /\ value = [c \in Cells |-> Empty]
    /\ reply = [t \in Clients |-> [c \in Cells |-> Empty]]

\* A client starts a new operation and holds nothing yet.
Restart(t) ==
    /\ reply' = [reply EXCEPT ![t] = [c \in Cells |-> Empty]]
    /\ UNCHANGED value

\* A client is handed what fills the cell.
Hand(t, c) ==
    /\ value[c] # Empty
    /\ reply' = [reply EXCEPT ![t][c] = value[c]]
    /\ UNCHANGED value

\* A client is told that the sidecar is missing or cannot be read, whether or
\* not the cell is filled.
Withhold(t, c) ==
    /\ reply' = [reply EXCEPT ![t][c] = Empty]
    /\ UNCHANGED value

\* A client fills an empty cell and is handed what it filled it with.
Fill(t, c) ==
    /\ value[c] = Empty
    /\ value'[c] \in Nat /\ value'[c] # Empty
    /\ value' = [value EXCEPT ![c] = value'[c]]
    /\ reply' = [reply EXCEPT ![t][c] = value'[c]]

CellsNext ==
    \E t \in Clients :
        \/ Restart(t)
        \/ \E c \in Cells : Hand(t, c) \/ Withhold(t, c) \/ Fill(t, c)

CellsSpec == CellsInit /\ [][CellsNext]_cellVars
=============================================================================
