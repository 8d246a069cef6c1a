----------------------------- MODULE LookupService -----------------------------
(***************************************************************************)
(* What a lookup promises, without steps, cursors or scratch: an answer     *)
(* that depends on nothing but the open database and the callsign.          *)
(***************************************************************************)
CONSTANTS
    Databases,  \* the databases that may be open
    Calls,      \* the callsigns that are looked up
    AllReports, \* the report of every callsign, for every database
    NoAnswer,   \* before the first lookup
    Rejection   \* the answer to what is no callsign

VARIABLES
    db,         \* the open database
    answer      \* what the last lookup returned

serviceVars == <<db, answer>>

ServiceInit == db \in Databases /\ answer = NoAnswer

Answer(call) == answer' = AllReports[db][call] /\ UNCHANGED db
Refuse == answer' = Rejection /\ UNCHANGED db

ServiceSpec ==
    ServiceInit /\ [][Refuse \/ \E c \in Calls : Answer(c)]_serviceVars
=============================================================================
