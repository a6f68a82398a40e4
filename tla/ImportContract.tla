--------------------------- MODULE ImportContract ---------------------------
(***************************************************************************)
(* What an import promises its caller, whatever the pipeline does inside:  *)
(* it delivers units of the source or explains, by an error, why it did    *)
(* not; it returns only once every unit is delivered or explained, unless  *)
(* the caller gave up; and after returning it delivers nothing and adds no *)
(* error.                                                                  *)
(***************************************************************************)
CONSTANT Units

VARIABLES
    delivered,  \* units whose content is in the destination
    explained,  \* units for which an error was reported
    aborted,    \* the caller cancelled
    returned    \* the call has returned

vars == <<delivered, explained, aborted, returned>>

Init ==
    /\ delivered \in SUBSET Units   \* what is there from earlier imports
    /\ explained = {}
    /\ aborted = FALSE
    /\ returned = FALSE

\* Units with equal content are delivered together.
Deliver ==
    /\ ~returned
    /\ delivered' \in SUBSET Units /\ delivered \subseteq delivered'
    /\ UNCHANGED <<explained, aborted, returned>>

Explain ==
    /\ ~returned
    /\ explained' \in SUBSET Units /\ explained \subseteq explained'
    /\ UNCHANGED <<delivered, aborted, returned>>

Abort ==
    /\ aborted' = TRUE
    /\ UNCHANGED <<delivered, explained, returned>>

Return ==
    /\ aborted \/ Units \subseteq delivered \cup explained
    /\ returned' = TRUE
    /\ UNCHANGED <<delivered, explained, aborted>>

Next == Deliver \/ Explain \/ Abort \/ Return

Spec == Init /\ [][Next]_vars
=============================================================================
