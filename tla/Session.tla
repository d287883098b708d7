------------------------------ MODULE Session ------------------------------
(***************************************************************************)
(* The shell every dashboard page lives in: the bootstrap of               *)
(* app/(app)/providers.tsx, which holds the pages back until /api/me has   *)
(* answered and takes them away again when a later reading of it fails.    *)
(***************************************************************************)
EXTENDS Integers

CONSTANTS
    MaxFaults,  \* bound on the readings and changes that fail
    NoData      \* what a query holds before its first answer

ASSUME SessionAssumption == MaxFaults \in Nat /\ NoData \notin BOOLEAN

VARIABLES
    public,   \* the server's public_status_enabled
    me,       \* the query ["me"]: status and data (the flag above)
    meFetch,  \* its reading in flight
    faults

sessionVars == <<public, me, meFetch, faults>>

---------------------------------------------------------------------------
Me == [status : {"pending", "error", "success"}, data : BOOLEAN \cup {NoData}]

\* answered holds what was read; a failure answers NoData.
MeFetch == [phase : {"idle", "asked", "answered"}, data : BOOLEAN \cup {NoData}]

MeAsked == [phase |-> "asked", data |-> NoData]
MeIdle == [phase |-> "idle", data |-> NoData]
MeUnknown == [status |-> "pending", data |-> NoData]

\* Bootstrap renders the pages only while the newest reading succeeded.
Mounted == me.status = "success"

---------------------------------------------------------------------------
(* useMe *)

pollMe ==
    /\ meFetch = MeIdle
    /\ meFetch' = MeAsked
    /\ UNCHANGED <<public, me, faults>>

readMe ==
    /\ meFetch.phase = "asked"
    /\ meFetch' = [phase |-> "answered", data |-> public]
    /\ UNCHANGED <<public, me, faults>>

readMeFails ==
    /\ meFetch.phase = "asked"
    /\ faults < MaxFaults
    /\ faults' = faults + 1
    /\ meFetch' = [phase |-> "answered", data |-> NoData]
    /\ UNCHANGED <<public, me>>

\* A reading that fails keeps the data of the one before, yet takes the pages
\* away (isError), also when it was a poll in the background.
receiveMe ==
    /\ meFetch.phase = "answered"
    /\ meFetch' = MeIdle
    /\ me' = IF meFetch.data = NoData
             THEN [me EXCEPT !.status = "error"]
             ELSE [status |-> "success", data |-> meFetch.data]
    /\ UNCHANGED <<public, faults>>

\* The person reloads the tab.
reload ==
    /\ me' = MeUnknown
    /\ meFetch' = MeAsked
    /\ UNCHANGED <<public, faults>>

---------------------------------------------------------------------------
SessionInit ==
    /\ public = FALSE
    /\ me = MeUnknown
    /\ meFetch = MeAsked
    /\ faults = 0

\* What happens to /api/me without anything else changing.
Background == pollMe \/ readMe \/ readMeFails

SessionTypeOK ==
    /\ public \in BOOLEAN
    /\ me \in Me /\ meFetch \in MeFetch
    /\ faults \in 0..MaxFaults
=============================================================================
