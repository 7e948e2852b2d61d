---------------------------- MODULE PriorityStore ----------------------------
(***************************************************************************)
(* The per-scenario priority overrides: the dlh-scenario-priorities        *)
(* ConfigMap, the PUT /api/scenario-priorities/{id} requests that read and *)
(* rewrite it as a whole (priorities.Store.Set), and its readers (All).    *)
(*                                                                         *)
(* The API server rejects an update of an object that has changed since it *)
(* was read; this is all that keeps two PUTs from erasing each other's     *)
(* override.  A PUT is one request: it reads once and writes once.         *)
(***************************************************************************)
EXTENDS Integers

CONSTANTS
    Scenarios,       \* names of scenario templates
    Values,          \* priorities that are asked for
    None,            \* no entry
    Junk,            \* an entry that is not an integer
    Puts,            \* PUT requests
    MaxEdits,        \* bound on edits of the ConfigMap by operators
    MaxStoreFaults   \* bound on calls to the API server that fail

ASSUME StoreAssumption ==
    /\ Values \subseteq Int
    /\ None \notin Int
    /\ Junk \notin Int
    /\ None # Junk
    /\ MaxEdits \in Nat
    /\ MaxStoreFaults \in Nat

VARIABLES
    exists,   \* the ConfigMap exists
    version,  \* its resourceVersion, which no later object reuses
    data,     \* scenario -> entry (None everywhere while it does not exist)
    asked,    \* PUT -> what it asks for; never changes
    put,      \* PUT -> how far it is
    copy,     \* PUT -> version and data it has read
    edits,
    storeFaults

configMap == <<exists, version, data>>
putVars == <<asked, put, copy>>
storeVars == <<configMap, putVars, edits, storeFaults>>

Entries == Values \cup {None, Junk}
NoData == [s \in Scenarios |-> None]

PutState == {"start", "found", "absent", "accepted", "rejected"}

StoreTypeOK ==
    /\ exists \in BOOLEAN
    /\ version \in Nat
    /\ data \in [Scenarios -> Entries]
    /\ asked \in [Puts -> [scenario : Scenarios, priority : Values]]
    /\ put \in [Puts -> PutState]
    /\ copy \in [Puts -> [version : Nat, data : [Scenarios -> Entries]]]
    /\ edits \in 0..MaxEdits
    /\ storeFaults \in 0..MaxStoreFaults

\* The chart installs an empty ConfigMap; an operator may have removed it.
StoreInit ==
    /\ exists \in BOOLEAN
    /\ version = 0
    /\ data = NoData
    /\ asked \in [Puts -> [scenario : Scenarios, priority : Values]]
    /\ put = [p \in Puts |-> "start"]
    /\ copy = [p \in Puts |-> [version |-> 0, data |-> NoData]]
    /\ edits = 0
    /\ storeFaults = 0

StoreFault == storeFaults < MaxStoreFaults /\ storeFaults' = storeFaults + 1

\* Store.All: the entries that parse; an absent ConfigMap has none.
All == [s \in Scenarios |-> IF data[s] = Junk THEN None ELSE data[s]]

-----------------------------------------------------------------------------
(* Store.Set *)

\* Broken variant: the entries are replaced by an empty map, nil or not.
SetGetForgets(p) ==
    /\ put[p] = "start"
    /\ IF exists
       THEN /\ put' = [put EXCEPT ![p] = "found"]
            /\ copy' = [copy EXCEPT ![p] = [version |-> version, data |-> NoData]]
       ELSE /\ put' = [put EXCEPT ![p] = "absent"]
            /\ UNCHANGED copy
    /\ UNCHANGED <<configMap, asked, edits, storeFaults>>

\* The template exists; Get the ConfigMap.
SetGet(p) ==
    /\ put[p] = "start"
    /\ IF exists
       THEN /\ put' = [put EXCEPT ![p] = "found"]
            /\ copy' = [copy EXCEPT ![p] = [version |-> version, data |-> data]]
       ELSE /\ put' = [put EXCEPT ![p] = "absent"]
            /\ UNCHANGED copy
    /\ UNCHANGED <<configMap, asked, edits, storeFaults>>

\* The template is not found (404), or one of the two Gets fails (500).
SetGetFails(p) ==
    /\ put[p] = "start"
    /\ StoreFault
    /\ put' = [put EXCEPT ![p] = "rejected"]
    /\ UNCHANGED <<configMap, asked, copy, edits>>

\* What Set sends: the copy with its own entry changed, junk included.
Rewritten(p) ==
    [copy[p].data EXCEPT ![asked[p].scenario] = asked[p].priority]

Write(d) ==
    /\ exists' = TRUE
    /\ version' = version + 1
    /\ data' = d

\* Broken variant: a Patch of the whole object, which no conflict stops.
CanUpdateBlind(p) == exists
\* Update is accepted only for the version that was read.
CanUpdate(p) == exists /\ copy[p].version = version

Update(p) ==
    /\ put[p] = "found"
    /\ IF CanUpdate(p)
       THEN /\ Write(Rewritten(p))
            /\ put' = [put EXCEPT ![p] = "accepted"]
       ELSE /\ put' = [put EXCEPT ![p] = "rejected"]
            /\ UNCHANGED configMap
    /\ UNCHANGED <<asked, copy, edits, storeFaults>>

\* Create fails when another PUT or an operator has created it meanwhile.
Create(p) ==
    /\ put[p] = "absent"
    /\ IF ~exists
       THEN /\ Write([NoData EXCEPT ![asked[p].scenario] = asked[p].priority])
            /\ put' = [put EXCEPT ![p] = "accepted"]
       ELSE /\ put' = [put EXCEPT ![p] = "rejected"]
            /\ UNCHANGED configMap
    /\ UNCHANGED <<asked, copy, edits, storeFaults>>

\* The write is executed or not, and its answer is an error.
WriteFails(p) ==
    /\ StoreFault
    /\ \/ put[p] = "found" /\ CanUpdate(p) /\ Write(Rewritten(p))
       \/ put[p] = "absent" /\ ~exists
          /\ Write([NoData EXCEPT ![asked[p].scenario] = asked[p].priority])
       \/ put[p] \in {"found", "absent"} /\ UNCHANGED configMap
    /\ put' = [put EXCEPT ![p] = "rejected"]
    /\ UNCHANGED <<asked, copy, edits>>

-----------------------------------------------------------------------------
(* Operators: kubectl edit, delete, or a new install *)

EditConfigMap ==
    /\ edits < MaxEdits
    /\ edits' = edits + 1
    /\ version' = version + 1
    /\ \/ exists /\ UNCHANGED exists
          /\ \E s \in Scenarios, e \in Entries : data' = [data EXCEPT ![s] = e]
       \/ exists' = ~exists /\ data' = NoData
    /\ UNCHANGED <<putVars, storeFaults>>

PutNext(p) == SetGet(p) \/ SetGetFails(p) \/ Update(p) \/ Create(p) \/ WriteFails(p)

StoreNext == EditConfigMap \/ \E p \in Puts : PutNext(p)

StoreSpec == StoreInit /\ [][StoreNext]_storeVars

-----------------------------------------------------------------------------
(* Properties *)

Answer(p) == IF put[p] = "accepted" THEN "ok"
             ELSE IF put[p] = "rejected" THEN "error" ELSE "none"

Map == INSTANCE OverrideMap WITH
    overrides <- All, answer <- [p \in Puts |-> Answer(p)]

\* PUTs that overlap in time, the operators' edits and failed calls leave the
\* overrides as some order of atomic PUTs would: no accepted override is erased
\* by a PUT of another scenario or by one that was rejected.
KeepsMap == Map!Spec

\* A version stands for one content: a PUT that still holds the current version
\* holds the current data, deletion and re-creation in between notwithstanding.
VersionPinsData ==
    /\ ~exists => data = NoData
    /\ \A p \in Puts :
         /\ copy[p].version <= version
         /\ put[p] = "found" /\ copy[p].version = version => copy[p].data = data

StoreInv == StoreTypeOK /\ VersionPinsData

=============================================================================
