---------------------------- MODULE AtomicConfig ----------------------------
(***************************************************************************)
(* What SetMode promises its clients (common/src/ipc.rs:45-65): a request  *)
(* changes the mode of the file in one indivisible step, and nothing else  *)
(* of it, before the answer ModeSet; or it changes nothing and the answer  *)
(* is Error.  A daemon that dies forgets its requests, which took effect   *)
(* or did not.  A power failure may bring a whole earlier file back.       *)
(***************************************************************************)
EXTENDS Config

CONSTANTS
    None,
    Clients,      \* who may ask
    FirstTexts,   \* what the file may say at first
    AskedModes    \* the modes they ask for

VARIABLES
    file,       \* the config file
    past,       \* the files a power failure may bring back
    request,    \* per client: where its request is, and the mode it asks for
    answer      \* per client: the last answer given

vars == <<file, past, request, answer>>

NoRequest == [state |-> "none", mode |-> None]

Init ==
    /\ file \in FirstTexts /\ past = {file}
    /\ request = [c \in Clients |-> NoRequest]
    /\ answer = [c \in Clients |-> None]

Ask(c) ==
    /\ request[c].state = "none"
    /\ \E m \in AskedModes : request' = [request EXCEPT ![c] = [state |-> "asked", mode |-> m]]
    /\ answer' = [answer EXCEPT ![c] = None]
    /\ UNCHANGED <<file, past>>

\* The one step in which a request takes effect
Apply(c) ==
    /\ request[c].state = "asked"
    /\ Loads(SetActiveMode(file, request[c].mode))
    /\ file' = SetActiveMode(file, request[c].mode)
    /\ past' = past \cup {file'}
    /\ request' = [request EXCEPT ![c].state = "applied"]
    /\ UNCHANGED answer

AnswerModeSet(c) ==
    /\ request[c].state = "applied"
    /\ request' = [request EXCEPT ![c] = NoRequest]
    /\ answer' = [answer EXCEPT ![c] = "ModeSet"]
    /\ UNCHANGED <<file, past>>

AnswerError(c) ==
    /\ request[c].state = "asked"
    /\ request' = [request EXCEPT ![c] = NoRequest]
    /\ answer' = [answer EXCEPT ![c] = "Error"]
    /\ UNCHANGED <<file, past>>

Forget ==
    /\ request' = [c \in Clients |-> NoRequest]
    /\ answer' = [c \in Clients |-> None]

Die == Forget /\ UNCHANGED <<file, past>>

Flush == past' = {file} /\ UNCHANGED <<file, request, answer>>

PowerFailure == file' \in past /\ past' = {file'} /\ Forget

Next ==
    \/ \E c \in Clients : Ask(c) \/ Apply(c) \/ AnswerModeSet(c) \/ AnswerError(c)
    \/ Die \/ Flush \/ PowerFailure

Spec == Init /\ [][Next]_vars
=============================================================================
